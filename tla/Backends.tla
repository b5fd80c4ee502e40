------------------------------ MODULE Backends ------------------------------
(***************************************************************************)
(* The LlmBackend implementations of seck-infer behind the calls a pass    *)
(* makes, load and then generate.                                          *)
(*                                                                         *)
(* MlxBackend spawns a runner at every load and drops the one before it,   *)
(* whose pipes thereby close.  It speaks to the runner in lines, with      *)
(* in-band delimiters: PROMPT, the prompt, END; RESPONSE, the answer, END. *)
(* The runner, a program of its own, is modelled by that protocol.  It may *)
(* be slow, and it may die, in the middle of a line too.  OllamaBackend    *)
(* makes a connection for each prompt and parses the whole reply; the stub *)
(* answers by itself.                                                      *)
(*                                                                         *)
(* A line is a word and the call it was written for, which nobody sees.  A *)
(* prompt or an answer may have any word on a line of its own, or "blank", *)
(* nothing.  Lines end in a line feed, with or without a carriage return.  *)
(***************************************************************************)
EXTENDS Naturals, Sequences, SequencesExt

CONSTANTS
  MaxCalls,     \* bound: how many passes are run on the backend
  MaxLines,     \* bound: the lines of a prompt or an answer
  PromptWord,   \* bound: the lines a prompt may have
  AnswerWord,   \* bound: the lines an answer may have
  PipeCap,      \* how many lines a pipe buffers before a writer blocks
  Faults        \* what may go wrong: subset of {"spawn", "runner"}

ASSUME BoundsAssumption == {MaxCalls, MaxLines, PipeCap} \subseteq Nat \ {0}
ASSUME FaultsAssumption == Faults \subseteq {"spawn", "runner"}

Texts(words, least) == UNION {[1 .. n -> words] : n \in least .. MaxLines}
Prompts == Texts(PromptWord, 1)
Answers == Texts(AnswerWord, 0)

Line(word, call) == [word |-> word, call |-> call]
Lines(text, c)   == [i \in DOMAIN text |-> Line(text[i], c)]
Words(ls)        == [i \in DOMAIN ls |-> ls[i].word]

\* s is t without its trailing blank lines: trim_end_matches('\n').
Trims(s, t) ==
  /\ IsPrefix(s, t)
  /\ \A i \in Len(s) + 1 .. Len(t) : t[i] = "blank"
  /\ s # <<>> => s[Len(s)] # "blank"

\* What a line may be when it breaks off: part of it, all but the end of the
\* line, or something that reads END; of a text also what ends in the middle of
\* a character, which is not UTF-8.
Beginnings(word) ==
  IF word = "blank" THEN {}
  ELSE {"part", word} \cup (IF word \in {"RESPONSE", "END"} THEN {} ELSE {"END", "cut"})

VARIABLES
  kind,      \* "mlx", "ollama" or "stub"
  calls,     \* how many passes have begun
  pc,        \* "idle", "loaded", "writing", "reading", "ok" or "err"
  prompt,    \* the prompt of the running generate
  wrote,     \* how many lines of it have been written
  ahead,     \* what the BufReader has taken and not yet yielded
  inside,    \* in_response
  acc,       \* the answer gathered so far
  stdin,     \* the pipe to the runner
  stdout,    \* the pipe from it: its whole lines
  torn,      \* and behind them what it wrote of a line before it died, if anything
  runner,    \* "none", "command", "prompt", "answering" or "dead"
  heard,     \* the lines of the prompt the runner has read
  say,       \* the lines of its answer it has yet to write
  said,      \* what was answered since the last load: [call, heard, text]
  broke      \* the runner has died, or the server has sent an error, in this call

backend == <<kind, calls, pc, prompt, wrote, ahead, inside, acc>>
process == <<stdin, stdout, torn, runner, heard, say, said, broke>>
vars    == <<backend, process>>

Init ==
  /\ kind \in {"mlx", "ollama", "stub"}
  /\ calls = 0
  /\ pc = "idle"
  /\ prompt = <<>> /\ wrote = 0
  /\ ahead = <<>> /\ inside = FALSE /\ acc = <<>>
  /\ stdin = <<>> /\ stdout = <<>> /\ torn = <<>>
  /\ runner = "none" /\ heard = <<>> /\ say = <<>>
  /\ said = {} /\ broke = FALSE

-----------------------------------------------------------------------------
(* load.                                                                   *)

Begin(to) ==
  /\ pc \in {"idle", "ok", "err"}
  /\ calls < MaxCalls
  /\ calls' = calls + 1
  /\ pc' = to
  /\ prompt' = <<>> /\ wrote' = 0 /\ inside' = FALSE /\ acc' = <<>>
  /\ UNCHANGED <<kind, ahead>>

\* self.child = Some(child): the runner before it loses its pipes, with what
\* they hold, and nobody hears of it again.
FreshRunner ==
  /\ runner' = "command"
  /\ stdin' = <<>> /\ stdout' = <<>> /\ torn' = <<>>
  /\ heard' = <<>> /\ say' = <<>>
RunnerKept == IF runner = "none" THEN FreshRunner
              ELSE UNCHANGED <<runner, stdin, stdout, torn, heard, say>>
RunnerReplaced == FreshRunner

LoadMlx ==
  /\ kind = "mlx"
  /\ Begin("loaded")
  /\ RunnerReplaced
  /\ said' = {} /\ broke' = FALSE

LoadFails ==
  /\ kind = "mlx" /\ "spawn" \in Faults
  /\ Begin("err")
  /\ UNCHANGED process

\* The others only remember the configuration.
LoadOther ==
  /\ kind # "mlx"
  /\ Begin("loaded")
  /\ said' = {} /\ broke' = FALSE
  /\ UNCHANGED <<stdin, stdout, torn, runner, heard, say>>

-----------------------------------------------------------------------------
(* generate, of the MlxBackend.                                            *)

Generate ==
  /\ pc = "loaded" /\ kind = "mlx"
  /\ prompt' \in Prompts
  /\ wrote' = 0
  /\ pc' = "writing"
  /\ UNCHANGED <<kind, calls, ahead, inside, acc>>
  /\ UNCHANGED process

MessageUnended == <<Line("PROMPT", calls)>> \o Lines(prompt, calls)
Message == <<Line("PROMPT", calls)>> \o Lines(prompt, calls) \o <<Line("END", calls)>>

WriteLine ==
  /\ pc = "writing" /\ wrote < Len(Message)
  /\ runner # "dead"
  /\ Len(stdin) < PipeCap
  /\ stdin' = Append(stdin, Message[wrote + 1])
  /\ wrote' = wrote + 1
  /\ UNCHANGED <<kind, calls, pc, prompt, ahead, inside, acc>>
  /\ UNCHANGED <<stdout, torn, runner, heard, say, said, broke>>

\* EPIPE, as BackendError::Io.
WriteFails ==
  /\ pc = "writing" /\ wrote < Len(Message)
  /\ runner = "dead"
  /\ pc' = "err"
  /\ UNCHANGED <<kind, calls, prompt, wrote, ahead, inside, acc>>
  /\ UNCHANGED process

\* A BufReader of its own for every call.
StartReading ==
  /\ pc = "writing" /\ wrote = Len(Message)
  /\ pc' = "reading"
  /\ ahead' = <<>> /\ inside' = FALSE /\ acc' = <<>>
  /\ UNCHANGED <<kind, calls, prompt, wrote>>
  /\ UNCHANGED process

\* It takes what there is, beyond the END of the answer too.
Fill ==
  /\ pc = "reading" /\ ahead = <<>> /\ stdout # <<>>
  /\ \E k \in 1 .. Len(stdout) :
       /\ ahead' = SubSeq(stdout, 1, k)
       /\ stdout' = SubSeq(stdout, k + 1, Len(stdout))
  /\ UNCHANGED <<kind, calls, pc, prompt, wrote, inside, acc>>
  /\ UNCHANGED <<stdin, torn, runner, heard, say, said, broke>>

\* What a line adds to the answer.
GatheredFromTheFirst(l) == Append(acc, l)
Gathered(l)             == IF inside THEN Append(acc, l) ELSE acc

\* The answer, less the blank lines at its end.
Return(ls) ==
  /\ pc' = "ok"
  /\ \E n \in 0 .. Len(ls) :
       /\ acc' = SubSeq(ls, 1, n)
       /\ Trims(Words(acc'), Words(ls))

TakeLine ==
  /\ pc = "reading" /\ ahead # <<>>
  /\ LET l == Head(ahead)
     IN  IF inside /\ l.word = "END"
         THEN Return(acc) /\ ahead' = <<>> /\ UNCHANGED inside
         ELSE /\ ahead' = Tail(ahead)
              /\ inside' = (inside \/ l.word = "RESPONSE")
              /\ acc' = Gathered(l)
              /\ UNCHANGED pc
  /\ UNCHANGED <<kind, calls, prompt, wrote>>
  /\ UNCHANGED process

AtEndOfFile ==
  /\ pc = "reading" /\ ahead = <<>> /\ stdout = <<>> /\ runner = "dead"
  /\ UNCHANGED <<kind, calls, prompt, wrote, ahead, inside>>
  /\ UNCHANGED process

\* End-of-file ends the loop as well as END does: what is there is the answer.
OutputEnds == AtEndOfFile /\ torn = <<>> /\ Return(acc)

\* lines() yields a line that end-of-file cuts short like any other, and it is
\* the last: it may pass for END, or become the last line of the answer.
TakeTorn ==
  /\ AtEndOfFile /\ torn # <<>> /\ Head(torn).word # "cut"
  /\ Return(IF Head(torn).word = "END" THEN acc ELSE Gathered(Head(torn)))

\* What is not UTF-8 is an error of lines().
ReadFails ==
  /\ AtEndOfFile /\ torn # <<>> /\ Head(torn).word = "cut"
  /\ pc' = "err"
  /\ UNCHANGED acc

-----------------------------------------------------------------------------
(* generate, of the others.                                                *)

Reply(p, a) ==
  /\ prompt' = p
  /\ acc' = Lines(a, calls)
  /\ said' = said \cup {[call |-> calls, heard |-> p, text |-> a]}
  /\ pc' = "ok"

\* A reply that is cut short is not JSON; one without a response, such as an
\* error, is an empty answer.
OllamaAnswers ==
  /\ pc = "loaded" /\ kind = "ollama"
  /\ \E p \in Prompts, a \in Answers : Reply(p, a)
  /\ UNCHANGED <<kind, calls, wrote, ahead, inside>>
  /\ UNCHANGED <<stdin, stdout, torn, runner, heard, say, broke>>

OllamaErrs ==
  /\ pc = "loaded" /\ kind = "ollama"
  /\ prompt' \in Prompts
  /\ acc' = <<>>
  /\ broke' = TRUE
  /\ pc' \in {"ok", "err"}
  /\ UNCHANGED <<kind, calls, wrote, ahead, inside>>
  /\ UNCHANGED <<stdin, stdout, torn, runner, heard, say, said>>

\* The same answer to every prompt.
Canned == <<CHOOSE w \in AnswerWord : w \notin {"END", "blank"}>>

StubAnswers ==
  /\ pc = "loaded" /\ kind = "stub"
  /\ \E p \in Prompts : Reply(p, Canned)
  /\ UNCHANGED <<kind, calls, wrote, ahead, inside>>
  /\ UNCHANGED <<stdin, stdout, torn, runner, heard, say, broke>>

BackendNext ==
  \/ Generate \/ WriteLine \/ WriteFails \/ StartReading
  \/ Fill \/ TakeLine \/ OutputEnds \/ TakeTorn \/ ReadFails
  \/ OllamaAnswers \/ OllamaErrs \/ StubAnswers

-----------------------------------------------------------------------------
(* The runner.                                                             *)

Reads(word) == stdin # <<>> /\ Head(stdin).word = word /\ stdin' = Tail(stdin)

RunnerSkips ==
  /\ runner = "command"
  /\ stdin # <<>> /\ Head(stdin).word # "PROMPT"
  /\ stdin' = Tail(stdin)
  /\ UNCHANGED <<backend, stdout, torn, runner, heard, say, said, broke>>

RunnerListens ==
  /\ runner = "command"
  /\ Reads("PROMPT")
  /\ runner' = "prompt"
  /\ heard' = <<>>
  /\ UNCHANGED <<backend, stdout, torn, say, said, broke>>

RunnerHears ==
  /\ runner = "prompt"
  /\ stdin # <<>> /\ Head(stdin).word # "END"
  /\ heard' = Append(heard, Head(stdin).word)
  /\ stdin' = Tail(stdin)
  /\ UNCHANGED <<backend, stdout, torn, runner, say, said, broke>>

RunnerAnswers ==
  /\ runner = "prompt"
  /\ Reads("END")
  /\ runner' = "answering"
  /\ \E a \in Answers :
       LET c == Head(stdin).call
       IN  /\ said' = said \cup {[call |-> c, heard |-> heard, text |-> a]}
           /\ say' = Lines(<<"RESPONSE">> \o a \o <<"END">>, c)
  /\ UNCHANGED <<backend, stdout, torn, heard, broke>>

RunnerWrites ==
  /\ runner = "answering"
  /\ Len(stdout) < PipeCap
  /\ stdout' = Append(stdout, Head(say))
  /\ say' = Tail(say)
  /\ runner' = IF Len(say) = 1 THEN "command" ELSE "answering"
  /\ UNCHANGED <<backend, stdin, torn, heard, said, broke>>

RunnerNext ==
  RunnerSkips \/ RunnerListens \/ RunnerHears \/ RunnerAnswers \/ RunnerWrites

\* A runner that dies while it writes may leave the beginning of a line.
RunnerDies ==
  /\ "runner" \in Faults
  /\ runner \in {"command", "prompt", "answering"}
  /\ runner' = "dead"
  /\ broke' = TRUE
  /\ \/ torn' = <<>>
     \/ /\ runner = "answering" /\ Len(stdout) < PipeCap
        /\ \E b \in Beginnings(Head(say).word) : torn' = <<Line(b, Head(say).call)>>
  /\ UNCHANGED <<backend, stdin, stdout, heard, say, said>>

-----------------------------------------------------------------------------
Next == LoadMlx \/ LoadFails \/ LoadOther \/ BackendNext \/ RunnerNext \/ RunnerDies

\* Both processes are scheduled, and a runner that lives keeps at its work: the
\* code has no timeout for one that does not.  A new pass need never be run.
Spec == Init /\ [][Next]_vars /\ WF_vars(BackendNext) /\ WF_vars(RunnerNext)

-----------------------------------------------------------------------------
(* Properties.                                                             *)

\* All lines but the last are the beginning of the text, and the last begins the
\* line that comes next in it, which may be the END behind it.
TornOff(ws, text) ==
  \E n \in 0 .. Len(text) :
    /\ Len(ws) = n + 1
    /\ IsPrefix(SubSeq(ws, 1, n), text)
    /\ ws[n + 1] \in Beginnings((text \o <<"END">>)[n + 1])

\* An Ok answer stems from this call: it is the beginning of one answer given to
\* the beginning of this prompt, and holds no line of an earlier call, whatever
\* the delimiters inside prompts and answers did to the calls before.  Its last
\* line may be torn, which nobody is told, but only if the runner has died.
AnswerFromThisCall ==
  pc = "ok" /\ acc # <<>> =>
    /\ \A i \in DOMAIN acc : acc[i].call = calls
    /\ \E a \in said :
         /\ a.call = calls /\ IsPrefix(a.heard, prompt)
         /\ IsPrefix(Words(acc), a.text) \/ (broke /\ TornOff(Words(acc), a.text))

EndFree(text) == ~Contains(text, "END")

\* MlxBackend drops blank lines at the end of the answer.
Whole(ws, text) == IF kind = "mlx" THEN Trims(ws, text) ELSE ws = text

\* Unless the runner dies, or the server sends an error, and with no END on a
\* line of its own, the Ok answer is the whole answer to the whole prompt.
CleanAnswerWhole ==
  pc = "ok" /\ ~broke /\ EndFree(prompt) =>
    \E a \in said :
      /\ a.call = calls /\ a.heard = prompt
      /\ EndFree(a.text) => Whole(Words(acc), a.text)

\* A generate ends, with an answer or an error, whether the runner answers or
\* dies at any point, provided no END inside the prompt makes the runner answer
\* while the prompt is still being written.
GenerateEnds == (pc = "writing" /\ EndFree(prompt)) ~> (pc \in {"ok", "err"})
=============================================================================
