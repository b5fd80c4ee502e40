----------------------------- MODULE McpServer -----------------------------
(***************************************************************************)
(* `seck mcp --stdio`: the JSON-RPC loop, its report store, and a client   *)
(* that need not wait for one answer before it sends the next request.     *)
(* Both directions are pipes that hold PipeCap lines.                      *)
(*                                                                         *)
(* The client is whoever started the server: it writes lines of any kind,  *)
(* reads what comes back, closes its end of the standard input or goes     *)
(* away.  A tool call that analyzes a file is a `seck analyze` process,    *)
(* AnalyzeCommand.                                                         *)
(***************************************************************************)
EXTENDS AnalyzeCommand, Loops

CONSTANTS
  MaxLines,   \* bound: the lines a client sends
  PipeCap     \* the lines a pipe holds

ASSUME McpAssumption == MaxLines \in Nat /\ PipeCap \in Nat \ {0}

VARIABLES
  mcp,      \* "off", "reading", "analyzing", "writing", "over"
  client,   \* "on", "quiet" (has closed the standard input), "gone"
  sent,     \* the lines the client has sent
  taken,    \* how many of them the server has read
  reply,    \* the response being made or written
  replies,  \* the responses written
  heard,    \* how many of them the client has read
  store     \* the reports stored, by content

mcpVars == <<mcp, client, sent, taken, reply, replies, heard, store>>

\* "blank" is skipped; "binary" is not UTF-8; "garbage" is no request.  "good" is a
\* request that is answered with a result at once (initialize, tools/list, list_models,
\* verify_file_sha3 of a file that can be read), "bad" one that is answered with an
\* error at once (another method or tool, an argument missing, a file that cannot).
Kinds    == {"blank", "binary", "garbage", "good", "bad", "analyze"}
Requests == {"good", "bad", "analyze"}

Lines ==
  [kind : Kinds \ Requests, id : {FALSE}, files : {<<>>}]
    \cup [kind : Requests \ {"analyze"}, id : BOOLEAN, files : {<<>>}]
    \cup [kind : {"analyze"}, id : BOOLEAN, files : FileSets]

\* A request's id is its position; 0 is no id.
IdOnlyIfOk(n, ok, report) ==
  [id |-> IF sent[n].id /\ ok THEN n ELSE 0, ok |-> ok, report |-> report]
Response(n, ok, report) ==
  [id |-> IF sent[n].id THEN n ELSE 0, ok |-> ok, report |-> report]

NoResponse == [id |-> 0, ok |-> FALSE, report |-> NoReport]

-----------------------------------------------------------------------------
(* The client.                                                             *)

McpInit ==
  /\ mcp = "off"
  /\ client = "on"
  /\ sent = <<>>
  /\ taken = 0
  /\ reply = NoResponse
  /\ replies = <<>>
  /\ heard = 0
  /\ store = {}

Serving == mcp \notin {"off", "over"}

Send ==
  /\ Serving /\ client = "on"
  /\ Len(sent) < MaxLines
  /\ Len(sent) - taken < PipeCap
  /\ \E l \in Lines : sent' = Append(sent, l)
  /\ UNCHANGED <<mcp, client, taken, reply, replies, heard, store, analyzeVars>>

Hear ==
  /\ client # "gone"
  /\ heard < Len(replies)
  /\ heard' = heard + 1
  /\ UNCHANGED <<mcp, client, sent, taken, reply, replies, store, analyzeVars>>

HangUp ==
  /\ Serving /\ client = "on"
  /\ client' \in {"quiet", "gone"}
  /\ UNCHANGED <<mcp, sent, taken, reply, replies, heard, store, analyzeVars>>

-----------------------------------------------------------------------------
(* serve and dispatch.                                                     *)

\* A notification that succeeds is not answered.
SuppressedFailure(r) == ~r.ok
Suppressed(r) == r.id = 0 /\ r.ok

Respond(r) ==
  /\ reply' = IF Suppressed(r) THEN NoResponse ELSE r
  /\ mcp' = IF Suppressed(r) THEN "reading" ELSE "writing"

TakeNext ==
  /\ mcp = "reading"
  /\ taken < Len(sent)
  /\ taken' = taken + 1
  /\ UNCHANGED <<client, sent, replies, heard>>

Skip ==
  /\ TakeNext
  /\ sent[taken'].kind = "blank"
  /\ UNCHANGED <<mcp, reply, store, analyzeVars>>

\* lines() fails, and serve with it.
NotText ==
  /\ TakeNext
  /\ sent[taken'].kind = "binary"
  /\ mcp' = "over"
  /\ UNCHANGED <<reply, store, analyzeVars>>

Dispatch ==
  /\ TakeNext
  /\ sent[taken'].kind \in {"garbage", "good", "bad"}
  /\ Respond(Response(taken', sent[taken'].kind = "good", NoReport))
  /\ UNCHANGED <<store, analyzeVars>>

\* tool_analyze_file spawns seck analyze and waits for its output.
Analyze ==
  /\ TakeNext
  /\ sent[taken'].kind = "analyze"
  /\ mcp' = "analyzing"
  /\ Start("a", "json", sent[taken'].files)
  /\ UNCHANGED <<reply, store, logs>>

\* put keys a report by the digest of its content.
Stored(report) == store \cup {report}

\* The output counts if the status is 0 and all of it is one JSON value.
Usable == command.exit = "ok" /\ IsJson(stdout)

Analyzed ==
  /\ mcp = "analyzing"
  /\ command.phase = "over"
  /\ IF Usable
     THEN /\ store' = Stored(stdout.report)
          /\ Respond(Response(taken, TRUE, stdout.report))
     ELSE /\ Respond(Response(taken, FALSE, NoReport))
          /\ UNCHANGED store
  /\ UNCHANGED <<client, sent, taken, replies, heard, analyzeVars>>

Write ==
  /\ mcp = "writing"
  /\ client # "gone"
  /\ Len(replies) - heard < PipeCap
  /\ replies' = Append(replies, reply)
  /\ reply' = NoResponse
  /\ mcp' = "reading"
  /\ UNCHANGED <<client, sent, taken, heard, store, analyzeVars>>

\* EPIPE: serve returns it.
WriteFails ==
  /\ mcp = "writing"
  /\ client = "gone"
  /\ mcp' = "over"
  /\ UNCHANGED <<client, sent, taken, reply, replies, heard, store, analyzeVars>>

InputEnds ==
  /\ mcp = "reading"
  /\ client # "on"
  /\ taken = Len(sent)
  /\ mcp' = "over"
  /\ UNCHANGED <<client, sent, taken, reply, replies, heard, store, analyzeVars>>

Server == Skip \/ NotText \/ Dispatch \/ Analyze \/ Analyzed \/ Write \/ WriteFails \/ InputEnds

McpChild == mcp = "analyzing" /\ AnalyzeNext /\ UNCHANGED mcpVars

McpNext == Send \/ Hear \/ HangUp \/ Server \/ McpChild

-----------------------------------------------------------------------------
(* Properties.                                                             *)

McpTypeOK ==
  /\ mcp \in {"off", "reading", "analyzing", "writing", "over"}
  /\ client \in {"on", "quiet", "gone"}
  /\ sent \in Seq(Lines)
  /\ taken \in 0 .. Len(sent)
  /\ heard \in 0 .. Len(replies)
  /\ Len(sent) - taken \in 0 .. PipeCap
  /\ Len(replies) - heard \in 0 .. PipeCap

\* The requests with an id that the server has dealt with, in the order they came.
Finished == IF mcp \in {"analyzing", "writing"} \/ (taken > 0 /\ sent[taken].kind = "binary")
            THEN taken - 1 ELSE taken
Owed == Selected([i \in 1 .. Finished |-> i], {i \in 1 .. Finished : sent[i].id})
Answers == Selected(replies, {replies[i] : i \in {j \in DOMAIN replies : replies[j].id # 0}})

\* However requests are pipelined and whatever becomes of the analyses: the
\* responses that carry an id are one for each request with an id, in the order of
\* the requests; a response without one reports an error; and a response names a
\* report only if that report is stored and is the whole report of the files asked
\* about.
AnswersExact ==
  /\ mcp # "over" => [i \in DOMAIN Answers |-> Answers[i].id] = Owed
  /\ \A i \in DOMAIN replies :
       LET r == replies[i]
       IN  /\ r.id = 0 => ~r.ok
           /\ r.ok /\ sent[r.id].kind = "analyze" =>
                /\ r.report \in store
                /\ r.report = Written("a", Sandboxed!CompleteReport(Len(sent[r.id].files)))

\* A client that reads what it is sent is not left waiting, however many requests it
\* had under way: again and again every request sent so far has its answer, unless the
\* client goes away or some line before the request was not text.
Answered(i) == \E k \in 1 .. heard : replies[k].id = i
Spoiled(i)  == client = "gone" \/ \E j \in 1 .. i : sent[j].kind = "binary"

RequestsAnswered ==
  []<>(\A i \in DOMAIN sent : sent[i].id => Answered(i) \/ Spoiled(i))
=============================================================================
