--------------------------- MODULE Backends_proofs ---------------------------
(***************************************************************************)
(* For any number of calls, prompts and answers of any length with any     *)
(* words on their lines, and pipes of any size: an Ok answer stems from    *)
(* its own call, and is whole unless something broke or a delimiter lay    *)
(* inside the texts.                                                       *)
(*                                                                         *)
(* The argument follows the first answer of a call.  Until the runner      *)
(* gives it, nothing of any answer is in the pipe (Silent); from then on,  *)
(* what generate has gathered and what is on its way to it begins with     *)
(* that answer (Coming), and generate stops at the first END.              *)
(***************************************************************************)
EXTENDS Backends, SequenceTheorems, TLAPS

Word    == PromptWord \cup AnswerWord \cup {"PROMPT", "END", "RESPONSE", "part", "cut"}
AnyLine == [word : Word, call : Nat]

\* What is on its way to generate: read ahead, in the pipe, still to be written.
Parts(x, y, z) == x \o (y \o z)
OnItsWay       == Parts(ahead, stdout, say)

Wire(text) == <<"RESPONSE">> \o text \o <<"END">>

\* r begins with what of the answer lies behind its first k lines.
BeginsWith(r, text, k, c) ==
  /\ k <= Len(text) + 1
  /\ Len(r) >= Len(text) + 2 - k
  /\ \A i \in 1 .. Len(text) + 2 - k : r[i] = Line(Wire(text)[k + i], c)

-----------------------------------------------------------------------------
(* The invariant.                                                          *)

\* What came of the line at which the runner died.
TornAt ==
  /\ say # <<>>
  /\ \E b \in Beginnings(Head(say).word) : torn = <<Line(b, Head(say).call)>>

Shape ==
  /\ kind \in {"mlx", "ollama", "stub"}
  /\ calls \in Nat /\ wrote \in Nat /\ inside \in BOOLEAN
  /\ pc \in {"idle", "loaded", "writing", "reading", "ok", "err"}
  /\ runner \in {"none", "command", "prompt", "answering", "dead"}
  /\ {ahead, stdin, stdout, say} \subseteq Seq(AnyLine)
  /\ heard \in Seq(Word)
  /\ pc = "reading" => acc \in Seq(AnyLine)
  /\ pc # "reading" => ahead = <<>>
  /\ pc \in {"writing", "reading"} => prompt \in Seq(PromptWord) /\ kind = "mlx"
  /\ runner \in {"none", "command", "prompt"} => say = <<>>
  /\ runner = "answering" => say # <<>>
  /\ runner = "dead" => broke
  /\ torn # <<>> => runner = "dead"
  /\ torn = <<>> \/ TornAt
  /\ runner # "none" => kind = "mlx"

\* How many lines of the message a runner that has not answered yet has read.
ReadSoFar == IF runner = "prompt" THEN Len(heard) + 1 ELSE 0

Silent ==
  /\ stdout = <<>> /\ say = <<>> /\ ahead = <<>>
  /\ runner # "answering"
  /\ pc = "loaded" => stdin = <<>> /\ runner # "prompt"
  /\ pc = "reading" => ~inside /\ acc = <<>>
  /\ pc \in {"writing", "reading"} /\ runner # "dead" =>
       /\ ReadSoFar <= Len(prompt) + 1
       /\ wrote <= Len(prompt) + 2
       /\ Len(stdin) = wrote - ReadSoFar
       /\ \A i \in 1 .. Len(stdin) : stdin[i] = Message[ReadSoFar + i]
       /\ runner = "prompt" => \A i \in 1 .. Len(heard) : heard[i] = prompt[i]

\* An answer of this call to the beginning of its prompt, up to the first END.
Stems(a) ==
  /\ a.call = calls
  /\ IsPrefix(a.heard, prompt)
  /\ EndFree(prompt) => a.heard = prompt
  /\ a.text \in Seq(AnswerWord)

Coming(text) ==
  /\ pc \in {"writing", "reading"}
  /\ BeginsWith(OnItsWay, text, IF pc = "reading" /\ inside THEN Len(acc) + 1 ELSE 0, calls)
  /\ pc = "reading" => \A i \in 1 .. Len(acc) : acc[i] = Line(text[i], calls)
  /\ pc = "reading" /\ ~inside => acc = <<>>

UnderWay ==
  pc \in {"loaded", "writing", "reading"} /\ kind = "mlx" =>
    Silent \/ \E a \in said : Stems(a) /\ Coming(a.text)

FlowInv == Shape /\ UnderWay /\ AnswerFromThisCall /\ CleanAnswerWhole

-----------------------------------------------------------------------------
(* Lines and sequences.                                                    *)

LEMMA OfLine == \A word, call : Line(word, call).word = word /\ Line(word, call).call = call
BY DEF Line

\* A sequence between two delimiters.
LEMMA Framed ==
  ASSUME NEW S, NEW s \in Seq(S), NEW x \in S, NEW y \in S
  PROVE  /\ Len(s) \in Nat
         /\ <<x>> \o s \o <<y>> \in Seq(S)
         /\ Len(<<x>> \o s \o <<y>>) = Len(s) + 2
         /\ (<<x>> \o s \o <<y>>)[1] = x
         /\ \A i \in 1 .. Len(s) : (<<x>> \o s \o <<y>>)[i + 1] = s[i]
         /\ (<<x>> \o s \o <<y>>)[Len(s) + 2] = y
<1>1. PICK b, e : b = <<x>> /\ e = <<y>>
  OBVIOUS
<1>2. Len(s) \in Nat /\ b \in Seq(S) /\ e \in Seq(S)
  BY <1>1
<1>3. Len(b) = 1 /\ b[1] = x /\ Len(e) = 1 /\ e[1] = y
  BY <1>1
<1>4. PICK u : u = b \o s
  OBVIOUS
<1>5. /\ u \in Seq(S) /\ Len(u) = Len(b) + Len(s)
      /\ \A i \in 1 .. Len(b) : u[i] = b[i]
      /\ \A i \in 1 .. Len(s) : u[Len(b) + i] = s[i]
  BY <1>2, <1>4
<1>6. u \in Seq(S)
  BY <1>5
<1>7. PICK w : w = u \o e
  OBVIOUS
<1>8. /\ w \in Seq(S) /\ Len(w) = Len(u) + Len(e)
      /\ \A i \in 1 .. Len(u) : w[i] = u[i]
      /\ \A i \in 1 .. Len(e) : w[Len(u) + i] = e[i]
  BY <1>2, <1>6, <1>7
<1>9. w = <<x>> \o s \o <<y>>
  BY <1>1, <1>4, <1>7
<1>10. w[1] = x /\ \A i \in 1 .. Len(s) : w[i + 1] = s[i]
  BY <1>2, <1>3, <1>5, <1>8
<1>11. w[Len(s) + 2] = y /\ Len(w) = Len(s) + 2
  BY <1>2, <1>3, <1>5, <1>8
<1> QED
  BY <1>2, <1>8, <1>9, <1>10, <1>11

LEMMA WireFacts ==
  ASSUME NEW text \in Seq(AnswerWord), NEW c \in Nat
  PROVE  /\ Len(text) \in Nat
         /\ Lines(Wire(text), c) \in Seq(AnyLine)
         /\ Len(Lines(Wire(text), c)) = Len(text) + 2
         /\ \A i \in 1 .. Len(text) + 2 : Lines(Wire(text), c)[i] = Line(Wire(text)[i], c)
         /\ Wire(text)[1] = "RESPONSE"
         /\ \A i \in 1 .. Len(text) : Wire(text)[i + 1] = text[i]
         /\ Wire(text)[Len(text) + 2] = "END"
<1> DEFINE w == Wire(text)
<1>1. text \in Seq(Word) /\ "RESPONSE" \in Word /\ "END" \in Word
  BY DEF Word
<1>2. /\ Len(text) \in Nat
      /\ w \in Seq(Word) /\ Len(w) = Len(text) + 2
      /\ w[1] = "RESPONSE"
      /\ \A i \in 1 .. Len(text) : w[i + 1] = text[i]
      /\ w[Len(text) + 2] = "END"
  BY <1>1, Framed DEF Wire
<1> HIDE DEF w
<1>3. w \in [1 .. Len(text) + 2 -> Word]
  BY <1>2
<1>4. /\ Lines(w, c) \in [1 .. Len(text) + 2 -> AnyLine]
      /\ \A i \in 1 .. Len(text) + 2 : Lines(w, c)[i] = Line(w[i], c)
  BY <1>3 DEF Lines, Line, AnyLine
<1>5. Lines(w, c) \in Seq(AnyLine) /\ Len(Lines(w, c)) = Len(text) + 2
  BY <1>2, <1>4
<1> QED
  BY <1>2, <1>4, <1>5 DEF w

\* The message of a call, line by line.
LEMMA MessageFacts ==
  ASSUME prompt \in Seq(PromptWord), calls \in Nat
  PROVE  /\ Len(prompt) \in Nat
         /\ Message \in Seq(AnyLine)
         /\ Len(Message) = Len(prompt) + 2
         /\ Message[1] = Line("PROMPT", calls)
         /\ \A i \in 1 .. Len(prompt) : Message[i + 1] = Line(prompt[i], calls)
         /\ Message[Len(prompt) + 2] = Line("END", calls)
<1> DEFINE p == Lines(prompt, calls)
<1>1. Len(prompt) \in Nat /\ Line("PROMPT", calls) \in AnyLine /\ Line("END", calls) \in AnyLine
  BY DEF Line, AnyLine, Word
<1>2. p \in [1 .. Len(prompt) -> AnyLine]
      /\ \A i \in 1 .. Len(prompt) : p[i] = Line(prompt[i], calls)
  BY DEF Lines, Line, AnyLine, Word
<1>3. p \in Seq(AnyLine) /\ Len(p) = Len(prompt)
  BY <1>1, <1>2
<1>4. Message = <<Line("PROMPT", calls)>> \o p \o <<Line("END", calls)>>
  BY DEF Message
<1> HIDE DEF p
<1>5. /\ Message \in Seq(AnyLine) /\ Len(Message) = Len(p) + 2
      /\ Message[1] = Line("PROMPT", calls)
      /\ \A i \in 1 .. Len(p) : Message[i + 1] = p[i]
      /\ Message[Len(p) + 2] = Line("END", calls)
  <2>1. PICK x, y : x = Line("PROMPT", calls) /\ y = Line("END", calls)
    OBVIOUS
  <2>2. x \in AnyLine /\ y \in AnyLine
    BY <1>1, <2>1
  <2>3. /\ <<x>> \o p \o <<y>> \in Seq(AnyLine)
        /\ Len(<<x>> \o p \o <<y>>) = Len(p) + 2
        /\ (<<x>> \o p \o <<y>>)[1] = x
        /\ \A i \in 1 .. Len(p) : (<<x>> \o p \o <<y>>)[i + 1] = p[i]
        /\ (<<x>> \o p \o <<y>>)[Len(p) + 2] = y
    <3>1. PICK q : q = p
      OBVIOUS
    <3>2. q \in Seq(AnyLine)
      BY <1>3, <3>1
    <3>3. /\ <<x>> \o q \o <<y>> \in Seq(AnyLine)
          /\ Len(<<x>> \o q \o <<y>>) = Len(q) + 2
          /\ (<<x>> \o q \o <<y>>)[1] = x
          /\ \A i \in 1 .. Len(q) : (<<x>> \o q \o <<y>>)[i + 1] = q[i]
          /\ (<<x>> \o q \o <<y>>)[Len(q) + 2] = y
      BY <2>2, <3>2, Framed
    <3> QED BY <3>1, <3>3
  <2> QED BY <1>4, <2>1, <2>3
<1> QED
  BY <1>1, <1>2, <1>3, <1>5

LEMMA Regrouped ==
  ASSUME NEW s \in Seq(AnyLine), NEW t \in Seq(AnyLine), NEW u \in Seq(AnyLine)
  PROVE  s \o (t \o u) = (s \o t) \o u
BY ConcatAssociative

\* Reading ahead moves lines without changing their order.
LEMMA PartsRead ==
  ASSUME NEW x \in Seq(AnyLine), NEW y \in Seq(AnyLine), NEW z \in Seq(AnyLine),
         NEW k \in 1 .. Len(y), x = <<>>
  PROVE  \E f \in Seq(AnyLine), g \in Seq(AnyLine) :
           /\ f = SubSeq(y, 1, k) /\ g = SubSeq(y, k + 1, Len(y))
           /\ Parts(f, g, z) = Parts(x, y, z)
<1>0. PICK f, g : f = SubSeq(y, 1, k) /\ g = SubSeq(y, k + 1, Len(y))
  OBVIOUS
<1>1. f \in Seq(AnyLine) /\ g \in Seq(AnyLine)
  <2>1. \A i \in 1 .. k : y[i] \in AnyLine
    OBVIOUS
  <2>2. \A i \in k + 1 .. Len(y) : y[i] \in AnyLine
    OBVIOUS
  <2> QED BY <1>0, <2>1, <2>2, SubSeqProperties
<1>2. f \o g = y
  <2>1. 1 \in 1 .. Len(y) + 1 /\ k \in 1 - 1 .. Len(y) /\ Len(y) \in k .. Len(y)
    OBVIOUS
  <2>2. f \o g = SubSeq(y, 1, Len(y))
    BY <1>0, <2>1, ConcatAdjacentSubSeq
  <2> QED BY <2>2, SubSeqFull
<1>3. f \o (g \o z) = (f \o g) \o z
  BY <1>1, Regrouped, SMTT(60)
<1>4. <<>> \o (y \o z) = y \o z
  BY ConcatEmptySeq
<1>5. Parts(f, g, z) = Parts(x, y, z)
  BY <1>2, <1>3, <1>4 DEF Parts
<1> QED
  BY <1>0, <1>1, <1>5

\* So does the runner's writing.
LEMMA PartsWritten ==
  ASSUME NEW x \in Seq(AnyLine), NEW y \in Seq(AnyLine), NEW z \in Seq(AnyLine),
         z # <<>>
  PROVE  \E f \in Seq(AnyLine), t \in Seq(AnyLine) :
           /\ f = Append(y, Head(z)) /\ t = Tail(z)
           /\ Parts(x, f, t) = Parts(x, y, z)
           /\ t = <<>> <=> Len(z) = 1
<1>0. PICK f, t : f = Append(y, Head(z)) /\ t = Tail(z)
  OBVIOUS
<1>1. PICK h : h = Head(z)
  OBVIOUS
<1>2. h \in AnyLine /\ t \in Seq(AnyLine) /\ f \in Seq(AnyLine) /\ <<h>> \in Seq(AnyLine)
  BY <1>0, <1>1
<1>3. f = y \o <<h>>
  BY <1>0, <1>1, <1>2, AppendIsConcat
<1>4. (y \o <<h>>) \o t = y \o (<<h>> \o t)
  BY <1>2, Regrouped, SMTT(60)
<1>5. <<h>> \o t = z
  <2>1. /\ <<h>> \o t \in Seq(AnyLine) /\ Len(<<h>> \o t) = Len(<<h>>) + Len(t)
        /\ \A i \in 1 .. Len(<<h>>) + Len(t) :
             (<<h>> \o t)[i] = IF i <= Len(<<h>>) THEN <<h>>[i] ELSE t[i - Len(<<h>>)]
    BY <1>2, ConcatProperties
  <2>2. Len(<<h>>) = 1 /\ <<h>>[1] = z[1] /\ Len(z) \in Nat /\ Len(t) = Len(z) - 1
    BY <1>0, <1>1
  <2>3. \A i \in 1 .. Len(t) : t[i] = z[i + 1]
    BY <1>0, HeadTailProperties
  <2>4. Len(<<h>> \o t) = Len(z)
    BY <2>1, <2>2
  <2>5. \A i \in 1 .. Len(z) : (<<h>> \o t)[i] = z[i]
    BY <2>1, <2>2, <2>3
  <2> QED BY <2>1, <2>4, <2>5, SeqEqual
<1>6. Parts(x, f, t) = Parts(x, y, z)
  BY <1>3, <1>4, <1>5 DEF Parts
<1>7. t = <<>> <=> Len(z) = 1
  <2>1. Len(t) = Len(z) - 1 /\ Len(z) \in Nat
    BY <1>0
  <2>2. t = <<>> <=> Len(t) = 0
    BY <1>2, EmptySeq
  <2> QED BY <2>1, <2>2
<1> QED
  BY <1>0, <1>2, <1>6, <1>7

\* Taking the next line takes the first of those on their way.
LEMMA PartsTake ==
  ASSUME NEW x \in Seq(AnyLine), NEW y \in Seq(AnyLine), NEW z \in Seq(AnyLine), x # <<>>
  PROVE  /\ Head(x) \in AnyLine /\ Tail(x) \in Seq(AnyLine)
         /\ Parts(x, y, z)[1] = Head(x)
         /\ Len(Parts(Tail(x), y, z)) = Len(Parts(x, y, z)) - 1
         /\ \A i \in 1 .. Len(Parts(x, y, z)) - 1 :
              Parts(Tail(x), y, z)[i] = Parts(x, y, z)[i + 1]
<1>1. PICK v : v = y \o z
  OBVIOUS
<1>2. v \in Seq(AnyLine)
  BY <1>1
<1>3. PICK t : t = Tail(x)
  OBVIOUS
<1>4. /\ t \in Seq(AnyLine) /\ Len(t) = Len(x) - 1 /\ Head(x) \in AnyLine /\ Head(x) = x[1]
      /\ \A i \in 1 .. Len(t) : t[i] = x[i + 1]
  BY <1>3, HeadTailProperties
<1>5. t \in Seq(AnyLine) /\ Len(x) \in Nat /\ Len(v) \in Nat /\ Len(x) >= 1
  BY <1>2, <1>4
<1>6. /\ Len(x \o v) = Len(x) + Len(v)
      /\ \A i \in 1 .. Len(x) : (x \o v)[i] = x[i]
      /\ \A i \in 1 .. Len(v) : (x \o v)[Len(x) + i] = v[i]
  BY <1>2
<1>7. /\ Len(t \o v) = Len(t) + Len(v)
      /\ \A i \in 1 .. Len(t) : (t \o v)[i] = t[i]
      /\ \A i \in 1 .. Len(v) : (t \o v)[Len(t) + i] = v[i]
  BY <1>2, <1>5
<1>8. PICK old, new : old = x \o v /\ new = t \o v
  OBVIOUS
<1>9. Len(new) = Len(old) - 1 /\ old[1] = Head(x)
  BY <1>4, <1>5, <1>6, <1>7, <1>8
<1>10. ASSUME NEW i \in 1 .. Len(old) - 1 PROVE new[i] = old[i + 1]
  <2>1. CASE i \in 1 .. Len(t)
    BY <1>4, <1>5, <1>6, <1>7, <1>8, <2>1
  <2>2. CASE i \in Len(t) + 1 .. Len(t) + Len(v)
    <3>1. PICK j \in 1 .. Len(v) : i = Len(t) + j
      <4>1. i - Len(t) \in 1 .. Len(v) /\ i = Len(t) + (i - Len(t))
        BY <1>4, <1>5, <2>2
      <4> QED BY <4>1
    <3>2. i + 1 = Len(x) + j
      BY <1>4, <1>5, <3>1
    <3> QED BY <1>6, <1>7, <1>8, <3>1, <3>2
  <2> QED BY <1>4, <1>5, <1>6, <1>8, <2>1, <2>2
<1> QED
  BY <1>1, <1>3, <1>4, <1>8, <1>9, <1>10 DEF Parts

\* What the runner adds comes last.
LEMMA PartsAdd ==
  ASSUME NEW x \in Seq(AnyLine), NEW y \in Seq(AnyLine), NEW z \in Seq(AnyLine)
  PROVE  /\ Len(Parts(x, y, z)) >= Len(Parts(x, y, <<>>))
         /\ \A i \in 1 .. Len(Parts(x, y, <<>>)) : Parts(x, y, z)[i] = Parts(x, y, <<>>)[i]
         /\ x = <<>> /\ y = <<>> => Parts(x, y, z) = z
<1>1. PICK u, v : u = x \o y /\ v = u \o z
  OBVIOUS
<1>2. u \in Seq(AnyLine)
  BY <1>1
<1>3. Len(v) >= Len(u) /\ \A i \in 1 .. Len(u) : v[i] = u[i]
  BY <1>1, <1>2
<1>4. Parts(x, y, z) = v
  BY <1>1, Regrouped DEF Parts
<1>5. Parts(x, y, <<>>) = u
  BY <1>1, ConcatEmptySeq DEF Parts
<1>6. x = <<>> /\ y = <<>> => Parts(x, y, z) = z
  BY ConcatEmptySeq DEF Parts
<1> QED
  BY <1>3, <1>4, <1>5, <1>6

LEMMA PrefixByLine ==
  ASSUME NEW S, NEW s \in Seq(S), NEW t \in Seq(S), Len(s) <= Len(t),
         \A i \in 1 .. Len(s) : s[i] = t[i]
  PROVE  IsPrefix(s, t) /\ (Len(s) = Len(t) => s = t)
<1>1. Len(s) \in Nat /\ Len(t) \in Nat
  OBVIOUS
<1>2. /\ SubSeq(s, 1, Len(s)) \in Seq(S) /\ Len(SubSeq(s, 1, Len(s))) = Len(s)
      /\ \A i \in 1 .. Len(s) : SubSeq(s, 1, Len(s))[i] = s[i]
  OBVIOUS
<1>3. /\ SubSeq(t, 1, Len(s)) \in Seq(S) /\ Len(SubSeq(t, 1, Len(s))) = Len(s)
      /\ \A i \in 1 .. Len(s) : SubSeq(t, 1, Len(s))[i] = t[i]
  BY <1>1
<1>4. SubSeq(s, 1, Len(s)) = SubSeq(t, 1, Len(s))
  BY <1>2, <1>3, SeqEqual
<1> QED
  BY <1>1, <1>4, SeqEqual DEF IsPrefix

\* The first n lines have n words.
LEMMA Cut ==
  ASSUME NEW S, NEW ls \in Seq(S), NEW n \in 0 .. Len(ls)
  PROVE  Len(Words(SubSeq(ls, 1, n))) = n
<1>1. n \in Nat /\ Len(ls) \in Nat
  OBVIOUS
<1>2. PICK u : u = SubSeq(ls, 1, n)
  OBVIOUS
<1>3. u \in Seq(S) /\ Len(u) = n
  BY <1>1, <1>2
<1>4. DOMAIN u = 1 .. n
  BY <1>1, <1>3
<1>5. Words(u) = [i \in 1 .. n |-> u[i].word]
  BY <1>4 DEF Words
<1>6. Len(Words(u)) = n
  BY <1>1, <1>5
<1> QED
  BY <1>2, <1>6

\* The lines of a text, without what nobody sees.
LEMMA WordsOfLines ==
  ASSUME NEW S, NEW text \in Seq(S), NEW c
  PROVE  /\ Words(Lines(text, c)) = text
         /\ DOMAIN Lines(text, c) = DOMAIN text
         /\ \A i \in DOMAIN text : Lines(text, c)[i].call = c
         /\ IsPrefix(text, text)
<1>1. IsPrefix(text, text)
  BY PrefixByLine
<1> QED
  BY <1>1 DEF Words, Lines, Line

-----------------------------------------------------------------------------
(* Each step keeps the invariant.                                          *)

LEMMA FlowInvInit == Init => FlowInv
<1>1. <<>> \in Seq(AnyLine) /\ <<>> \in Seq(Word)
  OBVIOUS
<1>2. Init => {ahead, stdin, stdout, say} \subseteq Seq(AnyLine) /\ heard \in Seq(Word)
  BY <1>1, Zenon DEF Init
<1>3. Init => Shape
  <2> SUFFICES ASSUME Init PROVE Shape
    OBVIOUS
  <2>1. {ahead, stdin, stdout, say} \subseteq Seq(AnyLine) /\ heard \in Seq(Word)
    BY <1>2
  <2>2. inside \in BOOLEAN /\ calls \in Nat /\ wrote \in Nat /\ runner = "none" /\ pc = "idle"
    BY DEF Init
  <2>3. kind \in {"mlx", "ollama", "stub"} /\ say = <<>> /\ ahead = <<>> /\ torn = <<>>
    BY DEF Init
  <2> QED BY <2>1, <2>2, <2>3 DEF Shape, TornAt
<1> QED
  BY <1>3 DEF Init, FlowInv, UnderWay, AnswerFromThisCall, CleanAnswerWhole

LEMMA NotOk ==
  ASSUME pc' # "ok"
  PROVE  AnswerFromThisCall' /\ CleanAnswerWhole'
BY DEF AnswerFromThisCall, CleanAnswerWhole

\* What was returned stays true whatever else the runner says.
LEMMA OkStays ==
  ASSUME AnswerFromThisCall, CleanAnswerWhole, UNCHANGED <<kind, pc, acc, calls, prompt>>,
         said \subseteq said', broke => broke'
  PROVE  AnswerFromThisCall' /\ CleanAnswerWhole'
<1>1. Words(acc)' = Words(acc)
  BY DEF Words
<1>2. AnswerFromThisCall'
  BY <1>1 DEF AnswerFromThisCall
<1>3. CleanAnswerWhole'
  BY <1>1 DEF CleanAnswerWhole, Whole
<1> QED
  BY <1>2, <1>3

LEMMA MessageStays == ASSUME UNCHANGED <<prompt, calls>> PROVE Message' = Message
BY DEF Message, Lines, Line

LEMMA LoadKeeps == ASSUME FlowInv, LoadMlx \/ LoadFails \/ LoadOther PROVE FlowInv'
<1>1. pc' \in {"loaded", "err"} /\ pc \notin {"writing", "reading"} /\ calls' \in Nat
  BY DEF FlowInv, Shape, LoadMlx, LoadFails, LoadOther, Begin
<1>2. AnswerFromThisCall' /\ CleanAnswerWhole'
  BY <1>1, NotOk
<1>3. Shape'
  <2>1. <<>> \in Seq(AnyLine) /\ <<>> \in Seq(Word)
    OBVIOUS
  <2>2. CASE LoadMlx
    BY <1>1, <2>1, <2>2 DEF FlowInv, Shape, TornAt, LoadMlx, Begin, RunnerReplaced, FreshRunner
  <2>3. CASE LoadFails
    BY <1>1, <2>3 DEF FlowInv, Shape, TornAt, LoadFails, Begin, process
  <2>4. CASE LoadOther
    BY <1>1, <2>4 DEF FlowInv, Shape, TornAt, LoadOther, Begin
  <2> QED BY <2>2, <2>3, <2>4
<1>4. UnderWay'
  <2>1. CASE LoadMlx
    <3>1. Silent'
      BY <1>1, <2>1 DEF Silent, LoadMlx, Begin, RunnerReplaced, FreshRunner, FlowInv, Shape
    <3> QED BY <3>1 DEF UnderWay
  <2>2. CASE LoadFails
    BY <2>2 DEF UnderWay, LoadFails, Begin
  <2>3. CASE LoadOther
    BY <2>3 DEF UnderWay, LoadOther, Begin
  <2> QED BY <2>1, <2>2, <2>3
<1> QED
  BY <1>2, <1>3, <1>4 DEF FlowInv

LEMMA GenerateKeeps == ASSUME FlowInv, Generate PROVE FlowInv'
<1>1. /\ pc = "loaded" /\ kind = "mlx" /\ pc' = "writing" /\ wrote' = 0
      /\ UNCHANGED <<kind, calls, ahead, inside, acc>> /\ UNCHANGED process
  BY DEF Generate
<1>2. prompt' \in Seq(PromptWord) /\ Len(prompt') \in Nat
  BY DEF Generate, Prompts, Texts
<1>3. Shape'
  BY <1>1, <1>2 DEF FlowInv, Shape, TornAt, process
<1>4. Silent
  BY <1>1 DEF FlowInv, UnderWay, Coming
<1>5. Silent'
  BY <1>1, <1>2, <1>4 DEF Silent, ReadSoFar, process
<1> QED
  BY <1>1, <1>3, <1>5, NotOk DEF FlowInv, UnderWay

LEMMA WriteLineKeeps == ASSUME FlowInv, WriteLine PROVE FlowInv'
<1>1. /\ pc = "writing" /\ runner # "dead" /\ wrote < Len(Message)
      /\ stdin' = Append(stdin, Message[wrote + 1]) /\ wrote' = wrote + 1
      /\ UNCHANGED <<kind, calls, pc, prompt, ahead, inside, acc>>
      /\ UNCHANGED <<stdout, torn, runner, heard, say, said, broke>>
  BY DEF WriteLine
<1>2. /\ prompt \in Seq(PromptWord) /\ kind = "mlx" /\ calls \in Nat /\ wrote \in Nat
      /\ stdin \in Seq(AnyLine) /\ heard \in Seq(Word)
  BY <1>1 DEF FlowInv, Shape
<1>3. /\ Len(prompt) \in Nat /\ Message \in Seq(AnyLine) /\ Len(Message) = Len(prompt) + 2
      /\ Message' = Message
  BY <1>1, <1>2, MessageFacts, MessageStays
<1>4. Message[wrote + 1] \in AnyLine
  BY <1>1, <1>2, <1>3
<1>5. /\ stdin' \in Seq(AnyLine) /\ Len(stdin') = Len(stdin) + 1 /\ Len(stdin) \in Nat
      /\ \A i \in 1 .. Len(stdin) : stdin'[i] = stdin[i]
      /\ stdin'[Len(stdin) + 1] = Message[wrote + 1]
  BY <1>1, <1>2, <1>4, AppendProperties
<1>6. Shape'
  BY <1>1, <1>2, <1>5 DEF FlowInv, Shape, TornAt
<1>7. UnderWay'
  <2>1. CASE Silent
    <3>1. ReadSoFar \in Nat /\ Len(stdin) = wrote - ReadSoFar /\ ReadSoFar' = ReadSoFar
      BY <1>1, <1>2, <2>1 DEF Silent, ReadSoFar
    <3>2. \A i \in 1 .. Len(stdin) : stdin[i] = Message[ReadSoFar + i]
      BY <1>1, <2>1 DEF Silent
    <3>3. \A i \in 1 .. Len(stdin') : stdin'[i] = Message[ReadSoFar + i]
      <4> TAKE i \in 1 .. Len(stdin')
      <4>1. CASE i \in 1 .. Len(stdin)
        BY <1>5, <3>2, <4>1
      <4>2. CASE i = Len(stdin) + 1
        <5>1. ReadSoFar + i = wrote + 1
          BY <1>2, <1>5, <3>1, <4>2
        <5> QED BY <1>5, <4>2, <5>1
      <4> QED BY <1>5, <4>1, <4>2
    <3>4. /\ wrote' <= Len(prompt) + 2
          /\ Len(stdin') = wrote' - ReadSoFar
      BY <1>1, <1>2, <1>3, <1>5, <3>1
    <3>5. Silent'
      BY <1>1, <1>3, <2>1, <3>1, <3>3, <3>4 DEF Silent
    <3> QED BY <3>5 DEF UnderWay
  <2>2. ASSUME NEW a \in said, Stems(a), Coming(a.text) PROVE UnderWay'
    <3>1. Stems(a)' /\ Coming(a.text)'
      BY <1>1, <2>2 DEF Stems, Coming, OnItsWay
    <3> QED BY <1>1, <3>1 DEF UnderWay
  <2> QED BY <1>1, <1>2, <2>1, <2>2 DEF FlowInv, UnderWay
<1> QED
  BY <1>1, <1>6, <1>7, NotOk DEF FlowInv

LEMMA WriteFailsKeeps == ASSUME FlowInv, WriteFails PROVE FlowInv'
<1>1. pc' = "err" /\ pc = "writing"
  BY DEF WriteFails
<1>2. Shape' /\ UnderWay'
  BY <1>1 DEF WriteFails, FlowInv, Shape, TornAt, UnderWay, process
<1> QED
  BY <1>1, <1>2, NotOk DEF FlowInv

LEMMA StartReadingKeeps == ASSUME FlowInv, StartReading PROVE FlowInv'
<1>1. /\ pc = "writing" /\ pc' = "reading" /\ ahead' = <<>> /\ inside' = FALSE /\ acc' = <<>>
      /\ UNCHANGED <<kind, calls, prompt, wrote, stdin, stdout, torn, runner, heard, say, said, broke>>
  BY DEF StartReading, process
<1>2. ahead = <<>> /\ kind = "mlx" /\ <<>> \in Seq(AnyLine)
  BY <1>1 DEF FlowInv, Shape
<1>3. Shape'
  BY <1>1, <1>2 DEF FlowInv, Shape, TornAt
<1>4. CASE Silent
  <2>1. Silent'
    BY <1>1, <1>4, MessageStays DEF Silent, ReadSoFar
  <2> QED BY <1>1, <1>3, <2>1, NotOk DEF FlowInv, UnderWay
<1>5. ASSUME NEW a \in said, Stems(a), Coming(a.text) PROVE FlowInv'
  <2>1. Stems(a)' /\ Coming(a.text)'
    BY <1>1, <1>2, <1>5 DEF Stems, Coming, OnItsWay
  <2> QED BY <1>1, <1>3, <2>1, NotOk DEF FlowInv, UnderWay
<1> QED
  BY <1>1, <1>2, <1>4, <1>5 DEF FlowInv, UnderWay

LEMMA FillKeeps == ASSUME FlowInv, Fill PROVE FlowInv'
<1>1. PICK k \in 1 .. Len(stdout) :
        /\ ahead' = SubSeq(stdout, 1, k)
        /\ stdout' = SubSeq(stdout, k + 1, Len(stdout))
  BY DEF Fill
<1>2. /\ pc = "reading" /\ ahead = <<>> /\ stdout # <<>>
      /\ UNCHANGED <<kind, calls, pc, prompt, wrote, inside, acc>>
      /\ UNCHANGED <<stdin, torn, runner, heard, say, said, broke>>
  BY DEF Fill
<1>3. kind = "mlx" /\ ahead \in Seq(AnyLine) /\ stdout \in Seq(AnyLine) /\ say \in Seq(AnyLine)
  BY <1>2 DEF FlowInv, Shape
<1>4. ahead' \in Seq(AnyLine) /\ stdout' \in Seq(AnyLine) /\ OnItsWay' = OnItsWay
  <2>1. /\ ahead' \in Seq(AnyLine) /\ stdout' \in Seq(AnyLine)
        /\ Parts(ahead', stdout', say) = Parts(ahead, stdout, say)
    <3>1. PICK f \in Seq(AnyLine), g \in Seq(AnyLine) :
            /\ f = SubSeq(stdout, 1, k) /\ g = SubSeq(stdout, k + 1, Len(stdout))
            /\ Parts(f, g, say) = Parts(ahead, stdout, say)
      BY <1>1, <1>2, <1>3, PartsRead, Zenon
    <3>2. ahead' = f /\ stdout' = g
      BY <1>1, <3>1, Zenon
    <3> QED BY <3>1, <3>2
  <2> QED BY <1>2, <2>1 DEF OnItsWay
<1>5. Shape'
  BY <1>2, <1>4 DEF FlowInv, Shape, TornAt
<1>6. PICK a \in said : Stems(a) /\ Coming(a.text)
  BY <1>2, <1>3 DEF FlowInv, UnderWay, Silent
<1>7. Stems(a)' /\ Coming(a.text)'
  BY <1>2, <1>4, <1>6 DEF Stems, Coming
<1> QED
  BY <1>2, <1>5, <1>6, <1>7, NotOk DEF FlowInv, UnderWay

\* Behind its first line, an answer on its way begins a line later.
LEMMA NextLine ==
  ASSUME NEW text \in Seq(AnswerWord), NEW r, NEW q, NEW k \in Nat, NEW c,
         Len(r) \in Nat, BeginsWith(r, text, k, c),
         Len(q) = Len(r) - 1, \A i \in 1 .. Len(r) - 1 : q[i] = r[i + 1]
  PROVE  /\ r[1] = Line(Wire(text)[k + 1], c)
         /\ k <= Len(text) => BeginsWith(q, text, k + 1, c)
<1>1. Len(text) \in Nat /\ k <= Len(text) + 1 /\ Len(r) >= Len(text) + 2 - k
  BY DEF BeginsWith
<1>2. r[1] = Line(Wire(text)[k + 1], c)
  <2>1. 1 \in 1 .. Len(text) + 2 - k
    BY <1>1
  <2> QED BY <2>1 DEF BeginsWith
<1>3. ASSUME k <= Len(text), NEW i \in 1 .. Len(text) + 2 - (k + 1)
      PROVE  q[i] = Line(Wire(text)[k + 1 + i], c)
  <2>1. i + 1 \in 1 .. Len(text) + 2 - k /\ i \in 1 .. Len(r) - 1 /\ k + (i + 1) = k + 1 + i
    BY <1>1
  <2>2. q[i] = r[i + 1]
    BY <2>1
  <2>3. r[i + 1] = Line(Wire(text)[k + (i + 1)], c)
    BY <2>1 DEF BeginsWith
  <2> QED BY <2>1, <2>2, <2>3
<1>4. k <= Len(text) => k + 1 <= Len(text) + 1 /\ Len(q) >= Len(text) + 2 - (k + 1)
  BY <1>1
<1> QED
  BY <1>2, <1>3, <1>4 DEF BeginsWith

\* What has been gathered is the beginning of the answer.
LEMMA Gathering ==
  ASSUME Shape, pc = "reading", NEW a \in said, Stems(a), Coming(a.text)
  PROVE  /\ acc \in Seq(AnyLine) /\ Len(acc) \in Nat /\ Len(a.text) \in Nat
         /\ acc # <<>> => inside
         /\ Len(acc) <= Len(a.text)
         /\ \A i \in 1 .. Len(acc) : acc[i] = Line(a.text[i], calls)
<1>1. acc \in Seq(AnyLine) /\ a.text \in Seq(AnswerWord)
  BY DEF Shape, Stems
<1>2. Len(acc) \in Nat /\ Len(a.text) \in Nat
  BY <1>1
<1>3. acc # <<>> => inside
  BY DEF Coming
<1>4. inside => Len(acc) <= Len(a.text)
  BY <1>2 DEF Coming, BeginsWith
<1>5. Len(acc) <= Len(a.text)
  BY <1>2, <1>3, <1>4
<1>6. \A i \in 1 .. Len(acc) : acc[i] = Line(a.text[i], calls)
  BY DEF Coming
<1> QED
  BY <1>1, <1>2, <1>3, <1>5, <1>6

\* The first lines of an answer, and their words.
LEMMA FirstLines ==
  ASSUME NEW text \in Seq(AnswerWord), NEW ls \in Seq(AnyLine), NEW n \in 0 .. Len(ls),
         n <= Len(text), \A i \in 1 .. n : ls[i].word = text[i]
  PROVE  \E u \in Seq(AnyLine) :
           /\ u = SubSeq(ls, 1, n)
           /\ DOMAIN u = 1 .. n /\ \A i \in 1 .. n : u[i] = ls[i]
           /\ IsPrefix(Words(u), text)
           /\ n = Len(text) => Words(u) = text
<1>1. Len(ls) \in Nat /\ n \in Nat /\ Len(text) \in Nat
  OBVIOUS
<1>2. PICK u : u = SubSeq(ls, 1, n)
  OBVIOUS
<1>3. u \in Seq(AnyLine) /\ Len(u) = n /\ \A i \in 1 .. n : u[i] = ls[i]
  BY <1>1, <1>2
<1>4. DOMAIN u = 1 .. n
  BY <1>1, <1>3
<1>5. PICK w : w = Words(u)
  OBVIOUS
<1>6. w = [i \in 1 .. n |-> u[i].word]
  BY <1>4, <1>5 DEF Words
<1>7. \A i \in 1 .. n : w[i] = text[i] /\ text[i] \in AnswerWord
  <2> TAKE i \in 1 .. n
  <2>1. i \in 1 .. Len(text) /\ u[i] = ls[i]
    BY <1>1, <1>3
  <2> QED BY <1>6, <2>1
<1>8. w \in [1 .. n -> AnswerWord]
  BY <1>6, <1>7
<1>9. w \in Seq(AnswerWord) /\ Len(w) = n
  BY <1>1, <1>8
<1>10. IsPrefix(w, text) /\ (Len(w) = Len(text) => w = text)
  BY <1>7, <1>9, PrefixByLine
<1> QED
  BY <1>2, <1>3, <1>4, <1>5, <1>9, <1>10

\* Returning what begins an answer of this call, less its blank lines.
LEMMA ReturnKeeps ==
  ASSUME calls \in Nat, NEW a, a \in said', Stems(a), NEW ls \in Seq(AnyLine),
         Len(ls) <= Len(a.text), \A i \in 1 .. Len(ls) : ls[i] = Line(a.text[i], calls),
         Return(ls), UNCHANGED <<kind, calls, prompt>>
  PROVE  /\ AnswerFromThisCall'
         /\ Len(ls) = Len(a.text) => Trims(Words(acc)', a.text)
<1>1. PICK n \in 0 .. Len(ls) : acc' = SubSeq(ls, 1, n) /\ Trims(Words(acc'), Words(ls))
  BY DEF Return
<1>2. PICK t : t = a.text
  OBVIOUS
<1>3. t \in Seq(AnswerWord) /\ Len(ls) <= Len(t)
  BY <1>2 DEF Stems
<1>4. Len(ls) \in Nat /\ Len(t) \in Nat /\ n \in Nat /\ n <= Len(t) /\ Len(ls) \in 0 .. Len(ls)
  BY <1>1, <1>3
<1>5. /\ DOMAIN acc' = 1 .. n /\ (\A i \in 1 .. n : acc'[i].call = calls)
      /\ IsPrefix(Words(acc'), t)
  <2>1. n \in 0 .. Len(ls) /\ \A i \in 1 .. n : ls[i].word = t[i] /\ ls[i].call = calls
    <3>1. ASSUME NEW i \in 1 .. n PROVE ls[i] = Line(t[i], calls)
      BY <1>2, <1>4
    <3> QED BY <1>1, <3>1, OfLine
  <2>2. PICK u \in Seq(AnyLine) :
          /\ u = SubSeq(ls, 1, n)
          /\ DOMAIN u = 1 .. n /\ \A i \in 1 .. n : u[i] = ls[i]
          /\ IsPrefix(Words(u), t)
    BY <1>3, <1>4, <2>1, FirstLines
  <2>3. \A i \in 1 .. n : u[i].call = calls
    BY <2>1, <2>2
  <2>4. acc' = u
    BY <1>1, <2>2
  <2> QED BY <2>2, <2>3, <2>4
<1>6. Words(acc)' = Words(acc')
  BY DEF Words
<1>7. AnswerFromThisCall'
  <2>1. a.call = calls' /\ IsPrefix(a.heard, prompt')
    BY DEF Stems
  <2> QED BY <1>2, <1>5, <1>6, <2>1 DEF AnswerFromThisCall
<1>8. Len(ls) = Len(t) => Words(SubSeq(ls, 1, Len(ls))) = t
  <2>1. \A i \in 1 .. Len(ls) : ls[i].word = t[i]
    <3>1. ASSUME NEW i \in 1 .. Len(ls) PROVE ls[i] = Line(t[i], calls)
      BY <1>2
    <3> QED BY <3>1, OfLine
  <2> QED BY <1>3, <1>4, <2>1, FirstLines
<1>9. SubSeq(ls, 1, Len(ls)) = ls
  BY SubSeqFull
<1> QED
  BY <1>1, <1>2, <1>6, <1>7, <1>8, <1>9

LEMMA TakeLineKeeps == ASSUME FlowInv, TakeLine PROVE FlowInv'
<1>1. pc = "reading" /\ ahead # <<>> /\ UNCHANGED <<kind, calls, prompt, wrote>> /\ UNCHANGED process
  BY DEF TakeLine
<1>2. /\ kind = "mlx" /\ ahead \in Seq(AnyLine) /\ stdout \in Seq(AnyLine) /\ say \in Seq(AnyLine)
      /\ acc \in Seq(AnyLine) /\ calls \in Nat /\ inside \in BOOLEAN
  BY <1>1 DEF FlowInv, Shape
<1>3. PICK a \in said : Stems(a) /\ Coming(a.text)
  BY <1>1, <1>2 DEF FlowInv, UnderWay, Silent
<1>4. PICK t, l, k, r, q :
        /\ t = a.text /\ l = Head(ahead) /\ k = (IF inside THEN Len(acc) + 1 ELSE 0)
        /\ r = OnItsWay /\ q = Parts(Tail(ahead), stdout, say)
  OBVIOUS
<1>5. /\ t \in Seq(AnswerWord) /\ BeginsWith(r, t, k, calls)
      /\ \A i \in 1 .. Len(acc) : acc[i] = Line(t[i], calls)
      /\ ~inside => acc = <<>>
  BY <1>1, <1>3, <1>4 DEF Stems, Coming
<1>6. Len(t) \in Nat /\ Len(acc) \in Nat /\ k \in Nat
  BY <1>2, <1>4, <1>5
<1>7. /\ l \in AnyLine /\ Tail(ahead) \in Seq(AnyLine)
      /\ r[1] = l /\ Len(r) \in Nat /\ Len(q) = Len(r) - 1
      /\ \A i \in 1 .. Len(r) - 1 : q[i] = r[i + 1]
  <2>1. r = Parts(ahead, stdout, say)
    BY <1>4 DEF OnItsWay
  <2>2. r \in Seq(AnyLine)
    BY <1>2, <2>1 DEF Parts
  <2>3. /\ Head(ahead) \in AnyLine /\ Tail(ahead) \in Seq(AnyLine)
        /\ Parts(ahead, stdout, say)[1] = Head(ahead)
        /\ Len(Parts(Tail(ahead), stdout, say)) = Len(Parts(ahead, stdout, say)) - 1
        /\ \A i \in 1 .. Len(Parts(ahead, stdout, say)) - 1 :
             Parts(Tail(ahead), stdout, say)[i] = Parts(ahead, stdout, say)[i + 1]
    BY <1>1, <1>2, PartsTake
  <2> QED BY <1>4, <2>1, <2>2, <2>3
<1>8. l = Line(Wire(t)[k + 1], calls) /\ (k <= Len(t) => BeginsWith(q, t, k + 1, calls))
  BY <1>5, <1>6, <1>7, NextLine
<1>9. /\ Wire(t)[1] = "RESPONSE" /\ Wire(t)[Len(t) + 2] = "END"
      /\ \A i \in 1 .. Len(t) : Wire(t)[i + 1] = t[i]
  BY <1>2, <1>5, WireFacts
<1>10. CASE inside /\ l.word = "END"
  <2>1. Return(acc) /\ ahead' = <<>> /\ UNCHANGED inside
    BY <1>4, <1>10 DEF TakeLine
  <2>2. Len(acc) <= Len(t) /\ \A i \in 1 .. Len(acc) : acc[i] = Line(a.text[i], calls)
    BY <1>1, <1>3, <1>4, Gathering DEF FlowInv
  <2>3. EndFree(a.text) => Len(acc) = Len(t)
    <3> SUFFICES ASSUME EndFree(a.text), Len(acc) # Len(t) PROVE FALSE
      OBVIOUS
    <3>1. Len(acc) + 1 \in 1 .. Len(t) /\ k = Len(acc) + 1
      BY <1>4, <1>6, <1>10, <2>2
    <3>2. t[Len(acc) + 1] = "END"
      BY <1>8, <1>9, <1>10, <3>1 DEF Line
    <3> QED BY <1>4, <3>1, <3>2 DEF EndFree, Contains
  <2>4. a \in said' /\ pc' = "ok"
    BY <1>1, <2>1 DEF process, Return
  <2>5. AnswerFromThisCall' /\ (Len(acc) = Len(t) => Trims(Words(acc)', a.text))
    BY <1>1, <1>2, <1>3, <1>4, <2>1, <2>2, <2>4, ReturnKeeps
  <2>6. CleanAnswerWhole'
    BY <1>1, <1>2, <1>3, <2>3, <2>4, <2>5 DEF CleanAnswerWhole, Stems, Whole
  <2>7. Shape'
    BY <1>1, <1>2, <2>1, <2>4 DEF FlowInv, Shape, TornAt, process
  <2> QED BY <2>4, <2>5, <2>6, <2>7 DEF FlowInv, UnderWay
<1>11. CASE ~(inside /\ l.word = "END")
  <2>1. /\ pc' = pc /\ ahead' = Tail(ahead)
        /\ inside' = (inside \/ l.word = "RESPONSE") /\ acc' = IF inside THEN Append(acc, l) ELSE acc
    BY <1>4, <1>11 DEF TakeLine, Gathered
  <2>2. OnItsWay' = q
    BY <1>1, <1>4, <2>1 DEF OnItsWay, process
  <2>3. inside'
    <3>1. CASE inside
      BY <2>1, <3>1
    <3>2. CASE ~inside
      <4>1. k = 0
        BY <1>4, <3>2
      <4>2. l.word = "RESPONSE"
        BY <1>8, <1>9, <4>1 DEF Line
      <4> QED BY <2>1, <4>2
    <3> QED BY <3>1, <3>2
  <2>4. k <= Len(t)
    <3>1. k # Len(t) + 1
      BY <1>4, <1>8, <1>9, <1>11, <1>6 DEF Line
    <3>2. k <= Len(t) + 1
      BY <1>5 DEF BeginsWith
    <3> QED BY <1>6, <3>1, <3>2
  <2>5. /\ acc' \in Seq(AnyLine) /\ Len(acc') = k
        /\ \A i \in 1 .. Len(acc') : acc'[i] = Line(t[i], calls)
    <3>1. CASE inside
      <4>1. /\ acc' \in Seq(AnyLine) /\ Len(acc') = Len(acc) + 1
            /\ \A i \in 1 .. Len(acc) : acc'[i] = acc[i]
            /\ acc'[Len(acc) + 1] = l
        BY <1>2, <1>7, <2>1, <3>1, AppendProperties
      <4>2. k = Len(acc) + 1 /\ l = Line(t[Len(acc) + 1], calls)
        BY <1>4, <1>6, <1>8, <1>9, <2>4, <3>1
      <4>3. ASSUME NEW i \in 1 .. Len(acc') PROVE acc'[i] = Line(t[i], calls)
        <5>1. i \in 1 .. Len(acc) \/ i = Len(acc) + 1
          BY <1>6, <4>1
        <5> QED BY <1>5, <4>1, <4>2, <5>1
      <4> QED BY <4>1, <4>2, <4>3
    <3>2. CASE ~inside
      BY <1>2, <1>4, <1>5, <2>1, <3>2
    <3> QED BY <3>1, <3>2
  <2>6. BeginsWith(OnItsWay', t, Len(acc') + 1, calls)
    BY <1>8, <2>2, <2>4, <2>5
  <2>7. Stems(a)' /\ Coming(a.text)'
    BY <1>1, <1>3, <1>4, <2>1, <2>3, <2>5, <2>6 DEF Stems, Coming
  <2>8. Shape'
    BY <1>1, <1>2, <1>7, <2>1, <2>3, <2>5 DEF FlowInv, Shape, TornAt, process
  <2>9. a \in said'
    BY <1>1 DEF process
  <2> QED BY <1>1, <2>1, <2>7, <2>8, <2>9, NotOk DEF FlowInv, UnderWay
<1> QED
  BY <1>10, <1>11

\* Behind RESPONSE, what is written is the text and END.
LEMMA BehindTheFirst ==
  ASSUME NEW text \in Seq(AnswerWord), NEW n \in 0 .. Len(text)
  PROVE  Wire(text)[n + 2] = (text \o <<"END">>)[n + 1]
<1>1. text \in Seq(Word) /\ "END" \in Word /\ Len(text) \in Nat
  BY DEF Word
<1>2. PICK e : e = <<"END">>
  OBVIOUS
<1>3. e \in Seq(Word) /\ Len(e) = 1 /\ e[1] = "END"
  BY <1>1, <1>2
<1>4. /\ \A i \in 1 .. Len(text) : (text \o e)[i] = text[i]
      /\ \A i \in 1 .. Len(e) : (text \o e)[Len(text) + i] = e[i]
  <2>1. text \in Seq(Word) /\ e \in Seq(Word)
    BY <1>1, <1>3
  <2> QED BY <2>1
<1>5. /\ \A i \in 1 .. Len(text) : Wire(text)[i + 1] = text[i]
      /\ Wire(text)[Len(text) + 2] = "END"
  <2>1. 0 \in Nat
    OBVIOUS
  <2> QED BY <2>1, WireFacts
<1>6. CASE n = Len(text)
  BY <1>1, <1>2, <1>3, <1>4, <1>5, <1>6
<1>7. CASE n + 1 \in 1 .. Len(text)
  <2>1. PICK m \in 1 .. Len(text) : m = n + 1
    BY <1>7
  <2>2. Wire(text)[m + 1] = (text \o <<"END">>)[m]
    BY <1>2, <1>4, <1>5
  <2>3. m + 1 = n + 2
    BY <2>1
  <2> QED BY <2>1, <2>2, <2>3
<1> QED
  BY <1>1, <1>6, <1>7

\* Returning a torn line behind what has been gathered.
LEMMA TornKeeps ==
  ASSUME calls \in Nat, acc \in Seq(AnyLine), NEW a, a \in said', Stems(a), broke',
         Len(acc) <= Len(a.text), \A i \in 1 .. Len(acc) : acc[i] = Line(a.text[i], calls),
         NEW b, b \in Beginnings((a.text \o <<"END">>)[Len(acc) + 1]), b # "blank",
         Return(Append(acc, Line(b, calls))), UNCHANGED <<kind, calls, prompt>>
  PROVE  AnswerFromThisCall'
<1>1. PICK l, ls : l = Line(b, calls) /\ ls = Append(acc, l)
  OBVIOUS
<1>2. PICK n \in 0 .. Len(ls) : acc' = SubSeq(ls, 1, n) /\ Trims(Words(acc'), Words(ls))
  BY <1>1 DEF Return
<1>3. a.text \in Seq(AnswerWord) /\ Len(a.text) \in Nat /\ Len(acc) \in Nat
  BY DEF Stems
<1>4. PICK T : T = AnyLine \cup {l}
  OBVIOUS
<1>5. acc \in Seq(T) /\ l \in T
  BY <1>4
<1>6. /\ ls \in Seq(T) /\ Len(ls) = Len(acc) + 1
      /\ \A i \in 1 .. Len(acc) : ls[i] = acc[i]
      /\ ls[Len(acc) + 1] = l
  BY <1>1, <1>5, AppendProperties
<1>7. DOMAIN ls = 1 .. Len(acc) + 1
  BY <1>3, <1>6
<1>8. /\ Words(ls) = [i \in 1 .. Len(acc) + 1 |-> ls[i].word]
      /\ Words(ls)[Len(acc) + 1] = b
  BY <1>1, <1>3, <1>6, <1>7 DEF Words, Line
<1>9. Len(Words(ls)) = Len(acc) + 1
  BY <1>3, <1>8
<1>10. n = Len(acc) + 1
  <2> SUFFICES ASSUME n <= Len(acc) PROVE FALSE
    BY <1>3, <1>6
  <2>1. Len(Words(acc')) = n
    BY <1>2, <1>3, <1>6, Cut
  <2>2. Len(acc) + 1 \in n + 1 .. Len(acc) + 1
    BY <1>3
  <2> QED BY <1>2, <1>8, <1>9, <2>1, <2>2, Zenon DEF Trims
<1>11. acc' = ls
  BY <1>2, <1>6, <1>10, SubSeqFull
<1>12. \A i \in DOMAIN acc' : acc'[i].call = calls
  <2> TAKE i \in DOMAIN acc'
  <2>1. i \in 1 .. Len(acc) \/ i = Len(acc) + 1
    BY <1>3, <1>7, <1>11
  <2>2. acc'[i] = Line(a.text[i], calls) \/ acc'[i] = Line(b, calls)
    BY <1>1, <1>6, <1>11, <2>1
  <2> QED BY <2>2 DEF Line
<1>13. TornOff(Words(ls), a.text)
  <2>1. PICK k, w, t : k = Len(acc) /\ w = Words(ls) /\ t = a.text
    OBVIOUS
  <2>2. /\ k \in 0 .. Len(t) /\ Len(w) = k + 1
        /\ w[k + 1] \in Beginnings((t \o <<"END">>)[k + 1])
    <3>1. k \in 0 .. Len(t) /\ Len(w) = k + 1
      BY <1>3, <1>9, <2>1
    <3>2. w[k + 1] = b
      BY <1>8, <2>1
    <3>3. b \in Beginnings((t \o <<"END">>)[k + 1])
      BY <2>1
    <3> QED BY <3>1, <3>2, <3>3
  <2>3. IsPrefix(SubSeq(w, 1, k), t)
    <3>1. \A i \in 1 .. k : w[i] = t[i] /\ t[i] \in AnswerWord
      <4> TAKE i \in 1 .. k
      <4>1. i \in 1 .. Len(acc) /\ i \in 1 .. Len(t) /\ i \in 1 .. Len(acc) + 1
        BY <1>3, <2>1
      <4>2. ls[i] = Line(t[i], calls) /\ w[i] = ls[i].word
        BY <1>6, <1>8, <2>1, <4>1
      <4>3. t[i] \in AnswerWord
        BY <1>3, <2>1, <4>1
      <4> QED BY <4>2, <4>3 DEF Line
    <3>2. PICK U : U = AnswerWord \cup {b}
      OBVIOUS
    <3>3. w \in [1 .. k + 1 -> U]
      <4>1. w = [i \in 1 .. k + 1 |-> ls[i].word] /\ w[k + 1] = b /\ k \in Nat
        BY <1>3, <1>8, <2>1
      <4>2. ASSUME NEW i \in 1 .. k + 1 PROVE w[i] \in U
        <5>1. i \in 1 .. k \/ i = k + 1
          BY <4>1
        <5> QED BY <3>1, <3>2, <4>1, <5>1
      <4> QED BY <4>1, <4>2
    <3>4. w \in Seq(U) /\ t \in Seq(U) /\ k \in Nat
      BY <1>3, <2>1, <3>2, <3>3, SMTT(30)
    <3>5. PICK v : v = SubSeq(w, 1, k)
      OBVIOUS
    <3>6. v \in Seq(U) /\ Len(v) = k /\ \A i \in 1 .. k : v[i] = w[i]
      BY <2>2, <3>4, <3>5
    <3>7. Len(v) <= Len(t) /\ \A i \in 1 .. Len(v) : v[i] = t[i]
      BY <1>3, <2>1, <2>2, <3>1, <3>6
    <3>8. v \in Seq(U) /\ t \in Seq(U)
      BY <3>4, <3>6
    <3>9. IsPrefix(v, t)
      BY <3>7, <3>8, PrefixByLine
    <3> QED BY <3>5, <3>9
  <2> QED BY <2>1, <2>2, <2>3 DEF TornOff
<1>14. Words(acc)' = Words(ls)
  BY <1>11 DEF Words
<1> QED
  BY <1>12, <1>13, <1>14 DEF AnswerFromThisCall, Stems

LEMMA OutputEndsKeeps == ASSUME FlowInv, OutputEnds \/ TakeTorn \/ ReadFails PROVE FlowInv'
<1>1. /\ pc = "reading" /\ runner = "dead" /\ ahead = <<>> /\ stdout = <<>> /\ pc' \in {"ok", "err"}
      /\ UNCHANGED <<kind, calls, prompt, wrote, ahead, inside>> /\ UNCHANGED process
  BY DEF OutputEnds, TakeTorn, ReadFails, AtEndOfFile, Return
<1>2. Shape'
  BY <1>1 DEF FlowInv, Shape, TornAt, process
<1>3. UnderWay'
  BY <1>1 DEF UnderWay
<1>4. CleanAnswerWhole'
  BY <1>1 DEF CleanAnswerWhole, FlowInv, Shape, process
<1>5. kind = "mlx" /\ acc \in Seq(AnyLine) /\ calls \in Nat /\ say \in Seq(AnyLine)
  BY <1>1 DEF FlowInv, Shape
<1>6. CASE Silent
  <2>1. acc = <<>> /\ torn = <<>>
    BY <1>1, <1>6 DEF Silent, FlowInv, Shape, TornAt
  <2>2. acc' = <<>>
    <3>1. PICK n \in 0 .. Len(acc) : acc' = SubSeq(acc, 1, n)
      BY <2>1 DEF OutputEnds, TakeTorn, ReadFails, Return
    <3>2. n = 0
      BY <2>1, <3>1
    <3> QED BY <2>1, <3>1, <3>2
  <2> QED BY <1>2, <1>3, <1>4, <2>2 DEF AnswerFromThisCall, FlowInv
<1>7. ASSUME NEW a \in said, Stems(a), Coming(a.text) PROVE AnswerFromThisCall'
  <2>1. /\ Len(acc) \in Nat /\ Len(a.text) \in Nat /\ Len(acc) <= Len(a.text)
        /\ \A i \in 1 .. Len(acc) : acc[i] = Line(a.text[i], calls)
    BY <1>1, <1>7, Gathering DEF FlowInv
  <2>2. a \in said' /\ a.text \in Seq(AnswerWord)
    BY <1>1, <1>7 DEF process, Stems
  <2>3. CASE Return(acc)
    BY <1>1, <1>5, <1>7, <2>1, <2>2, <2>3, ReturnKeeps
  <2>4. CASE pc' = "err"
    BY <2>4 DEF AnswerFromThisCall
  <2>5. CASE TakeTorn /\ inside /\ Head(torn).word # "END"
    <3>1. torn # <<>> /\ Return(Append(acc, Head(torn)))
      BY <2>5 DEF TakeTorn, Gathered
    <3>2. PICK b \in Beginnings(Head(say).word) : torn = <<Line(b, Head(say).call)>>
      BY <3>1 DEF FlowInv, Shape, TornAt
    <3>3. say # <<>>
      BY <3>1 DEF FlowInv, Shape, TornAt
    <3>4. Head(say) = Line(Wire(a.text)[Len(acc) + 2], calls)
      <4>1. Parts(ahead, stdout, say) = say
        BY <1>1, <1>5, PartsAdd DEF FlowInv, Shape
      <4>2. BeginsWith(say, a.text, Len(acc) + 1, calls)
        BY <1>1, <1>7, <2>5, <4>1 DEF Coming, OnItsWay
      <4>3. 1 \in 1 .. Len(a.text) + 2 - (Len(acc) + 1) /\ Len(acc) + 1 + 1 = Len(acc) + 2
        BY <2>1
      <4>4. say[1] = Line(Wire(a.text)[Len(acc) + 1 + 1], calls)
        BY <4>2, <4>3 DEF BeginsWith
      <4>5. Head(say) = say[1]
        BY <1>5, <3>3
      <4> QED BY <4>3, <4>4, <4>5
    <3>5. b \in Beginnings(Wire(a.text)[Len(acc) + 2]) /\ Head(torn) = Line(b, calls)
      BY <3>2, <3>4 DEF Line
    <3>6. Wire(a.text)[Len(acc) + 2] = (a.text \o <<"END">>)[Len(acc) + 1]
      <4>1. Len(acc) \in 0 .. Len(a.text)
        BY <2>1
      <4> QED BY <2>2, <4>1, BehindTheFirst
    <3>7. b # "blank"
      BY <3>5 DEF Beginnings
    <3>8. Return(Append(acc, Line(b, calls)))
      BY <3>1, <3>5
    <3>9. b \in Beginnings((a.text \o <<"END">>)[Len(acc) + 1])
      BY <3>5, <3>6
    <3>10. broke'
      BY <1>1 DEF FlowInv, Shape, process
    <3> QED BY <1>1, <1>5, <1>7, <2>1, <2>2, <3>7, <3>8, <3>9, <3>10, TornKeeps
  <2>6. CASE TakeTorn /\ ~(inside /\ Head(torn).word # "END")
    BY <2>3, <2>6 DEF TakeTorn, Gathered
  <2>7. CASE OutputEnds \/ ReadFails
    BY <2>3, <2>4, <2>7 DEF OutputEnds, ReadFails
  <2> QED BY <2>5, <2>6, <2>7
<1> QED
  BY <1>1, <1>2, <1>3, <1>4, <1>5, <1>6, <1>7 DEF FlowInv, UnderWay

\* An answer that comes at once is whole.
LEMMA ReplyKeeps ==
  ASSUME FlowInv, pc = "loaded", kind # "mlx", UNCHANGED <<kind, calls, wrote, ahead, inside>>,
         UNCHANGED <<stdin, stdout, torn, runner, heard, say, broke>>,
         NEW S, NEW p \in Prompts, NEW a \in Seq(S), Reply(p, a)
  PROVE  FlowInv'
<1>1. /\ pc' = "ok" /\ prompt' = p /\ acc' = Lines(a, calls)
      /\ said' = said \cup {[call |-> calls, heard |-> p, text |-> a]}
  BY DEF Reply
<1>2. Shape'
  BY <1>1 DEF FlowInv, Shape, TornAt
<1>3. PICK r : r = [call |-> calls, heard |-> p, text |-> a]
  OBVIOUS
<1>4. r \in said' /\ r.call = calls' /\ r.heard = prompt' /\ r.text = a
  BY <1>1, <1>3
<1>5. /\ Words(Lines(a, calls)) = a /\ IsPrefix(a, a)
      /\ \A i \in DOMAIN Lines(a, calls) : Lines(a, calls)[i].call = calls
  BY WordsOfLines
<1>6. Words(acc)' = a
  BY <1>1, <1>5 DEF Words
<1>7. CleanAnswerWhole'
  BY <1>4, <1>6 DEF CleanAnswerWhole, Whole
<1>8. AnswerFromThisCall'
  <2>1. \A i \in DOMAIN acc' : acc'[i].call = calls'
    BY <1>1, <1>5
  <2>2. IsPrefix(r.heard, prompt') /\ IsPrefix(Words(acc)', r.text)
    <3>1. p \in Seq(PromptWord)
      BY DEF Prompts, Texts
    <3>2. IsPrefix(p, p)
      BY <3>1, WordsOfLines
    <3> QED BY <1>1, <1>4, <1>5, <1>6, <3>2
  <2> QED BY <1>4, <2>1, <2>2 DEF AnswerFromThisCall
<1>9. UnderWay'
  BY <1>1 DEF UnderWay
<1> QED
  BY <1>2, <1>7, <1>8, <1>9 DEF FlowInv

LEMMA OthersKeep ==
  ASSUME FlowInv, OllamaAnswers \/ OllamaErrs \/ StubAnswers PROVE FlowInv'
<1>1. CASE OllamaAnswers
  <2>1. PICK p \in Prompts, a \in Answers : Reply(p, a)
    BY <1>1 DEF OllamaAnswers
  <2>2. a \in Seq(AnswerWord)
    BY DEF Answers, Texts
  <2> QED BY <1>1, <2>1, <2>2, ReplyKeeps DEF OllamaAnswers
<1>2. CASE OllamaErrs
  <2>1. /\ pc = "loaded" /\ kind = "ollama" /\ pc' \in {"ok", "err"} /\ acc' = <<>> /\ broke' = TRUE
        /\ UNCHANGED <<kind, calls, wrote, ahead, inside, stdin, stdout, torn, runner, heard, say, said>>
    BY <1>2 DEF OllamaErrs
  <2>2. Shape'
    BY <2>1 DEF FlowInv, Shape, TornAt
  <2> QED BY <2>1, <2>2 DEF FlowInv, UnderWay, AnswerFromThisCall, CleanAnswerWhole
<1>3. CASE StubAnswers
  <2>1. PICK p \in Prompts : Reply(p, Canned)
    BY <1>3 DEF StubAnswers
  <2>2. PICK w : Canned = <<w>>
    BY DEF Canned
  <2>3. Canned \in Seq({w})
    BY <2>2
  <2> QED BY <1>3, <2>1, <2>3, ReplyKeeps DEF StubAnswers
<1> QED
  BY <1>1, <1>2, <1>3

-----------------------------------------------------------------------------
(* The runner's steps.                                                     *)

\* The line the runner reads next, as long as it has not answered.
LEMMA NextOfMessage ==
  ASSUME Shape, Silent, stdin # <<>>, runner \in {"command", "prompt"}, kind = "mlx",
         pc \in {"loaded", "writing", "reading"}
  PROVE  /\ pc \in {"writing", "reading"} /\ prompt \in Seq(PromptWord)
         /\ Len(prompt) \in Nat /\ ReadSoFar \in Nat /\ ReadSoFar <= Len(prompt) + 1
         /\ Len(stdin) = wrote - ReadSoFar /\ wrote <= Len(prompt) + 2
         /\ Head(stdin) = Message[ReadSoFar + 1]
         /\ Head(stdin).call = calls
         /\ ReadSoFar = 0 => Head(stdin).word = "PROMPT"
         /\ \A i \in 1 .. Len(prompt) : ReadSoFar = i => Head(stdin).word = prompt[i]
         /\ Len(Tail(stdin)) = wrote - (ReadSoFar + 1)
         /\ \A i \in 1 .. Len(Tail(stdin)) : Tail(stdin)[i] = Message[ReadSoFar + 1 + i]
<1>1. pc \in {"writing", "reading"} /\ prompt \in Seq(PromptWord) /\ calls \in Nat /\ wrote \in Nat
  BY DEF Silent, Shape
<1>2. stdin \in Seq(AnyLine) /\ heard \in Seq(Word)
  BY DEF Shape
<1>3. /\ ReadSoFar \in Nat /\ ReadSoFar <= Len(prompt) + 1 /\ wrote <= Len(prompt) + 2
      /\ Len(stdin) = wrote - ReadSoFar
      /\ \A i \in 1 .. Len(stdin) : stdin[i] = Message[ReadSoFar + i]
  BY <1>1, <1>2 DEF Silent, ReadSoFar
<1>4. /\ Len(prompt) \in Nat /\ Message[1] = Line("PROMPT", calls)
      /\ \A i \in 1 .. Len(prompt) : Message[i + 1] = Line(prompt[i], calls)
      /\ Message[Len(prompt) + 2] = Line("END", calls)
  BY <1>1, MessageFacts
<1>5. PICK t : t = Tail(stdin)
  OBVIOUS
<1>6. /\ Len(stdin) \in Nat /\ Len(stdin) >= 1 /\ Head(stdin) = stdin[1]
      /\ Len(t) = Len(stdin) - 1 /\ \A i \in 1 .. Len(t) : t[i] = stdin[i + 1]
  BY <1>2, <1>5, HeadTailProperties
<1>7. Head(stdin) = Message[ReadSoFar + 1]
  BY <1>3, <1>6
<1>8. ReadSoFar = 0 \/ ReadSoFar \in 1 .. Len(prompt) \/ ReadSoFar = Len(prompt) + 1
  BY <1>3, <1>4
<1>9. /\ Head(stdin).call = calls
      /\ ReadSoFar = 0 => Head(stdin).word = "PROMPT"
      /\ \A i \in 1 .. Len(prompt) : ReadSoFar = i => Head(stdin).word = prompt[i]
  <2>1. PICK h : h = Head(stdin)
    OBVIOUS
  <2>2. h = Message[ReadSoFar + 1]
    BY <1>7, <2>1
  <2>3. CASE ReadSoFar = 0
    <3>1. h = Line("PROMPT", calls)
      BY <1>4, <2>2, <2>3
    <3> QED BY <1>4, <2>1, <2>3, <3>1 DEF Line
  <2>4. CASE ReadSoFar \in 1 .. Len(prompt)
    <3>1. h = Line(prompt[ReadSoFar], calls) /\ ReadSoFar # 0
      BY <1>4, <2>2, <2>4
    <3> QED BY <2>1, <3>1 DEF Line
  <2>5. CASE ReadSoFar = Len(prompt) + 1
    <3>1. h = Line("END", calls) /\ ReadSoFar # 0 /\ ReadSoFar \notin 1 .. Len(prompt)
      <4>1. Message[ReadSoFar + 1] = Message[Len(prompt) + 2]
        BY <1>4, <2>5
      <4> QED BY <1>4, <2>2, <2>5, <4>1
    <3> QED BY <2>1, <3>1 DEF Line
  <2> QED BY <1>8, <2>3, <2>4, <2>5
<1>10. ASSUME NEW i \in 1 .. Len(t) PROVE t[i] = Message[ReadSoFar + 1 + i]
  <2>1. i + 1 \in 1 .. Len(stdin) /\ ReadSoFar + (i + 1) = ReadSoFar + 1 + i
    BY <1>3, <1>6
  <2> QED BY <1>3, <1>6, <2>1
<1> QED
  BY <1>1, <1>3, <1>4, <1>5, <1>6, <1>7, <1>9, <1>10

\* What has come is unchanged by what the runner reads.
LEMMA ComingStays ==
  ASSUME NEW a, Stems(a), Coming(a.text), UNCHANGED backend, UNCHANGED <<stdout, say>>
  PROVE  Stems(a)' /\ Coming(a.text)'
BY DEF Stems, Coming, OnItsWay, backend

LEMMA RunnerSkipsKeeps == ASSUME FlowInv, RunnerSkips PROVE FlowInv'
<1>1. /\ runner = "command" /\ stdin # <<>> /\ Head(stdin).word # "PROMPT"
      /\ stdin' = Tail(stdin)
      /\ UNCHANGED backend /\ UNCHANGED <<stdout, torn, runner, heard, say, said, broke>>
  BY DEF RunnerSkips
<1>2. stdin' \in Seq(AnyLine)
  BY <1>1 DEF FlowInv, Shape
<1>3. Shape'
  BY <1>1, <1>2 DEF FlowInv, Shape, TornAt, backend
<1>4. AnswerFromThisCall' /\ CleanAnswerWhole'
  BY <1>1, OkStays DEF FlowInv, backend
<1>5. ASSUME pc \in {"loaded", "writing", "reading"}, kind = "mlx" PROVE ~Silent
  <2>1. Silent => ReadSoFar = 0
    BY <1>1 DEF ReadSoFar
  <2> QED BY <1>1, <1>5, <2>1, NextOfMessage DEF FlowInv
<1>6. UnderWay'
  BY <1>1, <1>5, ComingStays DEF FlowInv, UnderWay, backend
<1> QED
  BY <1>3, <1>4, <1>6 DEF FlowInv

LEMMA RunnerListensKeeps == ASSUME FlowInv, RunnerListens PROVE FlowInv'
<1>1. /\ runner = "command" /\ stdin # <<>> /\ stdin' = Tail(stdin)
      /\ runner' = "prompt" /\ heard' = <<>>
      /\ UNCHANGED backend /\ UNCHANGED <<stdout, torn, say, said, broke>>
  BY DEF RunnerListens, Reads
<1>2. stdin' \in Seq(AnyLine) /\ heard' \in Seq(Word)
  BY <1>1 DEF FlowInv, Shape
<1>3. Shape'
  BY <1>1, <1>2 DEF FlowInv, Shape, TornAt, backend
<1>4. AnswerFromThisCall' /\ CleanAnswerWhole'
  BY <1>1, OkStays DEF FlowInv, backend
<1>5. ASSUME pc \in {"loaded", "writing", "reading"}, kind = "mlx", Silent PROVE Silent'
  <2>1. /\ pc \in {"writing", "reading"} /\ Len(prompt) \in Nat /\ wrote <= Len(prompt) + 2
        /\ Len(Tail(stdin)) = wrote - (ReadSoFar + 1)
        /\ \A i \in 1 .. Len(Tail(stdin)) : Tail(stdin)[i] = Message[ReadSoFar + 1 + i]
    BY <1>1, <1>5, NextOfMessage DEF FlowInv
  <2>2. ReadSoFar = 0 /\ ReadSoFar' = 1 /\ Message' = Message
    BY <1>1, MessageStays DEF ReadSoFar, backend
  <2>3. Len(stdin') = wrote - 1 /\ \A i \in 1 .. Len(stdin') : stdin'[i] = Message[1 + i]
    BY <1>1, <2>1, <2>2
  <2>4. \A i \in 1 .. Len(heard') : heard'[i] = prompt[i]
    BY <1>1
  <2> QED BY <1>1, <1>5, <2>1, <2>2, <2>3, <2>4 DEF Silent, backend
<1>6. UnderWay'
  BY <1>1, <1>5, ComingStays DEF FlowInv, UnderWay, backend
<1> QED
  BY <1>3, <1>4, <1>6 DEF FlowInv

LEMMA RunnerHearsKeeps == ASSUME FlowInv, RunnerHears PROVE FlowInv'
<1>1. /\ runner = "prompt" /\ stdin # <<>> /\ Head(stdin).word # "END" /\ stdin' = Tail(stdin)
      /\ heard' = Append(heard, Head(stdin).word)
      /\ UNCHANGED backend /\ UNCHANGED <<stdout, torn, runner, say, said, broke>>
  BY DEF RunnerHears
<1>2. stdin \in Seq(AnyLine) /\ heard \in Seq(Word)
  BY DEF FlowInv, Shape
<1>3. stdin' \in Seq(AnyLine) /\ Head(stdin).word \in Word
  <2>1. PICK h : h = Head(stdin)
    OBVIOUS
  <2>2. h \in AnyLine /\ stdin' \in Seq(AnyLine)
    BY <1>1, <1>2, <2>1
  <2>3. h.word \in Word
    BY <2>2 DEF AnyLine
  <2> QED BY <2>1, <2>2, <2>3
<1>4. /\ heard' \in Seq(Word) /\ Len(heard') = Len(heard) + 1 /\ Len(heard) \in Nat
      /\ \A i \in 1 .. Len(heard) : heard'[i] = heard[i]
      /\ heard'[Len(heard) + 1] = Head(stdin).word
  BY <1>1, <1>2, <1>3, AppendProperties
<1>5. Shape'
  BY <1>1, <1>3, <1>4 DEF FlowInv, Shape, TornAt, backend
<1>6. AnswerFromThisCall' /\ CleanAnswerWhole'
  BY <1>1, OkStays DEF FlowInv, backend
<1>7. ASSUME pc \in {"loaded", "writing", "reading"}, kind = "mlx", Silent PROVE Silent'
  <2>1. /\ pc \in {"writing", "reading"} /\ prompt \in Seq(PromptWord) /\ Len(prompt) \in Nat
        /\ ReadSoFar <= Len(prompt) + 1 /\ wrote <= Len(prompt) + 2
        /\ Head(stdin) = Message[ReadSoFar + 1]
        /\ \A i \in 1 .. Len(prompt) : ReadSoFar = i => Head(stdin).word = prompt[i]
        /\ Len(Tail(stdin)) = wrote - (ReadSoFar + 1)
        /\ \A i \in 1 .. Len(Tail(stdin)) : Tail(stdin)[i] = Message[ReadSoFar + 1 + i]
    BY <1>1, <1>7, NextOfMessage DEF FlowInv
  <2>2. /\ ReadSoFar = Len(heard) + 1 /\ ReadSoFar' = ReadSoFar + 1 /\ Message' = Message
        /\ ReadSoFar \in Nat
    BY <1>1, <1>4, MessageStays DEF ReadSoFar, backend
  <2>3. ReadSoFar <= Len(prompt)
    <3>1. Message[Len(prompt) + 2] = Line("END", calls)
      BY <2>1, MessageFacts DEF FlowInv, Shape
    <3>2. ReadSoFar # Len(prompt) + 1
      BY <1>1, <2>1, <3>1 DEF Line
    <3> QED BY <2>1, <2>2, <3>2
  <2>4. \A i \in 1 .. Len(heard) : heard[i] = prompt[i]
    BY <1>1, <1>7, <2>1 DEF Silent
  <2>5. ASSUME NEW i \in 1 .. Len(heard') PROVE heard'[i] = prompt[i]
    <3>1. CASE i \in 1 .. Len(heard)
      BY <1>4, <2>4, <3>1
    <3>2. CASE i = Len(heard) + 1
      <4>1. i \in 1 .. Len(prompt) /\ ReadSoFar = i
        BY <1>4, <2>1, <2>2, <2>3, <3>2
      <4> QED BY <1>4, <2>1, <3>2, <4>1
    <3> QED BY <1>4, <3>1, <3>2
  <2>6. Len(stdin') = wrote - ReadSoFar' /\ \A i \in 1 .. Len(stdin') : stdin'[i] = Message[ReadSoFar' + i]
    BY <1>1, <2>1, <2>2
  <2>7. ReadSoFar' <= Len(prompt) + 1
    BY <2>1, <2>2, <2>3
  <2> QED BY <1>1, <1>7, <2>1, <2>2, <2>5, <2>6, <2>7 DEF Silent, backend
<1>8. UnderWay'
  BY <1>1, <1>7, ComingStays DEF FlowInv, UnderWay, backend
<1> QED
  BY <1>5, <1>6, <1>8 DEF FlowInv

\* More behind the answer does not change that it comes.
LEMMA LongerStillBegins ==
  ASSUME NEW text \in Seq(AnswerWord), NEW r, NEW q, NEW k \in Nat, NEW c,
         Len(r) \in Nat, Len(q) \in Nat, BeginsWith(r, text, k, c),
         Len(q) >= Len(r), \A i \in 1 .. Len(r) : q[i] = r[i]
  PROVE  BeginsWith(q, text, k, c)
<1>1. Len(text) \in Nat /\ k <= Len(text) + 1 /\ Len(r) >= Len(text) + 2 - k
  BY DEF BeginsWith
<1>2. ASSUME NEW i \in 1 .. Len(text) + 2 - k PROVE q[i] = Line(Wire(text)[k + i], c)
  <2>1. i \in 1 .. Len(r)
    BY <1>1
  <2> QED BY <2>1 DEF BeginsWith
<1> QED
  BY <1>1, <1>2 DEF BeginsWith

LEMMA RunnerAnswersKeeps == ASSUME FlowInv, RunnerAnswers PROVE FlowInv'
<1>1. /\ runner = "prompt" /\ stdin # <<>> /\ Head(stdin).word = "END" /\ stdin' = Tail(stdin)
      /\ runner' = "answering"
      /\ UNCHANGED backend /\ UNCHANGED <<stdout, torn, heard, broke>>
  BY DEF RunnerAnswers, Reads
<1>2. PICK a \in Answers :
        /\ said' = said \cup {[call |-> Head(stdin).call, heard |-> heard, text |-> a]}
        /\ say' = Lines(Wire(a), Head(stdin).call)
  BY DEF RunnerAnswers, Wire
<1>3. a \in Seq(AnswerWord)
  BY DEF Answers, Texts
<1>4. /\ stdin \in Seq(AnyLine) /\ heard \in Seq(Word) /\ calls \in Nat /\ kind = "mlx"
      /\ ahead \in Seq(AnyLine) /\ stdout \in Seq(AnyLine) /\ say = <<>>
  BY <1>1 DEF FlowInv, Shape
<1>5. PICK c : c = Head(stdin).call
  OBVIOUS
<1>6. c \in Nat /\ stdin' \in Seq(AnyLine)
  <2>1. PICK h : h = Head(stdin)
    OBVIOUS
  <2>2. h \in AnyLine /\ stdin' \in Seq(AnyLine)
    BY <1>1, <1>4, <2>1
  <2>3. h.call \in Nat
    BY <2>2 DEF AnyLine
  <2> QED BY <1>5, <2>1, <2>2, <2>3
<1>7. /\ say' \in Seq(AnyLine) /\ Len(say') = Len(a) + 2 /\ Len(a) \in Nat
      /\ \A i \in 1 .. Len(a) + 2 : say'[i] = Line(Wire(a)[i], c)
  <2>1. say' = Lines(Wire(a), c)
    BY <1>2, <1>5
  <2> QED BY <1>3, <1>6, <2>1, WireFacts
<1>8. say' # <<>>
  BY <1>7
<1>9. Shape'
  BY <1>1, <1>4, <1>6, <1>7, <1>8 DEF FlowInv, Shape, TornAt, backend
<1>10. said \subseteq said'
  BY <1>2
<1>11. AnswerFromThisCall' /\ CleanAnswerWhole'
  BY <1>1, <1>10, OkStays DEF FlowInv, backend
<1>12. ASSUME pc \in {"loaded", "writing", "reading"}, Silent PROVE UnderWay'
  <2>1. /\ pc \in {"writing", "reading"} /\ prompt \in Seq(PromptWord) /\ Len(prompt) \in Nat
        /\ ReadSoFar <= Len(prompt) + 1 /\ Head(stdin).call = calls
        /\ \A i \in 1 .. Len(prompt) : ReadSoFar = i => Head(stdin).word = prompt[i]
    BY <1>1, <1>4, <1>12, NextOfMessage DEF FlowInv
  <2>2. ReadSoFar = Len(heard) + 1 /\ Len(heard) \in Nat
    BY <1>1, <1>4 DEF ReadSoFar
  <2>3. \A i \in 1 .. Len(heard) : heard[i] = prompt[i]
    BY <1>1, <1>12, <2>1 DEF Silent
  <2>4. prompt \in Seq(Word) /\ Len(heard) <= Len(prompt)
    BY <2>1, <2>2 DEF Word
  <2>5. IsPrefix(heard, prompt) /\ (Len(heard) = Len(prompt) => heard = prompt)
    BY <1>4, <2>3, <2>4, PrefixByLine
  <2>6. EndFree(prompt) => Len(heard) = Len(prompt)
    <3> SUFFICES ASSUME EndFree(prompt), Len(heard) # Len(prompt) PROVE FALSE
      OBVIOUS
    <3>1. Len(heard) + 1 \in 1 .. Len(prompt)
      BY <2>1, <2>2, <2>4
    <3>2. prompt[Len(heard) + 1] = "END"
      BY <1>1, <2>1, <2>2, <3>1
    <3> QED BY <3>1, <3>2 DEF EndFree, Contains
  <2>7. PICK s : s = [call |-> c, heard |-> heard, text |-> a]
    OBVIOUS
  <2>8. s \in said' /\ s.call = calls /\ s.heard = heard /\ s.text = a /\ c = calls
    BY <1>2, <1>5, <2>1, <2>7
  <2>9. Stems(s)'
    BY <1>1, <1>3, <2>5, <2>6, <2>8 DEF Stems, backend
  <2>10. OnItsWay' = say'
    <3>1. ahead = <<>> /\ stdout = <<>>
      BY <1>12 DEF Silent
    <3>2. Parts(ahead, stdout, say') = say'
      BY <1>4, <1>7, <3>1, PartsAdd
    <3> QED BY <1>1, <3>2 DEF OnItsWay, backend
  <2>11. BeginsWith(say', a, 0, calls)
    BY <1>7, <2>8 DEF BeginsWith
  <2>12. pc = "reading" => ~inside /\ acc = <<>>
    BY <1>12 DEF Silent
  <2>13. Coming(s.text)'
    BY <1>1, <2>1, <2>8, <2>10, <2>11, <2>12 DEF Coming, backend
  <2> QED BY <2>8, <2>9, <2>13 DEF UnderWay
<1>13. ASSUME NEW b \in said, Stems(b), Coming(b.text) PROVE UnderWay'
  <2>1. PICK r, q : r = OnItsWay /\ q = Parts(ahead, stdout, say')
    OBVIOUS
  <2>2. /\ r \in Seq(AnyLine) /\ q \in Seq(AnyLine)
        /\ Len(q) >= Len(r) /\ \A i \in 1 .. Len(r) : q[i] = r[i]
    <3>1. r = Parts(ahead, stdout, <<>>)
      BY <1>4, <2>1 DEF OnItsWay
    <3>2. r \in Seq(AnyLine) /\ q \in Seq(AnyLine)
      BY <1>4, <1>7, <2>1, <3>1 DEF Parts
    <3>3. /\ Len(Parts(ahead, stdout, say')) >= Len(Parts(ahead, stdout, <<>>))
          /\ \A i \in 1 .. Len(Parts(ahead, stdout, <<>>)) :
               Parts(ahead, stdout, say')[i] = Parts(ahead, stdout, <<>>)[i]
      BY <1>4, <1>7, PartsAdd
    <3> QED BY <2>1, <3>1, <3>2, <3>3
  <2>3. OnItsWay' = q
    BY <1>1, <2>1 DEF OnItsWay, backend
  <2>4. PICK k : k = (IF pc = "reading" /\ inside THEN Len(acc) + 1 ELSE 0)
    OBVIOUS
  <2>5. k \in Nat
    BY <2>4 DEF FlowInv, Shape
  <2>6. BeginsWith(r, b.text, k, calls) /\ b.text \in Seq(AnswerWord)
    BY <1>13, <2>1, <2>4 DEF Stems, Coming
  <2>7. Len(r) \in Nat /\ Len(q) \in Nat
    BY <2>2
  <2>8. BeginsWith(q, b.text, k, calls)
    BY <2>2, <2>5, <2>6, <2>7, LongerStillBegins
  <2>9. Stems(b)' /\ Coming(b.text)'
    BY <1>1, <1>13, <2>3, <2>4, <2>8 DEF Stems, Coming, backend
  <2> QED BY <1>10, <2>9 DEF UnderWay
<1>14. ASSUME pc \notin {"loaded", "writing", "reading"} PROVE UnderWay'
  BY <1>1, <1>14 DEF UnderWay, backend
<1>15. UnderWay'
  BY <1>4, <1>12, <1>13, <1>14 DEF FlowInv, UnderWay
<1> QED
  BY <1>9, <1>11, <1>15 DEF FlowInv

LEMMA RunnerWritesKeeps == ASSUME FlowInv, RunnerWrites PROVE FlowInv'
<1>1. /\ runner = "answering" /\ stdout' = Append(stdout, Head(say)) /\ say' = Tail(say)
      /\ runner' = (IF Len(say) = 1 THEN "command" ELSE "answering")
      /\ UNCHANGED backend /\ UNCHANGED <<stdin, torn, heard, said, broke>>
  BY DEF RunnerWrites
<1>2. /\ ahead \in Seq(AnyLine) /\ stdout \in Seq(AnyLine) /\ say \in Seq(AnyLine) /\ say # <<>>
      /\ kind = "mlx"
  BY <1>1 DEF FlowInv, Shape
<1>3. /\ stdout' \in Seq(AnyLine) /\ say' \in Seq(AnyLine)
      /\ Parts(ahead, stdout', say') = Parts(ahead, stdout, say)
      /\ say' = <<>> <=> Len(say) = 1
  <2>1. PICK f \in Seq(AnyLine), t \in Seq(AnyLine) :
          /\ f = Append(stdout, Head(say)) /\ t = Tail(say)
          /\ Parts(ahead, f, t) = Parts(ahead, stdout, say)
          /\ t = <<>> <=> Len(say) = 1
    BY <1>2, PartsWritten
  <2>2. stdout' = f /\ say' = t
    BY <1>1, <2>1, Zenon
  <2> QED BY <2>1, <2>2
<1>4. OnItsWay' = OnItsWay
  BY <1>1, <1>3 DEF OnItsWay, backend
<1>6. Shape'
  BY <1>1, <1>2, <1>3 DEF FlowInv, Shape, TornAt, backend
<1>7. AnswerFromThisCall' /\ CleanAnswerWhole'
  BY <1>1, OkStays DEF FlowInv, backend
<1>8. ASSUME NEW a, Stems(a), Coming(a.text) PROVE Stems(a)' /\ Coming(a.text)'
  BY <1>1, <1>4, <1>8 DEF Stems, Coming, backend
<1>9. UnderWay'
  BY <1>1, <1>8 DEF FlowInv, UnderWay, Silent, backend
<1> QED
  BY <1>6, <1>7, <1>9 DEF FlowInv

LEMMA RunnerDiesKeeps == ASSUME FlowInv, RunnerDies PROVE FlowInv'
<1>1. /\ runner \in {"command", "prompt", "answering"} /\ runner' = "dead" /\ broke' = TRUE
      /\ UNCHANGED backend /\ UNCHANGED <<stdin, stdout, heard, say, said>>
  BY DEF RunnerDies
<1>2. Shape'
  <2>1. torn' = <<>> \/ TornAt'
    BY <1>1 DEF RunnerDies, FlowInv, Shape, TornAt
  <2> QED BY <1>1, <2>1 DEF FlowInv, Shape, TornAt, backend
<1>3. AnswerFromThisCall' /\ CleanAnswerWhole'
  BY <1>1, OkStays DEF FlowInv, backend
<1>4. Silent => Silent'
  BY <1>1 DEF Silent, backend
<1>5. UnderWay'
  BY <1>1, <1>4, ComingStays DEF FlowInv, UnderWay, backend
<1> QED
  BY <1>2, <1>3, <1>5 DEF FlowInv

-----------------------------------------------------------------------------
(* The theorems.                                                           *)

LEMMA FlowInvStutters == ASSUME FlowInv, UNCHANGED vars PROVE FlowInv'
<1>1. UNCHANGED backend /\ UNCHANGED process
  BY DEF vars
<1>2. Shape'
  BY <1>1 DEF FlowInv, Shape, TornAt, backend, process
<1>3. AnswerFromThisCall' /\ CleanAnswerWhole'
  BY <1>1, OkStays DEF FlowInv, backend, process
<1>4. Silent => Silent'
  BY <1>1, MessageStays DEF Silent, ReadSoFar, backend, process
<1>5. UnderWay'
  BY <1>1, <1>4, ComingStays DEF FlowInv, UnderWay, backend, process
<1> QED
  BY <1>2, <1>3, <1>5 DEF FlowInv

LEMMA FlowInvStep == FlowInv /\ [Next]_vars => FlowInv'
<1> SUFFICES ASSUME FlowInv, [Next]_vars PROVE FlowInv'
  OBVIOUS
<1>1. CASE LoadMlx \/ LoadFails \/ LoadOther
  BY <1>1, LoadKeeps
<1>2. CASE BackendNext
  BY <1>2, GenerateKeeps, WriteLineKeeps, WriteFailsKeeps, StartReadingKeeps,
     FillKeeps, TakeLineKeeps, OutputEndsKeeps, OthersKeep DEF BackendNext
<1>3. CASE RunnerNext
  BY <1>3, RunnerSkipsKeeps, RunnerListensKeeps, RunnerHearsKeeps, RunnerAnswersKeeps,
     RunnerWritesKeeps DEF RunnerNext
<1>4. CASE RunnerDies
  BY <1>4, RunnerDiesKeeps
<1>5. CASE UNCHANGED vars
  BY <1>5, FlowInvStutters
<1> QED
  BY <1>1, <1>2, <1>3, <1>4, <1>5 DEF Next

\* How the first answer of a call makes its way, and what became of it.
THEOREM AnswersFlow == Spec => []FlowInv
<1>1. Init => FlowInv
  BY FlowInvInit
<1>2. FlowInv /\ [Next]_vars => FlowInv'
  BY FlowInvStep
<1> QED
  BY <1>1, <1>2, PTL DEF Spec

\* What MlxBackend, OllamaBackend and the stub return as Ok stems from the call
\* that returns it, whatever the texts hold and wherever the runner dies: it
\* begins one answer, and only its last line, if the runner died, may be torn.
THEOREM AnswersStemFromTheirCall == Spec => []AnswerFromThisCall
<1>1. FlowInv => AnswerFromThisCall
  BY DEF FlowInv
<1> QED
  BY <1>1, AnswersFlow, PTL

\* It is the whole answer to the whole prompt, if nothing broke and no END lies
\* inside the texts.
THEOREM CleanAnswersAreWhole == Spec => []CleanAnswerWhole
<1>1. FlowInv => CleanAnswerWhole
  BY DEF FlowInv
<1> QED
  BY <1>1, AnswersFlow, PTL
=============================================================================
