------------------------------ MODULE Reports ------------------------------
(***************************************************************************)
(* seck-report: the sanitizer the front ends run report text through, the  *)
(* schema a saved report must have to be read again, and what the HTML     *)
(* page makes of a report.                                                 *)
(*                                                                         *)
(* A text is a sequence of classes of characters: what the sanitizer tells *)
(* apart, and nothing else.                                                *)
(***************************************************************************)
EXTENDS Naturals, Sequences

CONSTANT TextLimit   \* bound: the length of the texts SanitizeIsPlain compares

ASSUME TextLimitAssumption == TextLimit \in Nat

\* "letter" ends a control sequence (an ASCII letter or '~'); "print" is any other
\* printable character; "newline" is also tab; "hidden" is a bidirectional override or
\* a zero-width character; "control" any other control character.
Shown == {"letter", "print", "newline", "[", "]", "\\"}
Char  == Shown \cup {"ESC", "BEL", "control", "hidden"}

Texts == UNION {[1 .. n -> Char] : n \in 0 .. TextLimit}

-----------------------------------------------------------------------------
(* sanitize: one pass, with what is being skipped as its state.            *)

Pushed(out, c) == IF c \in Shown THEN Append(out, c) ELSE out

InText(s, c) == IF c = "ESC" THEN [s EXCEPT !.mode = "escape"]
                ELSE [s EXCEPT !.out = Pushed(@, c)]

\* The character after ESC is only peeked at: it may start a sequence of its own.
AfterEscape(s, c) ==
  CASE c = "[" -> [s EXCEPT !.mode = "csi"]
    [] c = "]" -> [s EXCEPT !.mode = "osc"]
    [] OTHER   -> InText([s EXCEPT !.mode = "text"], c)

InCsi(s, c) == IF c = "letter" THEN [s EXCEPT !.mode = "text"] ELSE s

TerminatorCutShort(s, c) ==
  IF c \in {"BEL", "ESC"} THEN [s EXCEPT !.mode = "text"] ELSE s

\* An ESC ends the command together with the character after it.
InOsc(s, c) ==
  CASE c = "BEL" -> [s EXCEPT !.mode = "text"]
    [] c = "ESC" -> [s EXCEPT !.mode = "terminator"]
    [] OTHER     -> s

Step(s, c) ==
  CASE s.mode = "text"       -> InText(s, c)
    [] s.mode = "escape"     -> AfterEscape(s, c)
    [] s.mode = "csi"        -> InCsi(s, c)
    [] s.mode = "osc"        -> InOsc(s, c)
    [] s.mode = "terminator" -> [s EXCEPT !.mode = "text"]

\* What each prefix of the text makes of it.
Scanned(text) ==
  LET after[n \in 0 .. Len(text)] ==
        IF n = 0 THEN [mode |-> "text", out |-> <<>>] ELSE Step(after[n - 1], text[n])
  IN  after[Len(text)]

Sanitize(text) == Scanned(text).out

-----------------------------------------------------------------------------
(* The schema.  A finding is told apart by its id and its summary, both    *)
(* texts, an input by which digest it carries.                             *)

\* No text: "missing" is not a character.
NoId == <<"missing">>

\* serde: every field of Finding and Input is required.
Parses(report) ==
  /\ \A i \in DOMAIN report.findings : report.findings[i].id # NoId
  /\ \A i \in DOMAIN report.inputs : report.inputs[i] = "sha3_256"

-----------------------------------------------------------------------------
(* The page: each field is sanitized by itself.                            *)

PageFinding(finding) ==
  [id |-> Sanitize(finding.id), text |-> Sanitize(finding.summary)]

RenderPage(report) ==
  [inputs   |-> report.inputs,
   findings |-> [i \in DOMAIN report.findings |-> PageFinding(report.findings[i])]]

-----------------------------------------------------------------------------
(* What sanitize is to do, as its comments say it: a CSI ends at the first *)
(* letter, an OSC at BEL or at ST, which is ESC and a backslash, and any   *)
(* other ESC is dropped alone.                                             *)

\* The first of some positions of a text, or its end.
First(text, at) ==
  IF at = {} THEN Len(text) ELSE CHOOSE j \in at : \A k \in at : j <= k

\* Where the escape sequence that begins at position i ends.
SequenceEnd(text, i) ==
  LET after == IF i < Len(text) THEN text[i + 1] ELSE "none"
      rest  == i + 2 .. Len(text)
      ST(j) == j - 1 \in rest /\ text[j - 1] = "ESC" /\ text[j] = "\\"
  IN  CASE after = "[" -> First(text, {j \in rest : text[j] = "letter"})
        [] after = "]" -> First(text, {j \in rest : text[j] = "BEL" \/ ST(j)})
        [] OTHER       -> i

Plain(text) ==
  LET from[i \in 1 .. Len(text) + 1] ==
        IF i > Len(text) THEN <<>>
        ELSE IF text[i] = "ESC" THEN from[SequenceEnd(text, i) + 1]
        ELSE Pushed(<<>>, text[i]) \o from[i + 1]
  IN  from[1]

\* The first ESC inside an OSC, if no BEL comes before it, is that of an ST or the last
\* character.  sanitize takes ESC and any character for the end of an OSC; of
\* such texts the comments say something else than it does.
WellTerminated(text) ==
  \A i \in 1 .. Len(text) - 1 : text[i] = "ESC" /\ text[i + 1] = "]" =>
    \A j \in i + 2 .. Len(text) - 1 :
      text[j] = "ESC" /\ (\A k \in i + 2 .. j - 1 : text[k] \notin {"BEL", "ESC"}) =>
        text[j + 1] = "\\"

Escapeless(text) == \A i \in DOMAIN text : text[i] # "ESC"

\* Evaluated over every text of the bound.
SanitizeIsPlain == \A t \in Texts : WellTerminated(t) => Sanitize(t) = Plain(t)
=============================================================================
