---------------------------- MODULE AnalyzeSpec ----------------------------
(***************************************************************************)
(* What one sandboxed analysis promises its caller: it answers at most     *)
(* once, and an Ok answer carries the complete report of the file set that *)
(* was submitted, entry by entry and in order.  Anything else is an error: *)
(* there is no partial Ok.                                                 *)
(***************************************************************************)
EXTENDS Naturals, Sequences

CONSTANT FileSets   \* the file sets that can be submitted

VARIABLES
  fileset,   \* the submitted file set: a sequence of entries
  answer     \* [status, report]

vars == <<fileset, answer>>

\* The report of n entries: one unit per input, then the closing brace.
CompleteReport(n) ==
  [i \in 1 .. n + 1 |-> IF i <= n THEN <<"input", i>> ELSE <<"close", 0>>]

Pending == [status |-> "pending", report |-> <<>>]
Failed  == [status |-> "err",     report |-> <<>>]
Ok      == [status |-> "ok",      report |-> CompleteReport(Len(fileset))]

Init ==
  /\ fileset \in FileSets
  /\ answer = Pending

Answer ==
  /\ answer = Pending
  /\ answer' \in {Ok, Failed}
  /\ UNCHANGED fileset

Next == Answer

Spec == Init /\ [][Next]_vars
=============================================================================
