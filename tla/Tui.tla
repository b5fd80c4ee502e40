-------------------------------- MODULE Tui --------------------------------
(***************************************************************************)
(* `seck tui <report.json>`: the terminal is put into raw mode and onto    *)
(* its alternate screen, the event loop moves a cursor over the findings   *)
(* and expands them, and the terminal is put back.                         *)
(*                                                                         *)
(* Each call on the terminal may fail.                                     *)
(***************************************************************************)
EXTENDS Reports, FiniteSets

VARIABLES
  tui,       \* "off", "raw", "screen", "terminal", "loop", "restore", "leave", "over"
  terminal,  \* [raw, alternate]: what the terminal has been told
  viewed,    \* the report
  selected,  \* the cursor, from 0
  expanded,  \* the ids of the expanded findings
  ended      \* how the program ended

tuiVars == <<tui, terminal, viewed, selected, expanded, ended>>

Endings == {"none", "ok", "unreadable", "startup", "loop", "restore"}

Findings == viewed.findings

-----------------------------------------------------------------------------

TuiInit ==
  /\ tui = "off"
  /\ terminal = [raw |-> FALSE, alternate |-> FALSE]
  /\ viewed = [inputs |-> <<>>, findings |-> <<>>]
  /\ selected = 0
  /\ expanded = {}
  /\ ended = "none"

OpenTui(readable, report) ==
  /\ tui = "off"
  /\ IF readable
     THEN tui' = "raw" /\ viewed' = report /\ UNCHANGED ended
     ELSE tui' = "over" /\ ended' = "unreadable" /\ UNCHANGED viewed
  /\ UNCHANGED <<terminal, selected, expanded>>

\* One call on the terminal at stage `at`: it succeeds and the program goes on, or
\* `?` returns its error.  At the restoring stages an error of the loop is hidden.
Proceeds(at, stage, told) ==
  /\ tui = at
  /\ tui' = stage
  /\ terminal' = told
  /\ UNCHANGED <<viewed, selected, expanded>>

GivesUp(at, how) ==
  /\ tui = at
  /\ tui' = "over"
  /\ ended' = how
  /\ UNCHANGED <<terminal, viewed, selected, expanded>>

EnableRaw ==
  \/ Proceeds("raw", "screen", [terminal EXCEPT !.raw = TRUE]) /\ UNCHANGED ended
  \/ GivesUp("raw", "startup")

EnterAlternate ==
  \/ Proceeds("screen", "terminal", [terminal EXCEPT !.alternate = TRUE]) /\ UNCHANGED ended
  \/ GivesUp("screen", "startup")

MakeTerminal ==
  \/ Proceeds("terminal", "loop", terminal) /\ UNCHANGED ended
  \/ GivesUp("terminal", "startup")

DisableRaw ==
  \/ Proceeds("restore", "leave", [terminal EXCEPT !.raw = FALSE]) /\ UNCHANGED ended
  \/ GivesUp("restore", "restore")

LeaveAlternate ==
  \/ /\ Proceeds("leave", "over", [terminal EXCEPT !.alternate = FALSE])
     /\ ended' = IF ended = "none" THEN "ok" ELSE ended
  \/ GivesUp("leave", "restore")

-----------------------------------------------------------------------------
(* The event loop.                                                         *)

AfterFailureOver == "over"
AfterFailure     == "restore"

\* Drawing or reading an event fails: the error is kept for after the restoring.
LoopFails ==
  /\ tui = "loop"
  /\ tui' = AfterFailure
  /\ ended' = "loop"
  /\ UNCHANGED <<terminal, viewed, selected, expanded>>

Quit ==
  /\ tui = "loop"
  /\ tui' = "restore"
  /\ UNCHANGED <<terminal, viewed, selected, expanded, ended>>

\* saturating_sub(1)
Before(n) == IF n = 0 THEN 0 ELSE n - 1

Move ==
  /\ tui = "loop"
  /\ selected' \in {IF selected + 1 < Len(Findings) THEN selected + 1 ELSE selected,
                    Before(selected),
                    0,
                    Before(Len(Findings))}
  /\ UNCHANGED <<tui, terminal, viewed, expanded, ended>>

\* An id stands for every finding that has it.
Toggle ==
  /\ tui = "loop"
  /\ selected < Len(Findings)
  /\ LET id == Findings[selected + 1].id
     IN  expanded' = IF id \in expanded THEN expanded \ {id} ELSE expanded \cup {id}
  /\ UNCHANGED <<tui, terminal, viewed, selected, ended>>

TuiNext ==
  \/ EnableRaw \/ EnterAlternate \/ MakeTerminal
  \/ Move \/ Toggle \/ Quit \/ LoopFails
  \/ DisableRaw \/ LeaveAlternate

\* One line of the list: format! puts the caret (or a blank), the id in brackets and
\* the summary together, and safe_line sanitizes the whole.
BeforeSummary(finding) == <<"print", "print", "[">> \o finding.id \o <<"]", "print">>
ListLine(finding)      == Sanitize(BeforeSummary(finding) \o finding.summary)

\* What draw shows of the findings: the cursor, and below an expanded finding its
\* quote.
Screen ==
  [i \in DOMAIN Findings |->
     [line   |-> ListLine(Findings[i]),
      cursor |-> selected = i - 1,
      quote  |-> Findings[i].id \in expanded]]

-----------------------------------------------------------------------------
(* Properties.                                                             *)

\* Besides the types: whatever keys are pressed, the cursor stands on a finding if
\* there is one, so Enter always has one to expand.
TuiTypeOK ==
  /\ tui \in {"off", "raw", "screen", "terminal", "loop", "restore", "leave", "over"}
  /\ terminal \in [raw : BOOLEAN, alternate : BOOLEAN]
  /\ ended \in Endings
  /\ selected \in Nat
  /\ tui = "loop" /\ Findings # <<>> =>
       Cardinality({i \in DOMAIN Screen : Screen[i].cursor}) = 1
  /\ expanded \subseteq {Findings[i].id : i \in DOMAIN Findings}

\* However the event loop ends, by a key or by an error of drawing or reading, the
\* terminal is as it was, unless a call that restores it fails.
TerminalRestored ==
  tui = "over" /\ ended \in {"ok", "loop"} => ~terminal.raw /\ ~terminal.alternate
=============================================================================
