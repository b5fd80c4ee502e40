------------------------------ MODULE Pipeline ------------------------------
(***************************************************************************)
(* seck_pipeline::run: the analyst, the auditor (twice when paranoid) and  *)
(* the judge, one after the other on one backend, which every pass loads   *)
(* with a seed of its own before it asks.                                  *)
(*                                                                         *)
(* The backend is a function of the seed it was last loaded with and of    *)
(* the prompt, sampled as it is asked: what it said once it says again.    *)
(* Any call may fail.  The pipeline is run Runs times with one nonce, one  *)
(* prompt and one configuration, on the same backend.                      *)
(*                                                                         *)
(* A text is a record of what run looks at in it: whether the analyst's is *)
(* JSON with a findings array; how the auditor's first line starts and the *)
(* JSON objects with a flags array that follow; which words the judge's    *)
(* first line contains.                                                    *)
(***************************************************************************)
EXTENDS Naturals, Sequences

CONSTANTS
  Version,     \* bound: texts alike in all that run reads, and yet different
  Flag,        \* the flags an auditor may list
  MaxObjects,  \* bound: how many JSON objects its answer holds
  Runs         \* bound: how many times the pipeline is run

ASSUME RunsAssumption       == Runs \in Nat \ {0}
ASSUME MaxObjectsAssumption == MaxObjects \in Nat

Role == {"analyst", "auditor", "auditor-paranoid", "judge"}

AnalystText == [findings : BOOLEAN, version : Version]

\* An object is on one line or spread over several.  Bound: one entry in its array,
\* which is a string or any other value that names the flag.
FlagObject == [oneLine : BOOLEAN, entry : Flag, string : BOOLEAN]

\* The first line starts with NO, and may go on with YES; or it starts otherwise.
AuditorText ==
  [first   : {"NO", "NO, YES", "other"},
   objects : UNION {[1 .. n -> FlagObject] : n \in 0 .. MaxObjects}]

\* "disag" contains "dis", and nothing else follows from anything.
JudgeText   == {t \in [agree : BOOLEAN, dis : BOOLEAN, disag : BOOLEAN] : t.disag => t.dis}
Text(role)  == CASE role = "analyst" -> AnalystText
                 [] role = "judge" -> JudgeText
                 [] OTHER -> AuditorText

VARIABLES
  paranoid, lenient,  \* PipelineConfig
  loaded,    \* the seed the backend was last loaded with, or "none"
  memo,      \* what the backend has said: the set of <<seed, prompt, text>>
  pc,        \* the pass that is next, "ok" or "err"
  drafts,    \* what the analyst has said in this run, once or twice
  audits,    \* what its auditors have said
  shown,     \* the prompts of its auditors and its judge, in order
  results    \* what the runs that ended well returned

config == <<paranoid, lenient>>
vars   == <<config, loaded, memo, pc, drafts, audits, shown, results>>

Init ==
  /\ paranoid \in BOOLEAN /\ lenient \in BOOLEAN
  /\ loaded = "none"
  /\ memo = {}
  /\ pc = "analyst"
  /\ drafts = <<>> /\ audits = <<>> /\ shown = <<>>
  /\ results = <<>>

-----------------------------------------------------------------------------
(* What a pass does.                                                       *)

\* derive_pass_seed, the nonce being fixed: the retry has the analyst's seed.
NewForTheLater(role) == IF role = "analyst" THEN loaded ELSE role
SeedFor(role)        == role

\* load, then generate.
Answer(role, prompt, text, next) ==
  /\ loaded' = SeedFor(role)
  /\ text \in Text(role)
  /\ \A m \in memo : m[1] = loaded' /\ m[2] = prompt => text = m[3]
  /\ memo' = memo \cup {<<loaded', prompt, text>>}
  /\ pc' = next
  /\ UNCHANGED config

\* What the caller gets as findings: the analyst's last answer.
FirstDraft           == drafts[1]
FindingsUnretried(d) == d[1]
Findings(d)          == d[Len(d)]

\* first.starts_with("NO")
Passed(text) == text.first \in {"NO", "NO, YES"}

\* Each line is parsed by itself; the first that parses and has a flags array is
\* taken, and of it the strings.
FlagsOf(text) ==
  LET o     == text.objects
      taken == {i \in DOMAIN o : o[i].oneLine /\ \A j \in 1 .. i - 1 : ~o[j].oneLine}
  IN  {o[i].entry : i \in {j \in taken : o[j].string}}

\* Two auditors pass the report if they agree, and the first passes it.
CombinedIfAgreed(a) == \A i, j \in DOMAIN a : Passed(a[i]) = Passed(a[j])
Combined(a) ==
  /\ \A i, j \in DOMAIN a : Passed(a[i]) = Passed(a[j])
  /\ Passed(a[1])

FirstFlags(a) == FlagsOf(a[1])
Flags(a)      == UNION {FlagsOf(a[i]) : i \in DOMAIN a}

Verdict(text) ==
  IF text.agree /\ ~text.dis THEN "agreement"
  ELSE IF text.disag THEN "disagreement" ELSE "escalate"

\* What run returns after the drafts d and the audits a, or without an audit when
\* lenient.  Findings that are not JSON with a findings array are surfaced as they are.
Result(d, passed, flags, verdict) ==
  [findings |-> Findings(d), surfaced |-> ~Findings(d).findings,
   passed |-> passed, flags |-> flags, verdict |-> verdict]

Audited(d, a, text) == Result(d, Combined(a), Flags(a), Verdict(text))
Unaudited(d)        == Result(d, TRUE, {}, "skipped")

-----------------------------------------------------------------------------
(* The passes.                                                             *)

Analyst ==
  /\ pc = "analyst"
  /\ \E t \in AnalystText :
       /\ Answer("analyst", <<"prompt">>, t,
                 IF ~t.findings THEN "retry" ELSE IF lenient THEN "skip" ELSE "auditor")
       /\ drafts' = Append(drafts, t)
  /\ UNCHANGED <<audits, shown, results>>

\* There is one retry: a second failure is surfaced raw.
AfterRetry == IF lenient THEN "skip" ELSE "auditor"

Retry ==
  /\ pc = "retry"
  /\ \E t \in AnalystText :
       /\ Answer("analyst", <<"tighter">>, t, AfterRetry)
       /\ drafts' = Append(drafts, t)
  /\ UNCHANGED <<audits, shown, results>>

\* Every later pass is given the first answer of the analyst.
Audit(role, next) ==
  /\ pc = role
  /\ \E t \in AuditorText :
       /\ Answer(role, <<"audit", FirstDraft>>, t, next)
       /\ audits' = Append(audits, t)
  /\ shown' = Append(shown, <<"audit", FirstDraft>>)
  /\ UNCHANGED <<drafts, results>>

Auditor       == Audit("auditor", IF paranoid THEN "auditor-paranoid" ELSE "judge")
SecondAuditor == Audit("auditor-paranoid", "judge")

Judge ==
  /\ pc = "judge"
  /\ \E t \in JudgeText :
       /\ Answer("judge", <<"judge", FirstDraft, audits>>, t, "ok")
       /\ results' = Append(results, Audited(drafts, audits, t))
  /\ shown' = Append(shown, <<"judge", FirstDraft, audits>>)
  /\ UNCHANGED <<drafts, audits>>

Lenient ==
  /\ pc = "skip"
  /\ pc' = "ok"
  /\ results' = Append(results, Unaudited(drafts))
  /\ UNCHANGED <<config, loaded, memo, drafts, audits, shown>>

\* load or generate fails: run returns the error.
CallFails ==
  /\ pc \in Role \cup {"retry"}
  /\ pc' = "err"
  /\ loaded' \in {loaded, SeedFor(IF pc = "retry" THEN "analyst" ELSE pc)}
  /\ UNCHANGED <<config, memo, drafts, audits, shown, results>>

Pass == Analyst \/ Retry \/ Auditor \/ SecondAuditor \/ Judge \/ Lenient \/ CallFails

\* The same is asked again.
Again ==
  /\ pc \in {"ok", "err"}
  /\ Len(results) < Runs
  /\ pc' = "analyst"
  /\ drafts' = <<>> /\ audits' = <<>> /\ shown' = <<>>
  /\ UNCHANGED <<config, loaded, memo, results>>

Next == Pass \/ Again

Spec == Init /\ [][Next]_vars

-----------------------------------------------------------------------------
(* Properties.                                                             *)

Returned == results[Len(results)]
Judged   == pc = "ok" /\ ~lenient

\* With one nonce, prompt and configuration every run returns the same, whatever
\* the backend was last used for and whichever calls failed in between.
Reproducible == \A i, j \in DOMAIN results : results[i] = results[j]

\* A report that passed was passed by every auditor asked, two of them when
\* paranoid: each began its answer with NO, whatever it went on with; and its verdict is
\* the word of a judge who was shown all they said.
PassedByAll ==
  Judged /\ Returned.passed =>
    /\ Len(audits) = IF paranoid THEN 2 ELSE 1
    /\ \A i \in DOMAIN audits : audits[i].first # "other"
    /\ shown[Len(shown)] = <<"judge", FirstDraft, audits>>

\* An answer as AUDITOR_PROMPT asks for it: one object, on a line of its own, with
\* strings in its array.
AsPrompted(text) ==
  Len(text.objects) = 1 /\ text.objects[1].oneLine /\ text.objects[1].string

\* What an auditor that answers as it is asked to has flagged reaches the caller,
\* whichever of the two it is and however the other answers; and nothing reaches the
\* caller as a flag that no auditor of this run gave as one.  Other answers do lose
\* flags: an object over several lines, a second object, an entry that is no string.
FlagsAsPromptedReach ==
  Judged =>
    /\ \A i \in DOMAIN audits : AsPrompted(audits[i]) =>
         audits[i].objects[1].entry \in Returned.flags
    /\ \A f \in Returned.flags : \E i \in DOMAIN audits : \E j \in DOMAIN audits[i].objects :
         audits[i].objects[j].entry = f /\ audits[i].objects[j].string

\* Findings are surfaced raw only when the analyst was asked twice and failed
\* twice; all others are findings of one of its answers.
SurfacedAfterRetry ==
  pc = "ok" =>
    /\ Returned.surfaced <=> Len(drafts) = 2 /\ \A i \in DOMAIN drafts : ~drafts[i].findings
    /\ ~Returned.surfaced => Returned.findings.findings

\* What the design says of the auditor, which "sees ONLY the analyst's JSON
\* output": it saw the findings that are returned.
AuditedIsReported ==
  Judged => \A i \in DOMAIN shown : shown[i][2] = Returned.findings
=============================================================================
