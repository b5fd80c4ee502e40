-------------------------- MODULE Pipeline_proofs --------------------------
(***************************************************************************)
(* For every set of versions and flags and any number of runs: the         *)
(* pipeline returns the same each time it is run, reports a pass only if   *)
(* every auditor gave one, loses no flag of an auditor that answers as it  *)
(* is asked to, and surfaces only what failed twice.                       *)
(*                                                                         *)
(* The argument is one invariant: what the backend has said is a function  *)
(* of seed and prompt, and a run has asked for exactly the chain of        *)
(* answers that its position calls for.  Two whole chains are then equal.  *)
(***************************************************************************)
EXTENDS Pipeline, SequenceTheorems, TLAPS

Said(role, prompt, text) == <<role, prompt, text>> \in memo

\* The analyst's part of a run, and the auditors': each text is what the backend says.
Analysed(d) ==
  /\ d \in Seq(AnalystText)
  /\ Len(d) = IF d[1].findings THEN 1 ELSE 2
  /\ Said("analyst", <<"prompt">>, d[1])
  /\ Len(d) = 2 => Said("analyst", <<"tighter">>, d[2])

FirstAudit(d, a) ==
  /\ a \in Seq(AuditorText)
  /\ Len(a) >= 1
  /\ Said("auditor", <<"audit", d[1]>>, a[1])

AllAudits(d, a) ==
  /\ FirstAudit(d, a)
  /\ Len(a) = IF paranoid THEN 2 ELSE 1
  /\ paranoid => Said("auditor-paranoid", <<"audit", d[1]>>, a[2])

\* A result is what a whole run returns.
Earned(r) ==
  IF lenient
  THEN \E d : Analysed(d) /\ r = Unaudited(d)
  ELSE \E d, a, t : /\ Analysed(d) /\ AllAudits(d, a)
                    /\ Said("judge", <<"judge", d[1], a>>, t)
                    /\ r = Audited(d, a, t)

-----------------------------------------------------------------------------
(* The invariant.                                                          *)

OneAnswer ==
  \A role, prompt, t, u : Said(role, prompt, t) /\ Said(role, prompt, u) => t = u

Begun == pc = "analyst" => drafts = <<>> /\ audits = <<>>

Retrying ==
  pc = "retry" =>
    /\ drafts \in Seq(AnalystText) /\ Len(drafts) = 1
    /\ ~drafts[1].findings
    /\ Said("analyst", <<"prompt">>, drafts[1])
    /\ audits = <<>>

Drafted ==
  /\ pc \in {"skip", "auditor", "auditor-paranoid", "judge", "ok"} => Analysed(drafts)
  /\ pc = "skip" => lenient
  /\ pc \in {"auditor", "auditor-paranoid", "judge"} => ~lenient
  /\ pc = "auditor" => audits = <<>>

Auditing ==
  /\ pc = "auditor-paranoid" => paranoid /\ FirstAudit(drafts, audits) /\ Len(audits) = 1
  /\ pc = "judge" => AllAudits(drafts, audits)

Ended ==
  pc = "ok" =>
    /\ results # <<>>
    /\ lenient => Returned = Unaudited(drafts)
    /\ ~lenient =>
         /\ AllAudits(drafts, audits)
         /\ \E t : Returned = Audited(drafts, audits, t)
         /\ shown # <<>>
         /\ shown[Len(shown)] = <<"judge", FirstDraft, audits>>

AllEarned == \A r : (\E i \in DOMAIN results : r = results[i]) => Earned(r)

Outcomes == [findings : AnalystText, surfaced : BOOLEAN, passed : BOOLEAN, flags : SUBSET Flag,
             verdict : {"agreement", "disagreement", "escalate", "skipped"}]

Prompts == ({"audit"} \X AnalystText) \cup ({"judge"} \X AnalystText \X Seq(AuditorText))

Types ==
  /\ paranoid \in BOOLEAN /\ lenient \in BOOLEAN
  /\ drafts \in Seq(AnalystText)
  /\ audits \in Seq(AuditorText)
  /\ shown \in Seq(Prompts)
  /\ results \in Seq(Outcomes)

Inv == Types /\ OneAnswer /\ Begun /\ Retrying /\ Drafted /\ Auditing /\ Ended /\ AllEarned

-----------------------------------------------------------------------------
(* What the operators return.                                              *)

\* An auditor's answer holds a sequence of objects, and flags are read off it.
LEMMA FlagsTyped ==
  ASSUME NEW text \in AuditorText
  PROVE  /\ text.first \in {"NO", "NO, YES", "other"}
         /\ \A i \in DOMAIN text.objects : text.objects[i] \in FlagObject
         /\ FlagsOf(text) \subseteq Flag
<1>1. PICK o : o = text.objects
  OBVIOUS
<1>2. \A i \in DOMAIN o : o[i] \in FlagObject
  <2>1. PICK n \in 0 .. MaxObjects : o \in [1 .. n -> FlagObject]
    BY <1>1 DEF AuditorText
  <2> QED BY <2>1
<1>3. \A i \in DOMAIN o : o[i].entry \in Flag
  BY <1>2 DEF FlagObject
<1>4. FlagsOf(text) \subseteq Flag
  BY <1>1, <1>3 DEF FlagsOf
<1> QED
  BY <1>1, <1>2, <1>4 DEF AuditorText

\* A whole run's result has the type of one.
LEMMA OutcomesTyped ==
  ASSUME NEW d \in Seq(AnalystText), Len(d) >= 1, NEW a \in Seq(AuditorText), Len(a) >= 1,
         NEW t \in JudgeText
  PROVE  Audited(d, a, t) \in Outcomes /\ Unaudited(d) \in Outcomes
<1>1. Findings(d) \in AnalystText /\ Findings(d).findings \in BOOLEAN
  <2>1. d[Len(d)] \in AnalystText
    OBVIOUS
  <2> QED BY <2>1 DEF Findings, AnalystText
<1>2. Combined(a) \in BOOLEAN
  BY DEF Combined
<1>3. Flags(a) \in SUBSET Flag
  <2>1. \A i \in DOMAIN a : a[i] \in AuditorText
    OBVIOUS
  <2>2. \A text \in AuditorText : FlagsOf(text) \subseteq Flag
    BY FlagsTyped
  <2> QED BY <2>1, <2>2 DEF Flags
<1>4. Verdict(t) \in {"agreement", "disagreement", "escalate"}
  BY DEF Verdict
<1> QED
  BY <1>1, <1>2, <1>3, <1>4 DEF Audited, Unaudited, Result, Outcomes

\* A call adds its answer to what the backend has said, and contradicts nothing.
LEMMA AnswerKeeps ==
  ASSUME OneAnswer, NEW role, NEW prompt, NEW text, NEW next, Answer(role, prompt, text, next)
  PROVE  /\ OneAnswer'
         /\ memo \subseteq memo'
         /\ <<role, prompt, text>> \in memo'
         /\ text \in Text(role)
         /\ UNCHANGED config
<1>1. memo' = memo \cup {<<role, prompt, text>>}
  BY DEF Answer, SeedFor
<1>2. ASSUME NEW u, <<role, prompt, u>> \in memo
      PROVE  u = text
  BY <1>2 DEF Answer, SeedFor
<1>3. OneAnswer'
  BY <1>1, <1>2 DEF OneAnswer, Said
<1> QED
  BY <1>1, <1>3 DEF Answer

\* What was a chain of answers still is one when the backend has said more.
LEMMA ChainsLast ==
  ASSUME memo \subseteq memo', UNCHANGED config
  PROVE  /\ \A d : Analysed(d) => Analysed(d)'
         /\ \A d, a : FirstAudit(d, a) => FirstAudit(d, a)'
         /\ \A d, a : AllAudits(d, a) => AllAudits(d, a)'
         /\ \A r : Earned(r) => Earned(r)'
<1>1. \A d : Analysed(d) => Analysed(d)'
  BY DEF Analysed, Said
<1>2. \A d, a : FirstAudit(d, a) => FirstAudit(d, a)'
  BY DEF FirstAudit, Said
<1>3. \A d, a : AllAudits(d, a) => AllAudits(d, a)'
  BY <1>2 DEF AllAudits, Said, config
<1>4. ASSUME NEW r, Earned(r) PROVE Earned(r)'
  <2>1. CASE lenient
    BY <1>1, <1>4, <2>1 DEF Earned, config
  <2>2. CASE ~lenient
    BY <1>1, <1>3, <1>4, <2>2 DEF Earned, Said, config
  <2> QED BY <2>1, <2>2
<1> QED
  BY <1>1, <1>2, <1>3, <1>4

\* Sequences of one or two texts are equal if their members are.
LEMMA ShortSequences ==
  ASSUME NEW S, NEW s \in Seq(S), NEW t \in Seq(S), Len(s) = Len(t), Len(s) \in {1, 2},
         s[1] = t[1], Len(s) = 2 => s[2] = t[2]
  PROVE  s = t
<1>1. s \in [1 .. Len(s) -> S] /\ t \in [1 .. Len(s) -> S]
  OBVIOUS
<1>2. \A i \in 1 .. Len(s) : s[i] = t[i]
  OBVIOUS
<1> QED
  BY <1>1, <1>2

\* What a text appended to a sequence of texts makes.
LEMMA AppendedLast ==
  ASSUME NEW S, NEW s \in Seq(S), NEW e \in S
  PROVE  /\ Append(s, e) \in Seq(S) /\ Len(Append(s, e)) = Len(s) + 1
         /\ \A i \in 1 .. Len(s) : Append(s, e)[i] = s[i]
         /\ Append(s, e)[Len(s) + 1] = e
  OBVIOUS

\* What a second text appended to one makes.
LEMMA AppendedSecond ==
  ASSUME NEW S, NEW s \in Seq(S), Len(s) = 1, NEW e \in S
  PROVE  /\ Append(s, e) \in Seq(S) /\ Len(Append(s, e)) = 2
         /\ Append(s, e)[1] = s[1] /\ Append(s, e)[2] = e
<1>1. PICK u : /\ u = Append(s, e) /\ u \in Seq(S) /\ Len(u) = Len(s) + 1
               /\ \A i \in 1 .. Len(s) : u[i] = s[i]
               /\ u[Len(s) + 1] = e
  BY AppendedLast, Zenon
<1>2. 1 \in 1 .. Len(s) /\ Len(s) + 1 = 2
  OBVIOUS
<1>3. Len(u) = 2 /\ u[1] = s[1] /\ u[2] = e
  BY <1>1, <1>2
<1> QED
  BY <1>1, <1>3, Zenon

\* There is one whole run.
LEMMA OneWholeRun ==
  ASSUME OneAnswer, paranoid \in BOOLEAN, lenient \in BOOLEAN,
         NEW r, NEW s, Earned(r), Earned(s)
  PROVE  r = s
<1>1. ASSUME NEW d, NEW e, Analysed(d), Analysed(e) PROVE d = e
  <2>1. d[1] = e[1]
    BY <1>1 DEF Analysed, OneAnswer
  <2>2. Len(d) = Len(e) /\ Len(d) \in {1, 2}
    BY <1>1, <2>1 DEF Analysed
  <2>3. Len(d) = 2 => d[2] = e[2]
    BY <1>1, <2>2 DEF Analysed, OneAnswer
  <2> QED BY <1>1, <2>1, <2>2, <2>3, ShortSequences DEF Analysed
<1>2. ASSUME NEW d, NEW a, NEW b, AllAudits(d, a), AllAudits(d, b) PROVE a = b
  <2>1. a[1] = b[1]
    BY <1>2 DEF AllAudits, FirstAudit, OneAnswer
  <2>2. Len(a) = Len(b) /\ Len(a) \in {1, 2}
    BY <1>2 DEF AllAudits
  <2>3. Len(a) = 2 => a[2] = b[2]
    BY <1>2, <2>2 DEF AllAudits, OneAnswer
  <2> QED BY <1>2, <2>1, <2>2, <2>3, ShortSequences DEF AllAudits, FirstAudit
<1>3. CASE lenient
  BY <1>1, <1>3 DEF Earned
<1>4. CASE ~lenient
  <2>1. PICK d, a, t : Analysed(d) /\ AllAudits(d, a)
                       /\ Said("judge", <<"judge", d[1], a>>, t) /\ r = Audited(d, a, t)
    BY <1>4 DEF Earned
  <2>2. PICK e, b, u : Analysed(e) /\ AllAudits(e, b)
                       /\ Said("judge", <<"judge", e[1], b>>, u) /\ s = Audited(e, b, u)
    BY <1>4 DEF Earned
  <2>3. d = e
    BY <1>1, <2>1, <2>2
  <2>4. a = b
    BY <1>2, <2>1, <2>2, <2>3
  <2>5. t = u
    BY <2>1, <2>2, <2>3, <2>4 DEF OneAnswer
  <2> QED BY <2>1, <2>2, <2>3, <2>4, <2>5
<1> QED
  BY <1>3, <1>4

-----------------------------------------------------------------------------
(* Each step keeps the invariant.                                          *)

LEMMA InvInit == Init => Inv
  BY DEF Init, Inv, Types, OneAnswer, Said, Begun, Retrying, Drafted, Auditing, Ended, AllEarned

\* What a step that returns nothing has to show.
LEMMA NothingReturned ==
  ASSUME Inv, memo \subseteq memo', UNCHANGED <<config, results>>
  PROVE  AllEarned'
BY ChainsLast DEF Inv, AllEarned

LEMMA AnalystKeeps == ASSUME Inv, Analyst PROVE Inv'
<1>1. PICK t \in AnalystText :
        /\ Answer("analyst", <<"prompt">>, t,
                  IF ~t.findings THEN "retry" ELSE IF lenient THEN "skip" ELSE "auditor")
        /\ drafts' = Append(drafts, t)
  BY DEF Analyst
<1>2. /\ OneAnswer' /\ memo \subseteq memo' /\ UNCHANGED <<config, audits, shown, results>>
      /\ <<"analyst", <<"prompt">>, t>> \in memo'
  BY <1>1, AnswerKeeps DEF Inv, Analyst
<1>3. pc' = IF ~t.findings THEN "retry" ELSE IF lenient THEN "skip" ELSE "auditor"
  BY <1>1 DEF Answer
<1>4. drafts = <<>> /\ audits = <<>>
  BY DEF Inv, Begun, Analyst
<1>5. /\ drafts' \in Seq(AnalystText) /\ Len(drafts') = 1 /\ drafts'[1] = t
  BY <1>1, <1>4
<1>6. t.findings \in BOOLEAN
  BY DEF AnalystText
<1>7. Types'
  BY <1>2, <1>5 DEF Inv, Types, config
<1>8. Retrying'
  BY <1>2, <1>3, <1>4, <1>5 DEF Retrying, Said
<1>9. Drafted'
  <2>1. t.findings => Analysed(drafts)'
    BY <1>2, <1>5 DEF Analysed, Said
  <2> QED BY <1>2, <1>3, <1>4, <1>6, <2>1 DEF Drafted, config, Inv, Types
<1>10. Begun' /\ Auditing' /\ Ended'
  BY <1>3 DEF Begun, Auditing, Ended
<1> QED
  BY <1>2, <1>7, <1>8, <1>9, <1>10, NothingReturned DEF Inv

LEMMA RetryKeeps == ASSUME Inv, Retry PROVE Inv'
<1>1. PICK t \in AnalystText :
        /\ Answer("analyst", <<"tighter">>, t, AfterRetry)
        /\ drafts' = Append(drafts, t)
  BY DEF Retry
<1>2. /\ OneAnswer' /\ memo \subseteq memo' /\ UNCHANGED <<config, audits, shown, results>>
      /\ <<"analyst", <<"tighter">>, t>> \in memo'
  BY <1>1, AnswerKeeps DEF Inv, Retry
<1>3. pc' = IF lenient THEN "skip" ELSE "auditor"
  BY <1>1 DEF Answer, AfterRetry
<1>4. /\ drafts \in Seq(AnalystText) /\ Len(drafts) = 1 /\ ~drafts[1].findings
      /\ Said("analyst", <<"prompt">>, drafts[1])
      /\ audits = <<>>
  BY DEF Inv, Retrying, Retry
<1>5. /\ drafts' \in Seq(AnalystText) /\ Len(drafts') = 2
      /\ drafts'[1] = drafts[1] /\ drafts'[2] = t
  BY <1>1, <1>4, AppendedSecond
<1>6. Types'
  BY <1>2, <1>5 DEF Inv, Types, config
<1>7. Drafted'
  <2>1. Analysed(drafts)'
    BY <1>2, <1>4, <1>5 DEF Analysed, Said
  <2> QED BY <1>2, <1>3, <1>4, <2>1 DEF Drafted, config
<1>8. Begun' /\ Retrying' /\ Auditing' /\ Ended'
  BY <1>3 DEF Begun, Retrying, Auditing, Ended
<1> QED
  BY <1>2, <1>6, <1>7, <1>8, NothingReturned DEF Inv

\* What both auditors' steps have in common.
LEMMA AuditKeeps ==
  ASSUME Inv, NEW role \in {"auditor", "auditor-paranoid"},
         NEW next \in {"auditor-paranoid", "judge"}, Audit(role, next)
  PROVE  /\ Types' /\ OneAnswer' /\ AllEarned'
         /\ memo \subseteq memo' /\ UNCHANGED <<config, drafts>>
         /\ pc = role /\ pc' = next
         /\ Analysed(drafts) /\ Analysed(drafts)' /\ ~lenient
         /\ \E t \in AuditorText : /\ audits' = Append(audits, t)
                                   /\ <<role, <<"audit", drafts[1]>>, t>> \in memo'
<1>1. PICK t \in AuditorText :
        Answer(role, <<"audit", FirstDraft>>, t, next) /\ audits' = Append(audits, t)
  BY DEF Audit
<1>2. /\ OneAnswer' /\ memo \subseteq memo' /\ UNCHANGED <<config, drafts, results>>
      /\ <<role, <<"audit", drafts[1]>>, t>> \in memo'
  BY <1>1, AnswerKeeps DEF Inv, Audit, FirstDraft
<1>3. pc = role /\ pc' = next
  BY <1>1 DEF Audit, Answer
<1>4. Analysed(drafts) /\ ~lenient
  BY <1>3 DEF Inv, Drafted
<1>5. Analysed(drafts)'
  BY <1>2, <1>4 DEF Analysed, Said
<1>6. <<"audit", drafts[1]>> \in Prompts
  <2>1. drafts[1] \in AnalystText
    <3>1. drafts \in Seq(AnalystText) /\ Len(drafts) \in {1, 2}
      BY <1>4 DEF Analysed
    <3> QED BY <3>1
  <2> QED BY <2>1 DEF Prompts
<1>7. shown' \in Seq(Prompts)
  BY <1>6 DEF Inv, Types, Audit, FirstDraft
<1>8. Types'
  BY <1>1, <1>2, <1>7 DEF Inv, Types, config
<1> QED
  BY <1>1, <1>2, <1>3, <1>4, <1>5, <1>8, NothingReturned

LEMMA AuditorKeeps == ASSUME Inv, Auditor PROVE Inv'
<1> DEFINE next == IF paranoid THEN "auditor-paranoid" ELSE "judge"
<1>1. /\ Types' /\ OneAnswer' /\ AllEarned'
      /\ UNCHANGED <<config, drafts>>
      /\ pc = "auditor" /\ pc' = next
      /\ Analysed(drafts)' /\ ~lenient
      /\ \E t \in AuditorText : /\ audits' = Append(audits, t)
                                /\ <<"auditor", <<"audit", drafts[1]>>, t>> \in memo'
  BY AuditKeeps DEF Auditor
<1>2. PICK t \in AuditorText : /\ audits' = Append(audits, t)
                               /\ <<"auditor", <<"audit", drafts[1]>>, t>> \in memo'
  BY <1>1
<1>3. audits = <<>>
  BY <1>1 DEF Inv, Drafted
<1>4. audits' \in Seq(AuditorText) /\ Len(audits') = 1 /\ audits'[1] = t
  BY <1>2, <1>3
<1>5. FirstAudit(drafts, audits)'
  BY <1>1, <1>2, <1>4 DEF FirstAudit, Said
<1>6. Drafted'
  BY <1>1 DEF Drafted, config
<1>7. Auditing'
  BY <1>1, <1>4, <1>5 DEF Auditing, AllAudits, config, Inv, Types
<1>8. Begun' /\ Retrying' /\ Ended'
  BY <1>1 DEF Begun, Retrying, Ended
<1> QED
  BY <1>1, <1>6, <1>7, <1>8 DEF Inv

LEMMA SecondAuditorKeeps == ASSUME Inv, SecondAuditor PROVE Inv'
<1>1. /\ Types' /\ OneAnswer' /\ AllEarned'
      /\ memo \subseteq memo' /\ UNCHANGED <<config, drafts>>
      /\ pc = "auditor-paranoid" /\ pc' = "judge"
      /\ Analysed(drafts)' /\ ~lenient
      /\ \E t \in AuditorText : /\ audits' = Append(audits, t)
                                /\ <<"auditor-paranoid", <<"audit", drafts[1]>>, t>> \in memo'
  BY AuditKeeps DEF SecondAuditor
<1>2. PICK t \in AuditorText : /\ audits' = Append(audits, t)
                               /\ <<"auditor-paranoid", <<"audit", drafts[1]>>, t>> \in memo'
  BY <1>1
<1>3. paranoid /\ FirstAudit(drafts, audits) /\ Len(audits) = 1
  BY <1>1 DEF Inv, Auditing
<1>4. /\ audits' \in Seq(AuditorText) /\ Len(audits') = 2
      /\ audits'[1] = audits[1] /\ audits'[2] = t
  BY <1>2, <1>3, AppendedSecond DEF FirstAudit
<1>5. AllAudits(drafts, audits)'
  BY <1>1, <1>2, <1>3, <1>4 DEF AllAudits, FirstAudit, Said, config
<1>6. Drafted' /\ Auditing'
  BY <1>1, <1>5 DEF Drafted, Auditing, config
<1>7. Begun' /\ Retrying' /\ Ended'
  BY <1>1 DEF Begun, Retrying, Ended
<1> QED
  BY <1>1, <1>6, <1>7 DEF Inv

\* What both ways to the end of a run have in common.
LEMMA ReturnKeeps ==
  ASSUME Inv, memo \subseteq memo', UNCHANGED config, NEW r \in Outcomes, Earned(r)',
         results' = Append(results, r)
  PROVE  results' \in Seq(Outcomes) /\ AllEarned' /\ results' # <<>> /\ Returned' = r
<1>1. results \in Seq(Outcomes)
  BY DEF Inv, Types
<1>2. /\ results' \in Seq(Outcomes) /\ Len(results') = Len(results) + 1
      /\ results'[Len(results')] = r
      /\ \A i \in 1 .. Len(results) : results'[i] = results[i]
  BY <1>1
<1>3. ASSUME NEW s, NEW i \in DOMAIN results', s = results'[i] PROVE Earned(s)'
  <2>1. CASE i \in 1 .. Len(results)
    <3>1. Earned(s)
      BY <1>1, <1>2, <1>3, <2>1 DEF Inv, AllEarned
    <3> QED BY <3>1, ChainsLast
  <2>2. CASE i = Len(results')
    BY <1>2, <1>3, <2>2 DEF Earned
  <2>3. i \in 1 .. Len(results) \/ i = Len(results')
    BY <1>1, <1>2, <1>3
  <2> QED BY <2>1, <2>2, <2>3
<1> QED
  BY <1>2, <1>3 DEF AllEarned, Returned

LEMMA JudgeKeeps == ASSUME Inv, Judge PROVE Inv'
<1>1. PICK t \in JudgeText :
        /\ Answer("judge", <<"judge", FirstDraft, audits>>, t, "ok")
        /\ results' = Append(results, Audited(drafts, audits, t))
  BY DEF Judge
<1>2. /\ OneAnswer' /\ memo \subseteq memo' /\ UNCHANGED <<config, drafts, audits>>
      /\ <<"judge", <<"judge", drafts[1], audits>>, t>> \in memo'
  BY <1>1, AnswerKeeps DEF Inv, Judge, FirstDraft
<1>3. pc = "judge" /\ pc' = "ok"
  BY <1>1 DEF Judge, Answer
<1>4. Analysed(drafts) /\ AllAudits(drafts, audits) /\ ~lenient
  BY <1>3 DEF Inv, Drafted, Auditing
<1>5. /\ Analysed(drafts)' /\ AllAudits(drafts, audits)'
  BY <1>2, <1>4 DEF Analysed, AllAudits, FirstAudit, Said, config
<1>6. /\ drafts \in Seq(AnalystText) /\ Len(drafts) \in {1, 2}
      /\ audits \in Seq(AuditorText) /\ Len(audits) >= 1
      /\ Len(drafts) >= 1
  BY <1>4 DEF Analysed, AllAudits, FirstAudit
<1>7. Audited(drafts, audits, t) \in Outcomes
  BY <1>6, OutcomesTyped
<1>8. Earned(Audited(drafts, audits, t))'
  BY <1>2, <1>4, <1>5 DEF Earned, Said, config
<1>9. /\ results' \in Seq(Outcomes) /\ AllEarned' /\ results' # <<>>
      /\ Returned' = Audited(drafts, audits, t)
  BY <1>1, <1>2, <1>7, <1>8, ReturnKeeps
<1>10. /\ shown' \in Seq(Prompts) /\ shown' # <<>>
       /\ shown'[Len(shown')] = <<"judge", FirstDraft, audits>>
  <2>1. drafts[1] \in AnalystText
    BY <1>6
  <2>2. <<"judge", FirstDraft, audits>> \in Prompts
    BY <1>6, <2>1 DEF Prompts, FirstDraft
  <2> QED BY <2>2 DEF Inv, Types, Judge
<1>11. Types'
  BY <1>2, <1>9, <1>10 DEF Inv, Types, config
<1>12. Ended'
  <2>1. FirstDraft' = FirstDraft
    BY <1>2 DEF FirstDraft
  <2>2. Returned' = Audited(drafts', audits', t)
    BY <1>2, <1>9
  <2> QED BY <1>2, <1>4, <1>5, <1>9, <1>10, <2>1, <2>2 DEF Ended, config
<1>13. Begun' /\ Retrying' /\ Drafted' /\ Auditing'
  BY <1>3, <1>5 DEF Begun, Retrying, Drafted, Auditing
<1> QED
  BY <1>2, <1>9, <1>11, <1>12, <1>13 DEF Inv

LEMMA LenientKeeps == ASSUME Inv, Lenient PROVE Inv'
<1>1. /\ pc = "skip" /\ pc' = "ok" /\ results' = Append(results, Unaudited(drafts))
      /\ UNCHANGED <<config, memo, drafts, audits, shown>>
  BY DEF Lenient
<1>2. Analysed(drafts) /\ lenient
  BY <1>1 DEF Inv, Drafted
<1>3. Analysed(drafts)'
  BY <1>1, <1>2 DEF Analysed, Said
<1>4. Unaudited(drafts) \in Outcomes
  <2>1. drafts \in Seq(AnalystText) /\ Len(drafts) \in {1, 2}
    BY <1>2 DEF Analysed
  <2>2. Findings(drafts) \in AnalystText
    <3>1. Len(drafts) \in DOMAIN drafts
      BY <2>1
    <3> QED BY <2>1, <3>1 DEF Findings
  <2> QED BY <2>2 DEF Unaudited, Result, Outcomes, AnalystText
<1>5. Earned(Unaudited(drafts))'
  BY <1>1, <1>2, <1>3 DEF Earned, config
<1>6. /\ results' \in Seq(Outcomes) /\ AllEarned' /\ results' # <<>>
      /\ Returned' = Unaudited(drafts)
  BY <1>1, <1>4, <1>5, ReturnKeeps
<1>7. Types' /\ OneAnswer'
  BY <1>1, <1>6 DEF Inv, Types, OneAnswer, Said, config
<1>8. Ended'
  <2>1. Returned' = Unaudited(drafts')
    BY <1>1, <1>6
  <2> QED BY <1>1, <1>2, <1>6, <2>1 DEF Ended, config
<1>9. Begun' /\ Retrying' /\ Drafted' /\ Auditing'
  BY <1>1, <1>3 DEF Begun, Retrying, Drafted, Auditing
<1> QED
  BY <1>6, <1>7, <1>8, <1>9 DEF Inv

\* Steps that neither ask nor return anything.
LEMMA OthersKeep == ASSUME Inv, CallFails \/ Again \/ UNCHANGED vars PROVE Inv'
<1>1. CASE CallFails
  <2>1. /\ pc' = "err" /\ UNCHANGED <<config, memo, drafts, audits, shown, results>>
    BY <1>1 DEF CallFails
  <2>2. Types' /\ OneAnswer'
    BY <2>1 DEF Inv, Types, OneAnswer, Said, config
  <2>3. Begun' /\ Retrying' /\ Drafted' /\ Auditing' /\ Ended'
    BY <2>1 DEF Begun, Retrying, Drafted, Auditing, Ended
  <2> QED BY <2>1, <2>2, <2>3, NothingReturned DEF Inv
<1>2. CASE Again
  <2>1. /\ pc' = "analyst" /\ UNCHANGED <<config, memo, results>>
        /\ drafts' = <<>> /\ audits' = <<>> /\ shown' = <<>>
    BY <1>2 DEF Again
  <2>2. Types' /\ OneAnswer'
    BY <2>1 DEF Inv, Types, OneAnswer, Said, config
  <2>3. Begun' /\ Retrying' /\ Drafted' /\ Auditing' /\ Ended'
    BY <2>1 DEF Begun, Retrying, Drafted, Auditing, Ended
  <2> QED BY <2>1, <2>2, <2>3, NothingReturned DEF Inv
<1>3. CASE UNCHANGED vars
  <2>1. Types' /\ OneAnswer' /\ Begun' /\ Retrying'
    BY <1>3 DEF vars, config, Inv, Types, OneAnswer, Said, Begun, Retrying
  <2>2. Drafted' /\ Auditing'
    BY <1>3 DEF vars, config, Inv, Drafted, Auditing, Analysed, FirstAudit, AllAudits, Said
  <2>3. Ended'
    BY <1>3 DEF vars, config, Inv, Ended, AllAudits, FirstAudit, Said, Returned, FirstDraft
  <2> QED BY <1>3, <2>1, <2>2, <2>3, NothingReturned DEF Inv, vars
<1> QED
  BY <1>1, <1>2, <1>3

\* The invariant holds in every run, of any length.
THEOREM Chained == Spec => []Inv
<1>1. ASSUME Inv, [Next]_vars PROVE Inv'
  BY <1>1, AnalystKeeps, RetryKeeps, AuditorKeeps, SecondAuditorKeeps, JudgeKeeps,
     LenientKeeps, OthersKeep DEF Next, Pass
<1> QED
  BY <1>1, InvInit, PTL DEF Spec

-----------------------------------------------------------------------------
(* The properties.                                                         *)

\* With one nonce, prompt and configuration, a run returns the same however often it is
\* repeated, whatever the backend was last loaded with and whichever calls failed in
\* between: for any backend whose answer depends on seed and prompt alone.
THEOREM AlwaysReproducible == Spec => []Reproducible
<1>1. Inv => Reproducible
  BY OneWholeRun DEF Inv, Types, AllEarned, Reproducible
<1> QED
  BY <1>1, Chained, PTL

\* A pass reported is a pass of every auditor asked, and the verdict beside it is that of
\* a judge who was shown all they said.
THEOREM NoPassWithoutAll == Spec => []PassedByAll
<1>1. ASSUME Inv, Judged, Returned.passed PROVE
        /\ Len(audits) = IF paranoid THEN 2 ELSE 1
        /\ \A i \in DOMAIN audits : audits[i].first # "other"
        /\ shown[Len(shown)] = <<"judge", FirstDraft, audits>>
  <2>1. /\ AllAudits(drafts, audits)
        /\ \E t : Returned = Audited(drafts, audits, t)
        /\ shown[Len(shown)] = <<"judge", FirstDraft, audits>>
    BY <1>1 DEF Inv, Ended, Judged
  <2>2. Combined(audits)
    BY <1>1, <2>1 DEF Audited, Result
  <2>3. 1 \in DOMAIN audits
    BY <2>1 DEF AllAudits, FirstAudit
  <2>4. \A i \in DOMAIN audits : audits[i].first # "other"
    BY <2>2, <2>3 DEF Combined, Passed
  <2> QED BY <2>1, <2>4 DEF AllAudits
<1>2. Inv => PassedByAll
  BY <1>1 DEF PassedByAll
<1> QED
  BY <1>2, Chained, PTL

\* FlagsAsPromptedReach: an auditor that answers as it is asked to loses no flag, and no
\* flag comes from elsewhere, however many objects the answers hold.
THEOREM FlagsReach == Spec => []FlagsAsPromptedReach
<1>1. ASSUME Inv, Judged
      PROVE  /\ \A i \in DOMAIN audits : AsPrompted(audits[i]) =>
                  audits[i].objects[1].entry \in Returned.flags
             /\ \A f \in Returned.flags : \E i \in DOMAIN audits :
                  \E j \in DOMAIN audits[i].objects :
                    audits[i].objects[j].entry = f /\ audits[i].objects[j].string
  <2>1. PICK t : Returned = Audited(drafts, audits, t)
    BY <1>1 DEF Inv, Ended, Judged
  <2>2. Returned.flags = UNION {FlagsOf(audits[i]) : i \in DOMAIN audits}
    BY <2>1 DEF Audited, Result, Flags
  <2>3. ASSUME NEW i \in DOMAIN audits, AsPrompted(audits[i])
        PROVE  audits[i].objects[1].entry \in Returned.flags
    <3>1. PICK o : o = audits[i].objects
      OBVIOUS
    <3>2. Len(o) = 1 /\ o[1].oneLine /\ o[1].string
      BY <2>3, <3>1 DEF AsPrompted
    <3>3. DOMAIN o = 1 .. 1
      <4>1. audits[i] \in AuditorText
        BY <1>1 DEF Inv, Types
      <4>2. PICK n \in 0 .. MaxObjects : o \in [1 .. n -> FlagObject]
        BY <3>1, <4>1 DEF AuditorText
      <4>3. n \in Nat /\ o \in Seq(FlagObject) /\ Len(o) = n
        BY <4>2, MaxObjectsAssumption
      <4> QED BY <3>2, <4>2, <4>3
    <3>4. o[1].entry \in FlagsOf(audits[i])
      BY <3>1, <3>2, <3>3 DEF FlagsOf
    <3> QED BY <2>2, <3>1, <3>4
  <2>4. ASSUME NEW f \in Returned.flags
        PROVE  \E i \in DOMAIN audits : \E j \in DOMAIN audits[i].objects :
                 audits[i].objects[j].entry = f /\ audits[i].objects[j].string
    <3>1. PICK i \in DOMAIN audits : f \in FlagsOf(audits[i])
      BY <2>2, <2>4
    <3>2. \E j \in DOMAIN audits[i].objects :
            audits[i].objects[j].entry = f /\ audits[i].objects[j].string
      BY <3>1 DEF FlagsOf
    <3> QED BY <3>2
  <2> QED BY <2>3, <2>4
<1>2. Inv => FlagsAsPromptedReach
  BY <1>1 DEF FlagsAsPromptedReach
<1> QED
  BY <1>2, Chained, PTL

\* Findings are surfaced raw only after two failures of the analyst.
THEOREM RawOnlyAfterRetry == Spec => []SurfacedAfterRetry
<1>1. ASSUME Inv, pc = "ok" PROVE
        /\ Returned.surfaced <=> Len(drafts) = 2 /\ \A i \in DOMAIN drafts : ~drafts[i].findings
        /\ ~Returned.surfaced => Returned.findings.findings
  <2>1. Returned.findings = Findings(drafts) /\ Returned.surfaced = ~Findings(drafts).findings
    BY <1>1 DEF Inv, Ended, Audited, Unaudited, Result, Types
  <2>2. /\ drafts \in Seq(AnalystText) /\ Len(drafts) \in {1, 2}
        /\ Len(drafts) = 1 <=> drafts[1].findings
    BY <1>1 DEF Inv, Drafted, Analysed
  <2>3. Len(drafts) = 1 => DOMAIN drafts = {1}
    BY <2>2
  <2>4. Len(drafts) = 2 => DOMAIN drafts = {1, 2}
    BY <2>2
  <2> QED BY <2>1, <2>2, <2>3, <2>4 DEF Findings
<1>2. Inv => SurfacedAfterRetry
  BY <1>1 DEF SurfacedAfterRetry
<1> QED
  BY <1>2, Chained, PTL
=============================================================================
