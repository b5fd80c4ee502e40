--------------------------- MODULE Commands_proofs ---------------------------
(***************************************************************************)
(* Proofs about the sessions of Commands, for every value of the           *)
(* constants: any number of browsers and requests, any number of pulls and *)
(* any length of what a server sends, reports with any findings.           *)
(*                                                                         *)
(* No session touches the variables of another, so each property follows   *)
(* from an invariant over one session's variables, which the first lemma   *)
(* lets the rest ignore everything else.                                   *)
(***************************************************************************)
EXTENDS Commands, AuditLog_proofs, FiniteSetTheorems

\* What a step of Commands does to the web server, the terminal UI, the pulls, the
\* audit log and a trace: a step of theirs, or nothing.
WebStep == WebNext \/ \E l, r \in BOOLEAN : OpenWeb(l, r, saved.report)
TuiStep == TuiNext \/ \E r \in BOOLEAN : OpenTui(r, saved.report)

LEMMA ReadableBool == Readable \in BOOLEAN
  BY DEF Readable, IsJson, Parses

LEMMA StepsOfSessions ==
  ASSUME [Next]_vars
  PROVE  /\ WebStep \/ UNCHANGED webVars
         /\ TuiStep \/ UNCHANGED tuiVars
         /\ ModelNext \/ UNCHANGED modelVars
         /\ AuditNext \/ UNCHANGED auditVars
         /\ TraceNext \/ UNCHANGED traceVars
<1>1. CASE UNCHANGED vars
  BY <1>1 DEF vars
<1>2. CASE RunAnalyze \/ AnalyzeSession \/ Save \/ Obtain
  BY <1>2 DEF RunAnalyze, AnalyzeSession, Save, Obtain
<1>3. CASE RunWeb
  <2>1. PICK l \in BOOLEAN : OpenWeb(l, Readable, saved.report)
    BY <1>3 DEF RunWeb
  <2>2. WebStep
    BY <2>1, ReadableBool DEF WebStep
  <2> QED
    BY <1>3, <2>2 DEF RunWeb
<1>4. CASE RunTui
  <2>1. OpenTui(Readable, saved.report)
    BY <1>4 DEF RunTui
  <2>2. TuiStep
    BY <2>1, ReadableBool DEF TuiStep
  <2> QED
    BY <1>4, <2>2 DEF RunTui
<1>5. CASE WebSession
  BY <1>5 DEF WebSession, WebStep
<1>6. CASE TuiSession
  BY <1>6 DEF TuiSession, TuiStep
<1>7. CASE RunMcp \/ InMcp(McpNext)
  BY <1>7 DEF RunMcp, InMcp
<1>8. CASE RunModels \/ ModelSession
  BY <1>8 DEF RunModels, ModelSession
<1>9. CASE RunAudit \/ AuditSession \/ RunTrace \/ TraceSession
  BY <1>9 DEF RunAudit, AuditSession, RunTrace, TraceSession, TraceNext
<1> QED
  BY <1>1, <1>2, <1>3, <1>4, <1>5, <1>6, <1>7, <1>8, <1>9 DEF Next

-----------------------------------------------------------------------------
(* The web server.                                                         *)

\* Who compares or rotates holds the mutex; who rotates had the token that is still
\* the current one; and who passed had the one that is not.
WebInv ==
  /\ mutex \in Browser \cup {"free", "poisoned"}
  /\ token \in {"printed", "secret"}
  /\ request \in [Browser -> Asks \cup {NoAsk}]
  /\ handling \in [Browser -> Stages]
  /\ \A b \in Browser : handling[b] \in {"comparing", "rotating"} => mutex = b
  /\ \A b \in Browser : handling[b] # "idle" => request[b] \in Asks
  /\ \A b \in Browser : handling[b] = "rotating" => request[b].token = token
  /\ ServedOnce

LEMMA WebInitially == WebInit => WebInv
  BY DEF WebInit, WebInv, Stages, ServedOnce, Passed

LEMMA WebInvStep ==
  ASSUME WebInv, WebStep \/ UNCHANGED webVars
  PROVE  WebInv'
<1> USE BrowserAssumption
<1> USE DEF WebInv
<1>1. CASE UNCHANGED webVars
  BY <1>1 DEF webVars, ServedOnce, Passed
<1>2. CASE \E l, r \in BOOLEAN : OpenWeb(l, r, saved.report)
  BY <1>2 DEF OpenWeb, ServedOnce, Passed
<1>3. CASE Bind
  BY <1>3 DEF Bind, ServedOnce, Passed
<1>4. ASSUME NEW b \in Browser, Ask(b)
      PROVE  WebInv'
  BY <1>4 DEF Ask, ServedOnce, Passed, Stages, Asks
<1>5. ASSUME NEW b \in Browser, Break(b)
      PROVE  WebInv'
  BY <1>5 DEF Break, ServedOnce, Passed
<1>6. ASSUME NEW b \in Browser, Lock(b)
      PROVE  WebInv'
  BY <1>6 DEF Lock, MayLock, Goes, ServedOnce, Passed, Stages
<1>7. ASSUME NEW b \in Browser, LockFails(b)
      PROVE  WebInv'
  BY <1>7 DEF LockFails, Goes, ServedOnce, Passed, Stages
<1>8. ASSUME NEW b \in Browser, Compare(b)
      PROVE  WebInv'
  BY <1>8 DEF Compare, TokenAfterRefusal, Goes, ServedOnce, Passed, Stages
<1>9. ASSUME NEW b \in Browser, Rotate(b)
      PROVE  WebInv'
  BY <1>9 DEF Rotate, Goes, ServedOnce, Passed, Stages, Asks
<1>10. ASSUME NEW b \in Browser, RotateFails(b)
      PROVE  WebInv'
  BY <1>10 DEF RotateFails, Goes, ServedOnce, Passed, Stages
<1>11. ASSUME NEW b \in Browser, Deliver(b)
      PROVE  WebInv'
  BY <1>11 DEF Deliver, Goes, ServedOnce, Passed, Stages
<1> QED
  BY <1>1, <1>2, <1>3, <1>4, <1>5, <1>6, <1>7, <1>8, <1>9, <1>10, <1>11
  DEF WebStep, WebNext, Handle

\* ServedOnce: of all the requests that race for the token, whatever their number, one
\* at most passes, and it had the token that was printed.
THEOREM OnlyOneIsServed == Spec => []ServedOnce
<1>1. Init => WebInv
  BY WebInitially DEF Init
<1>2. WebInv /\ [Next]_vars => WebInv'
  BY StepsOfSessions, WebInvStep
<1>3. WebInv => ServedOnce
  BY DEF WebInv
<1> QED
  BY <1>1, <1>2, <1>3, PTL DEF Spec

-----------------------------------------------------------------------------
(* The pulls.                                                              *)

\* A pull between the end of the body and the rename has the right file; one that
\* has not begun, or is over by itself, has none.
ModelInv ==
  /\ pull \in [Puller -> PullStages]
  /\ tmp = [p \in Puller |-> tmp[p]]
  /\ flushed \in BOOLEAN
  /\ \A p \in Puller : pull[p] = "hashed" => tmp[p] = Good
  /\ \A p \in Puller : pull[p] \in {"idle", "connecting"} => tmp[p] = NoFile
  /\ DestVerified
  /\ TmpCleared

LEMMA ModelInitially == ModelInit => ModelInv
  BY DEF ModelInit, ModelInv, PullStages, DestVerified, TmpCleared

LEMMA ModelInvStep ==
  ASSUME ModelInv, ModelNext \/ UNCHANGED modelVars
  PROVE  ModelInv'
<1> USE DEF ModelInv, PullIs, TmpIs, PullStages
<1>1. CASE UNCHANGED modelVars
  BY <1>1 DEF modelVars, DestVerified, TmpCleared
<1>2. ASSUME NEW p \in Puller, Pull(p)
      PROVE  ModelInv'
  BY <1>2 DEF Pull, DestVerified, TmpCleared
<1>3. ASSUME NEW p \in Puller, Connect(p)
      PROVE  ModelInv'
  BY <1>3 DEF Connect, DestVerified, TmpCleared
<1>4. ASSUME NEW p \in Puller, Receive(p)
      PROVE  ModelInv'
  BY <1>4 DEF Receive, DestVerified, TmpCleared
<1>5. ASSUME NEW p \in Puller, ReceiveFails(p)
      PROVE  ModelInv'
  BY <1>5 DEF ReceiveFails, GivesUpPull, TmpDropped, DestVerified, TmpCleared
<1>6. ASSUME NEW p \in Puller, BodyEnds(p)
      PROVE  ModelInv'
  BY <1>6 DEF BodyEnds, HashMatches, GivesUpPull, TmpDropped, DestVerified, TmpCleared
<1>7. ASSUME NEW p \in Puller, Persist(p)
      PROVE  ModelInv'
  BY <1>7 DEF Persist, GivesUpPull, TmpDropped, DestVerified, TmpCleared
<1>8. ASSUME NEW p \in Puller, KillPuller(p)
      PROVE  ModelInv'
  BY <1>8 DEF KillPuller, DestVerified, TmpCleared
<1>9. CASE Flush
  BY <1>9 DEF Flush, DestVerified, TmpCleared
<1>10. CASE PowerFails
  BY <1>10 DEF PowerFails, PullOver, DestVerified, TmpCleared
<1> QED
  BY <1>1, <1>2, <1>3, <1>4, <1>5, <1>6, <1>7, <1>8, <1>9, <1>10 DEF ModelNext, PullStep

\* DestVerified: however many pulls of one model overlap, fail or are killed, the store
\* holds none or the right one, and the right one once any has said OK.
THEOREM StoreHoldsVerified == Spec => []DestVerified
<1>1. Init => ModelInv
  BY ModelInitially DEF Init
<1>2. ModelInv /\ [Next]_vars => ModelInv'
  BY StepsOfSessions, ModelInvStep
<1>3. ModelInv => DestVerified
  BY DEF ModelInv
<1> QED
  BY <1>1, <1>2, <1>3, PTL DEF Spec

-----------------------------------------------------------------------------
(* The terminal UI.                                                        *)

\* Raw mode is left before the alternate screen, and nothing ends well or with an
\* error of the loop but by way of both.
TuiInv ==
  /\ terminal \in [raw : BOOLEAN, alternate : BOOLEAN]
  /\ tui = "leave" => ~terminal.raw
  /\ TerminalRestored

LEMMA TuiInitially == TuiInit => TuiInv
  BY DEF TuiInit, TuiInv, TerminalRestored

LEMMA TuiInvStep ==
  ASSUME TuiInv, TuiStep \/ UNCHANGED tuiVars
  PROVE  TuiInv'
<1> USE DEF TuiInv, TerminalRestored
<1>1. CASE UNCHANGED tuiVars
  BY <1>1 DEF tuiVars
<1>2. CASE \E r \in BOOLEAN : OpenTui(r, saved.report)
  BY <1>2 DEF OpenTui
<1>3. CASE EnableRaw \/ EnterAlternate \/ MakeTerminal
  BY <1>3 DEF EnableRaw, EnterAlternate, MakeTerminal, Proceeds, GivesUp
<1>4. CASE Move \/ Toggle
  BY <1>4 DEF Move, Toggle
<1>5. CASE Quit \/ LoopFails
  BY <1>5 DEF Quit, LoopFails, AfterFailure
<1>6. CASE DisableRaw
  BY <1>6 DEF DisableRaw, Proceeds, GivesUp
<1>7. CASE LeaveAlternate
  BY <1>7 DEF LeaveAlternate, Proceeds, GivesUp
<1> QED
  BY <1>1, <1>2, <1>3, <1>4, <1>5, <1>6, <1>7 DEF TuiStep, TuiNext

\* NothingLeftBehind: no pull that ends by itself leaves its temporary file, and the
\* terminal UI leaves the terminal as it found it, whatever report it showed and
\* whatever failed inside its loop.
THEOREM NothingIsLeftBehind == Spec => []NothingLeftBehind
<1>1. Init => ModelInv /\ TuiInv
  BY ModelInitially, TuiInitially DEF Init
<1>2. ModelInv /\ TuiInv /\ [Next]_vars => (ModelInv /\ TuiInv)'
  BY StepsOfSessions, ModelInvStep, TuiInvStep
<1>3. ModelInv /\ TuiInv => NothingLeftBehind
  BY DEF ModelInv, TuiInv, NothingLeftBehind
<1> QED
  BY <1>1, <1>2, <1>3, PTL DEF Spec

-----------------------------------------------------------------------------
(* The audit log.                                                          *)

\* What AuditLog_proofs shows of the log holds of it as a part of the whole: verify
\* accepts exactly the intact logs, one it accepts lacks nothing that was acknowledged,
\* what was acknowledged stays, and damage does.
THEOREM LogKeepsItsPromises ==
  Spec => []VerifyExact /\ []VerifiedMeansComplete /\ AckedStays /\ DamageIsPermanent
<1>1. Init => AuditInit
  BY DEF Init
<1>2. [Next]_vars => [AuditNext]_auditVars
  BY StepsOfSessions
<1>3. Spec => AuditSpec
  BY <1>1, <1>2, PTL DEF Spec, AuditSpec
<1> QED
  BY <1>3, VerifyIsExact, VerifiedIsComplete, AcknowledgedStays, NoDamageHeals

-----------------------------------------------------------------------------
(* One run of seck analyze.                                                *)

\* What AnalyzeTypeOK says of one run, and that its standard output is a record.
RunTyped ==
  /\ AnalyzeTypeOK
  /\ stdout = [log |-> stdout.log, what |-> stdout.what, report |-> stdout.report]

\* What a run started for the MCP server has made of the files it was given: an Ok
\* verdict is of all of them, and JSON on the standard output is that report.
RunWhole(files) ==
  /\ command.mode = "a"
  /\ fileset = files
  /\ verdict.status = "ok" => verdict.report = Sandboxed!CompleteReport(Len(files))
  /\ stdout.what = "json" =>
       stdout.report = Written("a", Sandboxed!CompleteReport(Len(files)))

LEMMA RunStarts ==
  ASSUME NEW mode \in Modes, NEW output \in Outputs, NEW files \in FileSets,
         logs' \in BOOLEAN, Start(mode, output, files)
  PROVE  RunTyped' /\ (mode = "a" => RunWhole(files)')
BY DEF Start, RunTyped, AnalyzeTypeOK, RunWhole, Nothing, Sandboxed!Pending

LEMMA RunStep ==
  ASSUME RunTyped, AnalyzeNext
  PROVE  RunTyped' /\ \A files : RunWhole(files) => RunWhole(files)'
<1> USE DEF RunTyped, AnalyzeTypeOK, RunWhole
<1>1. CASE LogLine
  BY <1>1 DEF LogLine
<1>2. CASE Refuses
  BY <1>2 DEF Refuses, Exit
<1>3. CASE Analyzes
  BY <1>3 DEF Analyzes, Sandboxed!Answer, Sandboxed!Ok, Sandboxed!Failed
<1>4. CASE Fails
  BY <1>4 DEF Fails, Exit
<1>5. CASE Prints
  <2>1. PICK report : report = Written(command.mode, verdict.report)
    OBVIOUS
  <2>2. /\ command.phase = "answered" /\ verdict.status = "ok"
        /\ UNCHANGED <<logs, fileset, verdict>>
        /\ \/ /\ stdout' = [stdout EXCEPT !.what = command.output, !.report = report]
              /\ Exit("ok")
           \/ UNCHANGED stdout /\ Exit("error")
    BY <1>5, <2>1 DEF Prints
  <2>3. RunTyped'
    BY <2>2 DEF Exit
  <2>4. ASSUME NEW files, RunWhole(files) PROVE RunWhole(files)'
    <3>1. report = Written("a", Sandboxed!CompleteReport(Len(files)))
      BY <2>1, <2>2, <2>4
    <3> HIDE DEF RunTyped, AnalyzeTypeOK
    <3>2. stdout' = [stdout EXCEPT !.what = command.output, !.report = report]
          => stdout'.report = report
      BY DEF RunTyped
    <3>3. command'.mode = command.mode
      BY <2>2 DEF Exit, RunTyped, AnalyzeTypeOK
    <3> QED BY <2>2, <2>4, <3>1, <3>2, <3>3
  <2> QED BY <2>3, <2>4
<1>6. CASE DiesPrinting
  BY <1>6 DEF DiesPrinting, Exit
<1> QED
  BY <1>1, <1>2, <1>3, <1>4, <1>5, <1>6 DEF AnalyzeNext

-----------------------------------------------------------------------------
(* The MCP server.                                                         *)

\* What is owed after the first n of some lines, and what some responses answer.
Ids(rs)        == [i \in DOMAIN rs |-> rs[i].id]
OwedOf(ls, n)  == Selected([i \in 1 .. n |-> i], {i \in 1 .. n : ls[i].id})
AnswersOf(rs)  == Selected(rs, {rs[i] : i \in {j \in DOMAIN rs : rs[j].id # 0}})

ReportsKnown == {NoReport} \cup {Written("a", Sandboxed!CompleteReport(n)) : n \in Nat}
Replies      == [id : Nat, ok : BOOLEAN, report : ReportsKnown]

LEMMA LinesFacts ==
  ASSUME NEW l \in Lines
  PROVE  /\ l.kind \in Kinds /\ l.id \in BOOLEAN
         /\ l.kind \notin Requests => ~l.id
         /\ l.kind = "analyze" => l.files \in FileSets
BY DEF Lines, Kinds, Requests

\* The positions 1 .. n.
LEMMA OneMorePosition ==
  ASSUME NEW n \in Nat
  PROVE  /\ [i \in 1 .. n |-> i] \in Seq(Nat)
         /\ [i \in 1 .. n + 1 |-> i] = Append([i \in 1 .. n |-> i], n + 1)
<1>1. PICK s : s = [i \in 1 .. n |-> i]
  OBVIOUS
<1>2. s \in [1 .. n -> Nat] /\ \A i \in 1 .. n : s[i] = i
  BY <1>1
<1>3. s \in Seq(Nat) /\ Len(s) = n
  BY <1>2
<1>4. PICK t : t = [i \in 1 .. n + 1 |-> i]
  OBVIOUS
<1>5. t \in [1 .. n + 1 -> Nat] /\ \A i \in 1 .. n + 1 : t[i] = i
  BY <1>4
<1>6. t \in Seq(Nat) /\ Len(t) = n + 1
  BY <1>5
<1>7. PICK u : u = Append(s, n + 1)
  OBVIOUS
<1>8. u \in Seq(Nat) /\ Len(u) = n + 1 /\ u[n + 1] = n + 1 /\ \A i \in 1 .. n : u[i] = s[i]
  BY <1>3, <1>7, AppendProperties
<1>9. \A i \in 1 .. n + 1 : t[i] = u[i]
  BY <1>2, <1>5, <1>8
<1>10. t = u
  BY <1>6, <1>8, <1>9, SeqEqual
<1> QED
  BY <1>1, <1>3, <1>4, <1>7, <1>10, Zenon

\* One more line is owed a response if it has an id.
LEMMA OwedGrows ==
  ASSUME NEW ls, NEW n \in Nat
  PROVE  OwedOf(ls, n + 1) = IF ls[n + 1].id THEN Append(OwedOf(ls, n), n + 1) ELSE OwedOf(ls, n)
<1> DEFINE S == {i \in 1 .. n : ls[i].id}
           T == {i \in 1 .. n + 1 : ls[i].id}
<1>1. PICK s \in Seq(Nat) : s = [i \in 1 .. n |-> i]
  BY OneMorePosition, Zenon
<1>2. OwedOf(ls, n + 1) = Selected(Append(s, n + 1), T)
  BY <1>1, OneMorePosition, Zenon DEF OwedOf
<1>3. OwedOf(ls, n) = Selected(s, S)
  BY <1>1, Zenon DEF OwedOf
<1>4. Len(s) = n /\ \A i \in 1 .. n : s[i] = i
  BY <1>1
<1>5. \A i \in 1 .. Len(s) : s[i] \in S <=> s[i] \in T
  BY <1>4
<1>6. n + 1 \in T <=> ls[n + 1].id
  OBVIOUS
<1> HIDE DEF S, T
<1>7. SelectAlike(s, S, T)
  BY <1>5, SelectedAlike, Zenon
<1>8. SelectedGrows(s, n + 1, T)
  <2>1. n + 1 \in Nat
    OBVIOUS
  <2> QED BY <2>1, SelectedAppend, Zenon
<1> QED
  BY <1>2, <1>3, <1>6, <1>7, <1>8, Zenon DEF SelectAlike, SelectedGrows

\* A response written counts as an answer if it carries an id.
LEMMA AnswersGrow ==
  ASSUME NEW rs \in Seq(Replies), NEW r \in Replies
  PROVE  /\ Append(rs, r) \in Seq(Replies)
         /\ Ids(AnswersOf(Append(rs, r))) =
              IF r.id # 0 THEN Append(Ids(AnswersOf(rs)), r.id) ELSE Ids(AnswersOf(rs))
<1>1. PICK t : t = Append(rs, r)
  OBVIOUS
<1>2. /\ t \in Seq(Replies) /\ Len(t) = Len(rs) + 1 /\ t[Len(rs) + 1] = r
      /\ \A i \in 1 .. Len(rs) : t[i] = rs[i]
  BY <1>1, AppendProperties
<1> DEFINE S == {rs[i] : i \in {j \in DOMAIN rs : rs[j].id # 0}}
           T == {t[i] : i \in {j \in DOMAIN t : t[j].id # 0}}
<1>3. DOMAIN rs = 1 .. Len(rs) /\ DOMAIN t = 1 .. Len(rs) + 1 /\ Len(rs) \in Nat
  BY <1>2
<1>4. ASSUME NEW i \in 1 .. Len(rs) PROVE rs[i] \in S <=> rs[i] \in T
  <2>1. rs[i] \in S <=> rs[i].id # 0
    BY <1>3
  <2>2. rs[i] \in T <=> rs[i].id # 0
    BY <1>2, <1>3
  <2> QED BY <2>1, <2>2
<1>5. r \in T <=> r.id # 0
  BY <1>2, <1>3
<1>6. AnswersOf(rs) = Selected(rs, S) /\ AnswersOf(t) = Selected(t, T)
  BY Zenon DEF AnswersOf
<1> HIDE DEF S, T
<1>7. SelectAlike(rs, S, T)
  BY <1>4, SelectedAlike, Zenon
<1>8. SelectedGrows(rs, r, T)
  BY SelectedAppend, Zenon
<1>9. AnswersOf(t) = IF r.id # 0 THEN Append(AnswersOf(rs), r) ELSE AnswersOf(rs)
  BY <1>1, <1>5, <1>6, <1>7, <1>8, Zenon DEF SelectAlike, SelectedGrows
<1>10. AnswersOf(rs) \in Seq(Replies)
  BY <1>6, SelectedType, Zenon
<1>11. Ids(Append(AnswersOf(rs), r)) = Append(Ids(AnswersOf(rs)), r.id)
  <2>1. PICK m \in [Replies -> Nat] : m = [q \in Replies |-> q.id]
    <3>1. [q \in Replies |-> q.id] \in [Replies -> Nat]
      BY DEF Replies
    <3> QED BY <3>1, Zenon
  <2>2. \A q \in Seq(Replies) : Ids(q) = Each(q, m)
    BY <2>1 DEF Ids, Each
  <2>3. Append(AnswersOf(rs), r) \in Seq(Replies)
    BY <1>10, AppendProperties
  <2>4. EachGrows(AnswersOf(rs), r, m)
    BY <1>10, EachOfOneMore, Zenon
  <2>5. m[r] = r.id
    BY <2>1
  <2> QED BY <1>10, <2>2, <2>3, <2>4, <2>5, Zenon DEF EachGrows
<1> QED
  BY <1>1, <1>2, <1>9, <1>11, Zenon

\* A response is an error if it has no id, and names the stored, whole report of the
\* files its request named.
Sound(r, ls, st) ==
  /\ r.id = 0 => ~r.ok
  /\ r.ok /\ ls[r.id].kind = "analyze" =>
       /\ r.report \in st
       /\ r.report = Written("a", Sandboxed!CompleteReport(Len(ls[r.id].files)))

\* How many lines have been dealt with.
Done == IF mcp \in {"analyzing", "writing"} THEN taken - 1 ELSE taken

McpShape ==
  /\ mcp \in {"off", "reading", "analyzing", "writing", "over"}
  /\ sent \in Seq(Lines)
  /\ taken \in 0 .. Len(sent)
  /\ replies \in Seq(Replies)
  /\ mcp # "off" => running = "mcp"
  /\ mcp = "off" => sent = <<>> /\ replies = <<>>
  /\ mcp \in {"analyzing", "writing"} => taken > 0
  /\ mcp \in {"reading", "analyzing", "writing"} /\ taken > 0 => sent[taken].kind # "binary"

\* What is under way.
McpUnderWay ==
  /\ mcp = "analyzing" => sent[taken].kind = "analyze" /\ RunWhole(sent[taken].files)
  /\ mcp = "writing" => /\ reply \in Replies
                        /\ reply.id = IF sent[taken].id THEN taken ELSE 0
                        /\ Sound(reply, sent, store)

McpMatch == mcp # "over" => Ids(AnswersOf(replies)) = OwedOf(sent, Done)

McpSound ==
  \A i \in 1 .. Len(replies) :
    replies[i].id \in 0 .. Len(sent) /\ Sound(replies[i], sent, store)

McpInv == McpShape /\ McpUnderWay /\ McpMatch /\ McpSound

LEMMA McpInitially == ASSUME Init PROVE McpInv
<1>1. /\ mcp = "off" /\ sent = <<>> /\ replies = <<>> /\ taken = 0
  BY DEF Init, McpInit
<1>2. McpShape /\ McpUnderWay /\ McpSound
  BY <1>1 DEF McpShape, McpUnderWay, McpSound
<1>3. McpMatch
  <2>1. AnswersOf(<<>>) = <<>>
    BY SelectedOfNone, Zenon DEF AnswersOf
  <2>2. Ids(<<>>) = <<>>
    BY DEF Ids
  <2>3. [i \in 1 .. 0 |-> i] = <<>>
    OBVIOUS
  <2>4. OwedOf(sent, 0) = <<>>
    BY <2>3, SelectedOfNone, Zenon DEF OwedOf
  <2>5. Done = 0
    BY <1>1 DEF Done
  <2> QED BY <1>1, <2>1, <2>2, <2>4, <2>5, Zenon DEF McpMatch
<1> QED
  BY <1>2, <1>3 DEF McpInv

\* The client sends another line.
LEMMA SendKeeps == ASSUME McpInv, Send, running' = running PROVE McpInv'
<1>1. PICK l \in Lines : sent' = Append(sent, l)
  BY DEF Send
<1>2. /\ mcp \notin {"off", "over"}
      /\ UNCHANGED <<mcp, taken, reply, replies, store, command, stdout, fileset, verdict>>
  BY DEF Send, Serving, analyzeVars
<1>3. sent \in Seq(Lines) /\ taken \in 0 .. Len(sent)
  BY DEF McpInv, McpShape
<1>4. /\ sent' \in Seq(Lines) /\ Len(sent') = Len(sent) + 1 /\ Len(sent) \in Nat
      /\ \A i \in 1 .. Len(sent) : sent'[i] = sent[i]
  BY <1>1, <1>3, AppendProperties
<1>5. taken > 0 => sent'[taken] = sent[taken]
  BY <1>3, <1>4
<1>6. \A r : r.id \in 0 .. Len(sent) /\ Sound(r, sent, store) => Sound(r, sent', store)
  BY <1>4 DEF Sound
<1>7. McpShape'
  BY <1>2, <1>3, <1>4, <1>5 DEF McpInv, McpShape
<1>8. McpUnderWay'
  <2>1. CASE mcp = "analyzing"
    BY <1>2, <1>5, <2>1 DEF McpInv, McpShape, McpUnderWay, RunWhole
  <2>2. CASE mcp = "writing"
    <3>1. taken > 0 /\ reply \in Replies /\ Sound(reply, sent, store)
          /\ reply.id = IF sent[taken].id THEN taken ELSE 0
      BY <2>2 DEF McpInv, McpShape, McpUnderWay
    <3>2. reply.id \in 0 .. Len(sent)
      BY <1>3, <1>4, <3>1
    <3>3. Sound(reply, sent', store)
      BY <1>6, <3>1, <3>2
    <3> QED BY <1>2, <1>5, <2>2, <3>1, <3>3 DEF McpUnderWay
  <2> QED BY <1>2, <2>1, <2>2 DEF McpUnderWay
<1>9. McpMatch'
  <2>1. Done \in 0 .. Len(sent) /\ Done' = Done
    BY <1>2, <1>3, <1>4 DEF McpInv, McpShape, Done
  <2>2. {i \in 1 .. Done : sent'[i].id} = {i \in 1 .. Done : sent[i].id}
    BY <1>4, <2>1
  <2>3. OwedOf(sent', Done) = OwedOf(sent, Done)
    BY <2>2, Zenon DEF OwedOf
  <2> QED BY <1>2, <2>1, <2>3 DEF McpInv, McpMatch
<1>10. McpSound'
  BY <1>2, <1>4, <1>6 DEF McpInv, McpSound
<1> QED
  BY <1>7, <1>8, <1>9, <1>10 DEF McpInv

\* The server takes the next line: what that says, and what is then owed.
LEMMA TakenLine ==
  ASSUME McpInv, TakeNext
  PROVE  /\ mcp = "reading" /\ taken' = taken + 1 /\ taken \in Nat /\ taken' \in 1 .. Len(sent)
         /\ Len(sent) \in Nat /\ sent[taken'] \in Lines
         /\ Ids(AnswersOf(replies)) = OwedOf(sent, taken)
         /\ ~sent[taken'].id => OwedOf(sent, taken') = OwedOf(sent, taken)
<1>1. mcp = "reading" /\ taken < Len(sent) /\ taken' = taken + 1
  BY DEF TakeNext
<1>2. sent \in Seq(Lines) /\ taken \in 0 .. Len(sent) /\ Len(sent) \in Nat
  BY DEF McpInv, McpShape
<1>3. taken \in Nat /\ taken' \in 1 .. Len(sent) /\ sent[taken'] \in Lines
  BY <1>1, <1>2
<1>4. Ids(AnswersOf(replies)) = OwedOf(sent, taken)
  BY <1>1 DEF McpInv, McpMatch, Done
<1>5. OwedOf(sent, taken + 1) =
        IF sent[taken + 1].id THEN Append(OwedOf(sent, taken), taken + 1) ELSE OwedOf(sent, taken)
  BY <1>3, OwedGrows, Zenon
<1> QED
  BY <1>1, <1>2, <1>3, <1>4, <1>5

LEMMA SkipKeeps == ASSUME McpInv, Skip, running' = running PROVE McpInv'
<1>1. TakeNext /\ sent[taken'].kind = "blank" /\ UNCHANGED <<mcp, sent, replies, reply, store>>
  BY DEF Skip, TakeNext
<1>2. ~sent[taken'].id
  BY <1>1, TakenLine, LinesFacts DEF Requests
<1>3. McpShape'
  BY <1>1, TakenLine DEF McpInv, McpShape
<1>4. McpUnderWay' /\ McpSound'
  BY <1>1, TakenLine DEF McpInv, McpUnderWay, McpSound
<1>5. McpMatch'
  BY <1>1, <1>2, TakenLine DEF McpMatch, Done
<1> QED
  BY <1>3, <1>4, <1>5 DEF McpInv

LEMMA OverKeeps ==
  ASSUME McpInv, NotText \/ WriteFails \/ InputEnds, running' = running
  PROVE  McpInv'
<1>1. mcp' = "over" /\ mcp # "off" /\ UNCHANGED <<sent, replies, store>>
  BY DEF NotText, TakeNext, WriteFails, InputEnds
<1>2. taken' \in 0 .. Len(sent)
  <2>1. CASE NotText
    BY <2>1, TakenLine DEF NotText
  <2>2. CASE ~NotText
    BY <2>2 DEF WriteFails, InputEnds, McpInv, McpShape
  <2> QED BY <2>1, <2>2
<1> QED
  BY <1>1, <1>2 DEF McpInv, McpShape, McpUnderWay, McpMatch, McpSound

LEMMA DispatchKeeps == ASSUME McpInv, Dispatch, running' = running PROVE McpInv'
<1> DEFINE line == sent[taken']
           r    == Response(taken', line.kind = "good", NoReport)
<1>1. /\ TakeNext /\ line.kind \in {"garbage", "good", "bad"}
      /\ Respond(r) /\ UNCHANGED <<sent, replies, store>>
  BY DEF Dispatch, TakeNext
<1>2. r \in Replies /\ r.id = (IF line.id THEN taken' ELSE 0) /\ (r.ok <=> line.kind = "good")
  <2>1. taken' \in Nat /\ NoReport \in ReportsKnown
    BY <1>1, TakenLine DEF ReportsKnown
  <2>2. (line.kind = "good") \in BOOLEAN
    OBVIOUS
  <2>3. (IF line.id THEN taken' ELSE 0) \in Nat
    BY <2>1
  <2> HIDE DEF line
  <2> QED BY <2>1, <2>2, <2>3 DEF Response, Replies, line
<1>3. line.kind # "binary" /\ taken' > 0
  BY <1>1, TakenLine
<1>4. CASE Suppressed(r)
  <2>1. mcp' = "reading" /\ ~line.id
    BY <1>1, <1>2, <1>4, TakenLine DEF Respond, Suppressed
  <2>2. McpShape'
    BY <1>1, <1>3, <2>1, TakenLine DEF McpInv, McpShape
  <2>3. McpUnderWay' /\ McpSound'
    BY <1>1, <2>1 DEF McpInv, McpUnderWay, McpSound
  <2>4. McpMatch'
    BY <1>1, <2>1, TakenLine DEF McpMatch, Done
  <2> QED BY <2>2, <2>3, <2>4 DEF McpInv
<1>5. CASE ~Suppressed(r)
  <2>1. mcp' = "writing" /\ reply' = r
    BY <1>1, <1>5 DEF Respond
  <2>2. Sound(r, sent, store)
    BY <1>2, <1>5, <1>3, TakenLine, <1>1 DEF Sound, Suppressed
  <2>3. McpShape'
    BY <1>1, <1>3, <2>1, TakenLine DEF McpInv, McpShape
  <2>4. McpUnderWay' /\ McpSound'
    BY <1>1, <1>2, <2>1, <2>2 DEF McpInv, McpUnderWay, McpSound
  <2>5. McpMatch'
    BY <1>1, <2>1, TakenLine DEF McpMatch, Done
  <2> QED BY <2>3, <2>4, <2>5 DEF McpInv
<1> QED
  BY <1>4, <1>5

LEMMA AnalyzeKeeps == ASSUME McpInv, RunTyped, Analyze, running' = running PROVE McpInv'
<1>1. /\ TakeNext /\ sent[taken'].kind = "analyze" /\ mcp' = "analyzing"
      /\ Start("a", "json", sent[taken'].files)
      /\ UNCHANGED <<sent, replies, reply, store, logs>>
  BY DEF Analyze, TakeNext
<1>2. PICK files \in FileSets : files = sent[taken'].files
  BY <1>1, TakenLine, LinesFacts
<1>3. RunWhole(files)'
  <2>1. logs' \in BOOLEAN /\ "a" \in Modes /\ "json" \in Outputs
    BY <1>1 DEF RunTyped, AnalyzeTypeOK, Modes, Outputs
  <2>2. Start("a", "json", files)
    BY <1>1, <1>2
  <2> QED BY <2>1, <2>2, RunStarts
<1>4. McpShape'
  BY <1>1, TakenLine DEF McpInv, McpShape
<1>5. McpUnderWay'
  BY <1>1, <1>2, <1>3 DEF McpUnderWay, RunWhole
<1>6. McpSound'
  BY <1>1 DEF McpInv, McpSound
<1>7. McpMatch'
  BY <1>1, TakenLine DEF McpMatch, Done
<1> QED
  BY <1>4, <1>5, <1>6, <1>7 DEF McpInv

LEMMA FilesCounted ==
  ASSUME NEW files \in FileSets
  PROVE  Len(files) \in Nat
<1>1. PICK n \in 0 .. MaxFiles : files \in [1 .. n -> {"file"}]
  BY DEF FileSets
<1>2. n \in Nat
  BY MaxFilesAssumption
<1> QED
  BY <1>1, <1>2

LEMMA AnalyzedKeeps == ASSUME McpInv, Analyzed, running' = running PROVE McpInv'
<1>1. /\ mcp = "analyzing" /\ UNCHANGED <<sent, taken, replies>>
      /\ IF Usable
         THEN store' = Stored(stdout.report) /\ Respond(Response(taken, TRUE, stdout.report))
         ELSE store' = store /\ Respond(Response(taken, FALSE, NoReport))
  BY DEF Analyzed
<1>2. /\ sent \in Seq(Lines) /\ taken \in 1 .. Len(sent) /\ taken \in Nat /\ sent[taken] \in Lines
      /\ sent[taken].kind = "analyze" /\ RunWhole(sent[taken].files)
  BY <1>1 DEF McpInv, McpShape, McpUnderWay
<1>3. PICK ok, report : /\ ok \in BOOLEAN /\ (ok <=> Usable)
                        /\ Respond(Response(taken, ok, report))
                        /\ report = IF Usable THEN stdout.report ELSE NoReport
  <2>1. CASE Usable
    BY <1>1, <2>1
  <2>2. CASE ~Usable
    BY <1>1, <2>2
  <2> QED BY <2>1, <2>2
<1>4. /\ store \subseteq store'
      /\ ok => /\ report \in store'
               /\ report = Written("a", Sandboxed!CompleteReport(Len(sent[taken].files)))
  BY <1>1, <1>2, <1>3 DEF Stored, Usable, IsJson, RunWhole
<1>5. report \in ReportsKnown
  <2>1. Len(sent[taken].files) \in Nat
    BY <1>2, LinesFacts, FilesCounted
  <2>2. CASE ok
    BY <1>4, <2>1, <2>2 DEF ReportsKnown
  <2>3. CASE ~ok
    BY <1>3, <2>3 DEF ReportsKnown
  <2> QED BY <2>2, <2>3
<1>6. PICK r : r = Response(taken, ok, report)
  OBVIOUS
<1>7. /\ r \in Replies /\ r.ok = ok /\ r.report = report
      /\ r.id = IF sent[taken].id THEN taken ELSE 0
  <2>1. (IF sent[taken].id THEN taken ELSE 0) \in Nat
    BY <1>2
  <2>2. ok \in BOOLEAN
    BY <1>3
  <2> QED BY <1>5, <1>6, <2>1, <2>2 DEF Response, Replies
<1>8. Respond(r)
  BY <1>3, <1>6
<1>9. Done \in Nat /\ Done = taken - 1 /\ Done + 1 = taken
  BY <1>1, <1>2 DEF Done
<1>10. Ids(AnswersOf(replies)) = OwedOf(sent, Done)
  BY <1>1 DEF McpInv, McpMatch
<1>11. McpSound'
  BY <1>1, <1>4 DEF McpInv, McpSound, Sound
<1>12. CASE Suppressed(r)
  <2>1. mcp' = "reading" /\ ~sent[taken].id
    BY <1>2, <1>7, <1>8, <1>12 DEF Respond, Suppressed
  <2>2. OwedOf(sent, taken) = OwedOf(sent, Done)
    BY <1>9, <2>1, OwedGrows
  <2>3. McpShape'
    BY <1>1, <1>2, <2>1 DEF McpInv, McpShape
  <2>4. McpUnderWay'
    BY <2>1 DEF McpUnderWay
  <2>5. McpMatch'
    BY <1>1, <1>10, <2>1, <2>2 DEF McpMatch, Done
  <2> QED BY <1>11, <2>3, <2>4, <2>5 DEF McpInv
<1>13. CASE ~Suppressed(r)
  <2>1. mcp' = "writing" /\ reply' = r
    BY <1>8, <1>13 DEF Respond
  <2>2. Sound(r, sent, store')
    BY <1>2, <1>4, <1>7, <1>13 DEF Sound, Suppressed
  <2>3. McpShape'
    BY <1>1, <1>2, <2>1 DEF McpInv, McpShape
  <2>4. McpUnderWay'
    BY <1>1, <1>7, <2>1, <2>2 DEF McpUnderWay
  <2>5. McpMatch'
    BY <1>1, <1>10, <2>1 DEF McpMatch, Done
  <2> QED BY <1>11, <2>3, <2>4, <2>5 DEF McpInv
<1> QED
  BY <1>12, <1>13

LEMMA WriteKeepsMcp == ASSUME McpInv, Write, running' = running PROVE McpInv'
<1>1. /\ mcp = "writing" /\ mcp' = "reading" /\ replies' = Append(replies, reply)
      /\ UNCHANGED <<sent, taken, store>>
  BY DEF Write
<1>2. /\ sent \in Seq(Lines) /\ taken \in 1 .. Len(sent) /\ taken \in Nat
      /\ replies \in Seq(Replies) /\ reply \in Replies
      /\ reply.id = (IF sent[taken].id THEN taken ELSE 0) /\ Sound(reply, sent, store)
  BY <1>1 DEF McpInv, McpShape, McpUnderWay
<1>3. Done \in Nat /\ Done + 1 = taken
  BY <1>1, <1>2 DEF Done
<1>4. /\ replies' \in Seq(Replies)
      /\ Ids(AnswersOf(replies')) =
           IF reply.id # 0 THEN Append(Ids(AnswersOf(replies)), reply.id)
           ELSE Ids(AnswersOf(replies))
  BY <1>1, <1>2, AnswersGrow, Zenon
<1>5. Ids(AnswersOf(replies)) = OwedOf(sent, Done)
  BY <1>1 DEF McpInv, McpMatch
<1>6. OwedOf(sent, taken) =
        IF sent[taken].id THEN Append(OwedOf(sent, Done), taken) ELSE OwedOf(sent, Done)
  BY <1>3, OwedGrows
<1>7. McpMatch'
  <2>1. Ids(AnswersOf(replies')) = OwedOf(sent, taken)
    BY <1>2, <1>4, <1>5, <1>6
  <2> QED BY <1>1, <2>1 DEF McpMatch, Done
<1>8. McpShape'
  BY <1>1, <1>2, <1>4 DEF McpInv, McpShape
<1>9. McpSound'
  <2>1. /\ Len(replies') = Len(replies) + 1 /\ replies'[Len(replies) + 1] = reply
        /\ \A i \in 1 .. Len(replies) : replies'[i] = replies[i]
    BY <1>1, <1>2, AppendProperties
  <2>2. \A i \in 1 .. Len(replies') : i \in 1 .. Len(replies) \/ i = Len(replies) + 1
    BY <1>2, <2>1
  <2>3. reply.id \in 0 .. Len(sent)
    BY <1>2
  <2> QED BY <1>1, <1>2, <2>1, <2>2, <2>3 DEF McpInv, McpSound
<1> QED
  BY <1>1, <1>7, <1>8, <1>9 DEF McpInv, McpUnderWay

LEMMA OthersKeepMcp ==
  ASSUME McpInv, RunTyped, Hear \/ HangUp \/ McpChild, running' = running
  PROVE  McpInv'
<1>1. UNCHANGED <<mcp, sent, taken, reply, replies, store>>
  BY DEF Hear, HangUp, McpChild, mcpVars
<1>2. mcp = "analyzing" => RunWhole(sent[taken].files)'
  <2> SUFFICES ASSUME mcp = "analyzing" PROVE RunWhole(sent[taken].files)'
    OBVIOUS
  <2>1. PICK files : files = sent[taken].files
    OBVIOUS
  <2>2. RunWhole(files)
    BY <2>1 DEF McpInv, McpUnderWay
  <2>3. RunWhole(files)'
    <3>1. CASE Hear \/ HangUp
      BY <2>2, <3>1 DEF Hear, HangUp, analyzeVars, RunWhole
    <3>2. CASE McpChild
      BY <2>2, <3>2, RunStep DEF McpChild
    <3> QED BY <3>1, <3>2
  <2> QED BY <1>1, <2>1, <2>3 DEF RunWhole
<1> QED
  BY <1>1, <1>2 DEF McpInv, McpShape, McpUnderWay, McpMatch, McpSound, Done

\* What the sessions do to the MCP server and to the analyses.
LEMMA StepsOfMcp ==
  ASSUME [Next]_vars
  PROVE  \/ UNCHANGED <<mcpVars, analyzeVars, running>>
         \/ running # "mcp" /\ UNCHANGED mcpVars /\ (AnalyzeNext \/ UNCHANGED analyzeVars)
         \/ /\ running # "mcp" /\ UNCHANGED mcpVars /\ logs' \in BOOLEAN
            /\ \E mode \in Modes, output \in Outputs, files \in FileSets :
                 Start(mode, output, files)
         \/ RunMcp
         \/ running = "mcp" /\ running' = running /\ McpNext
BY DEF Next, vars, RunAnalyze, AnalyzeSession, Save, Obtain, RunWeb, WebSession, RunTui, TuiSession,
       InMcp, RunModels, ModelSession, RunAudit, AuditSession, RunTrace, TraceSession, Fresh

LEMMA RunTypedStep == ASSUME RunTyped, McpInv, [Next]_vars PROVE RunTyped'
<1>1. CASE UNCHANGED analyzeVars
  BY <1>1 DEF RunTyped, AnalyzeTypeOK, analyzeVars
<1>2. CASE AnalyzeNext
  BY <1>2, RunStep
<1>3. ASSUME NEW mode \in Modes, NEW output \in Outputs, NEW files \in FileSets,
             Start(mode, output, files), logs' \in BOOLEAN
      PROVE  RunTyped'
  BY <1>3, RunStarts
<1>4. CASE RunMcp
  BY <1>4 DEF RunMcp, RunTyped, AnalyzeTypeOK
<1>5. CASE McpNext
  <2>1. CASE Analyze
    <3>1. TakeNext /\ sent[taken'].kind = "analyze"
          /\ Start("a", "json", sent[taken'].files) /\ logs' = logs
      BY <2>1 DEF Analyze
    <3>2. PICK files \in FileSets : files = sent[taken'].files
      BY <3>1, TakenLine, LinesFacts
    <3>3. logs' \in BOOLEAN /\ "a" \in Modes /\ "json" \in Outputs
      BY <3>1 DEF RunTyped, AnalyzeTypeOK, Modes, Outputs
    <3>4. Start("a", "json", files)
      BY <3>1, <3>2
    <3> QED BY <1>3, <3>3, <3>4
  <2>2. CASE McpChild
    BY <2>2, <1>2 DEF McpChild
  <2>3. CASE ~Analyze /\ ~McpChild
    BY <1>1, <1>5, <2>3 DEF McpNext, Server, Send, Hear, HangUp, Skip, NotText, Dispatch, Analyzed,
                            Write, WriteFails, InputEnds
  <2> QED BY <2>1, <2>2, <2>3
<1> QED
  BY <1>1, <1>2, <1>3, <1>4, <1>5, StepsOfMcp

LEMMA McpInvStep == ASSUME McpInv, RunTyped, [Next]_vars PROVE McpInv'
<1>1. CASE UNCHANGED <<mcpVars, analyzeVars, running>>
  BY <1>1 DEF mcpVars, analyzeVars, McpInv, McpShape, McpUnderWay, McpMatch, McpSound, Done, RunWhole
<1>2. CASE running # "mcp" /\ UNCHANGED mcpVars
  <2>1. mcp = "off" /\ UNCHANGED <<mcp, sent, taken, reply, replies, store>>
    BY <1>2 DEF McpInv, McpShape, mcpVars
  <2> QED BY <2>1 DEF McpInv, McpShape, McpUnderWay, McpMatch, McpSound, Done
<1>3. CASE RunMcp
  <2>1. /\ mcp = "off" /\ mcp' = "reading" /\ running' = "mcp"
        /\ UNCHANGED <<sent, taken, reply, replies, store>>
    BY <1>3 DEF RunMcp, Fresh, McpInv, McpShape
  <2>2. sent = <<>> /\ taken = 0
    BY <2>1 DEF McpInv, McpShape
  <2> QED BY <2>1, <2>2 DEF McpInv, McpShape, McpUnderWay, McpMatch, McpSound, Done
<1>4. CASE running' = running /\ McpNext
  BY <1>4, SendKeeps, OthersKeepMcp, SkipKeeps, OverKeeps, DispatchKeeps, AnalyzeKeeps,
     AnalyzedKeeps, WriteKeepsMcp DEF McpNext, Server
<1> QED
  BY <1>1, <1>2, <1>3, <1>4, StepsOfMcp

LEMMA McpAnswers == ASSUME McpInv PROVE AnswersExact
<1>1. mcp # "over" => [i \in DOMAIN Answers |-> Answers[i].id] = Owed
  <2> SUFFICES ASSUME mcp # "over" PROVE [i \in DOMAIN Answers |-> Answers[i].id] = Owed
    OBVIOUS
  <2>1. Finished = Done
    BY DEF McpInv, McpShape, Finished, Done
  <2>2. Answers = AnswersOf(replies)
    BY Zenon DEF Answers, AnswersOf
  <2>3. Owed = OwedOf(sent, Done)
    BY <2>1, Zenon DEF Owed, OwedOf
  <2> QED BY <2>2, <2>3, Zenon DEF McpInv, McpMatch, Ids
<1>2. DOMAIN replies = 1 .. Len(replies)
  BY DEF McpInv, McpShape
<1> QED
  BY <1>1, <1>2 DEF McpInv, McpSound, Sound, AnswersExact

LEMMA RunTypedInitially == ASSUME Init PROVE RunTyped
BY DEF Init, AnalyzeInit, RunTyped, AnalyzeTypeOK, Nothing, Sandboxed!Pending, Modes, Outputs

\* AnswersExact: however many requests a client sends, however far ahead of the answers
\* it runs and whatever becomes of the analyses, each request with an id has exactly one
\* answer, in the order of the requests, and an answer that names a report names the
\* stored, whole report of the files asked about.
THEOREM EachRequestAnswered == Spec => []AnswersExact
<1>1. Init => McpInv /\ RunTyped
  BY McpInitially, RunTypedInitially
<1>2. McpInv /\ RunTyped /\ [Next]_vars => (McpInv /\ RunTyped)'
  BY McpInvStep, RunTypedStep
<1>3. McpInv => AnswersExact
  BY McpAnswers
<1> QED
  BY <1>1, <1>2, <1>3, PTL DEF Spec

-----------------------------------------------------------------------------
(* The trace checker.                                                      *)

\* The effects a parser can make of the calls.
Effects == {c \in Calls : Recognised(c) /\ c.detail # "taintedArgs"}

\* Calls by what they are to the parser: an execve, or a call without arguments to drop.
Execs == {Call("execve", NoFd, t, d) : t \in BOOLEAN, d \in {"none", "taintedArgs"}}

\* A call whose effect is the call, and what such calls there are.
Plainly(c) ==
  /\ c.op # "execve" /\ c.detail # "taintedArgs" /\ EffectOf(c) = c
  /\ c.op = "write" => c.fd \in FdUsed
  /\ c.op = "connect" => c.detail \in {"inet", "inet6"}
  /\ c.op \in {"openat", "write"} => c.detail = "none"

LEMMA CallKinds == Execs \subseteq Calls /\ \A c \in Calls \ Execs : Plainly(c)
<1> DEFINE O == {Call("openat", NoFd, t, "none") : t \in BOOLEAN}
           W == {Call("write", f, t, "none") : f \in FdUsed, t \in BOOLEAN}
           R == {Call("read", 3, FALSE, "none")}
           C == {Call("connect", NoFd, FALSE, d) : d \in {"inet", "inet6"}}
           S == {Call("socket", NoFd, FALSE, "none")}
<1>1. Calls = O \cup Execs \cup W \cup R \cup C \cup S
  BY DEF Calls, Execs
<1>2. \A c \in O : Plainly(c)
  BY DEF Plainly, EffectOf, Call
<1>3. \A c \in W : Plainly(c)
  BY DEF Plainly, EffectOf, Call
<1>4. \A c \in R : Plainly(c)
  BY DEF Plainly, EffectOf, Call
<1>5. \A c \in C : Plainly(c)
  BY DEF Plainly, EffectOf, Call
<1>6. \A c \in S : Plainly(c)
  BY DEF Plainly, EffectOf, Call
<1> HIDE DEF O, W, R, C, S
<1> QED
  BY <1>1, <1>2, <1>3, <1>4, <1>5, <1>6

LEMMA EffectsOfCalls ==
  ASSUME NEW c \in Calls, Recognised(c)
  PROVE  EffectOf(c) \in Effects
<1>1. CASE c \in Execs
  <2>1. PICK t \in BOOLEAN, d \in {"none", "taintedArgs"} : c = Call("execve", NoFd, t, d)
    BY <1>1 DEF Execs
  <2>2. EffectOf(c) = Call("execve", NoFd, t, "none")
    BY <2>1 DEF EffectOf, Call
  <2>3. Call("execve", NoFd, t, "none") \in Execs
    BY <2>1 DEF Execs
  <2>4. /\ Call("execve", NoFd, t, "none").op = "execve"
        /\ Call("execve", NoFd, t, "none").detail = "none"
    BY DEF Call
  <2> QED BY <2>2, <2>3, <2>4, CallKinds DEF Effects, Recognised
<1>2. CASE c \notin Execs
  <2>1. Plainly(c)
    BY <1>2, CallKinds, Zenon
  <2> QED BY <2>1 DEF Plainly, Effects
<1> QED
  BY <1>1, <1>2
\* What one more line adds to what the parser makes of them.
LEMMA ParseGrows ==
  ASSUME NEW ls \in Seq(TraceLine), NEW l \in TraceLine
  PROVE  /\ Parse(ls) \in Seq(Effects)
         /\ Parse(Append(ls, l)) =
              IF l \in Parsed THEN Append(Parse(ls), EffectOf(l.call)) ELSE Parse(ls)
<1>1. PICK m : m = [k \in Parsed |-> EffectOf(k.call)]
  OBVIOUS
<1>2. m \in [Parsed -> Effects]
  <2>1. \A k \in Parsed : EffectOf(k.call) \in Effects
    BY EffectsOfCalls DEF Parsed, TraceLine
  <2> QED BY <1>1, <2>1
<1>3. \A q \in Seq(TraceLine) : Selected(q, Parsed) \in Seq(Parsed)
  <2>1. TraceLine \cap Parsed = Parsed
    BY DEF Parsed
  <2> QED BY <2>1, SelectedMembers, Zenon
<1>4. \A q \in Seq(TraceLine) : Parse(q) = Each(Selected(q, Parsed), m)
  <2> TAKE q \in Seq(TraceLine)
  <2>1. PICK k \in Seq(Parsed) : k = Selected(q, Parsed)
    BY <1>3
  <2>2. Parse(q) = [i \in DOMAIN k |-> EffectOf(k[i].call)]
    BY <2>1, Zenon DEF Parse
  <2>3. \A i \in DOMAIN k : k[i] \in Parsed
    BY <2>1
  <2>4. \A i \in DOMAIN k : m[k[i]] = EffectOf(k[i].call)
    BY <1>1, <2>3
  <2> QED BY <2>1, <2>2, <2>4 DEF Each
<1>5. PICK seen \in Seq(Parsed) : seen = Selected(ls, Parsed)
  BY <1>3
<1>6. Parse(ls) = Each(seen, m) /\ Each(seen, m) \in Seq(Effects)
  BY <1>2, <1>4, <1>5, EachType, Zenon
<1>7. Append(ls, l) \in Seq(TraceLine)
  BY AppendProperties
<1>8. SelectedGrows(ls, l, Parsed)
  BY SelectedAppend, Zenon
<1>9. CASE l \in Parsed
  <2>1. EachGrows(seen, l, m)
    BY <1>2, <1>9, EachOfOneMore, Zenon
  <2>2. m[l] = EffectOf(l.call)
    BY <1>1, <1>9
  <2>3. Selected(Append(ls, l), Parsed) = Append(seen, l)
    BY <1>5, <1>8, <1>9, Zenon DEF SelectedGrows
  <2> QED BY <1>4, <1>6, <1>7, <1>9, <2>1, <2>2, <2>3, Zenon DEF EachGrows
<1>10. CASE l \notin Parsed
  BY <1>4, <1>5, <1>6, <1>7, <1>8, <1>10, Zenon DEF SelectedGrows
<1> QED
  BY <1>9, <1>10

\* What is to be made of some calls, and what one more adds.
KnownOf(calls) ==
  LET known == Selected(calls, {c \in Calls : Recognised(c)})
  IN  [i \in DOMAIN known |-> EffectOf(known[i])]

LEMMA KnownGrows ==
  ASSUME NEW cs \in Seq(Calls), NEW c \in Calls
  PROVE  KnownOf(Append(cs, c)) =
           IF Recognised(c) THEN Append(KnownOf(cs), EffectOf(c)) ELSE KnownOf(cs)
<1>1. PICK K : K = {k \in Calls : Recognised(k)}
  OBVIOUS
<1>2. PICK m : m = [k \in K |-> EffectOf(k)]
  OBVIOUS
<1>3. m \in [K -> Effects]
  BY <1>1, <1>2, EffectsOfCalls
<1>4. \A q \in Seq(Calls) : Selected(q, K) \in Seq(K)
  <2>1. Calls \cap K = K
    BY <1>1
  <2> QED BY <2>1, SelectedMembers, Zenon
<1>5. \A q \in Seq(Calls) : KnownOf(q) = Each(Selected(q, K), m)
  <2> TAKE q \in Seq(Calls)
  <2>1. PICK k \in Seq(K) : k = Selected(q, K)
    BY <1>4
  <2>2. KnownOf(q) = [i \in DOMAIN k |-> EffectOf(k[i])]
    BY <1>1, <2>1, Zenon DEF KnownOf
  <2>3. \A i \in DOMAIN k : m[k[i]] = EffectOf(k[i])
    BY <1>2, <2>1
  <2> QED BY <2>1, <2>2, <2>3 DEF Each
<1>6. PICK known \in Seq(K) : known = Selected(cs, K)
  BY <1>4
<1>7. Append(cs, c) \in Seq(Calls)
  BY AppendProperties
<1>8. SelectedGrows(cs, c, K)
  BY SelectedAppend, Zenon
<1>9. c \in K <=> Recognised(c)
  BY <1>1
<1>10. CASE c \in K
  <2>1. EachGrows(known, c, m)
    BY <1>3, <1>10, EachOfOneMore, Zenon
  <2>2. m[c] = EffectOf(c)
    BY <1>2, <1>10
  <2>3. Selected(Append(cs, c), K) = Append(known, c)
    BY <1>6, <1>8, <1>10, Zenon DEF SelectedGrows
  <2> QED BY <1>5, <1>6, <1>7, <1>9, <1>10, <2>1, <2>2, <2>3, Zenon DEF EachGrows
<1>11. CASE c \notin K
  BY <1>5, <1>6, <1>7, <1>8, <1>9, <1>11, Zenon DEF SelectedGrows
<1> QED
  BY <1>10, <1>11

\* Whether a call has nothing in it that the checker sees and fails a trace for.
Harmless(c) == Offends(c) => OutOfSight(c)

LEMMA ForbiddenIsHarmful ==
  ASSUME NEW c \in Calls
  PROVE  Harmless(c) <=> (Recognised(c) => ~Forbidden(EffectOf(c)))
<1>1. CASE c \in Execs
  <2>1. PICK t \in BOOLEAN, d \in {"none", "taintedArgs"} : c = Call("execve", NoFd, t, d)
    BY <1>1 DEF Execs
  <2> QED BY <2>1 DEF Harmless, Offends, OutOfSight, Forbidden, EffectOf, Recognised, Call
<1>2. CASE c \notin Execs
  <2>1. Plainly(c)
    BY <1>2, CallKinds, Zenon
  <2>2. c.op \in {"openat", "write", "connect"} /\ c.detail # "inet6" => Recognised(c)
    BY DEF Recognised
  <2> QED BY <2>1, <2>2
      DEF Plainly, Harmless, Offends, OutOfSight, Forbidden, Recognised, FdUsed,
          ALLOWED_TAINTED_WRITE_FDS
<1> QED
  BY <1>1, <1>2

\* Whether all of some effects are allowed, and all of some calls harmless.
AllAllowed(es)  == \A i \in 1 .. Len(es) : ~Forbidden(es[i])
AllHarmless(cs) == \A i \in 1 .. Len(cs) : Harmless(cs[i])

LEMMA OneMoreAllowed ==
  ASSUME NEW es \in Seq(Effects), NEW e \in Effects
  PROVE  AllAllowed(Append(es, e)) <=> AllAllowed(es) /\ ~Forbidden(e)
<1>1. PICK t : t = Append(es, e)
  OBVIOUS
<1>2. /\ Len(t) = Len(es) + 1 /\ Len(es) \in Nat /\ t[Len(es) + 1] = e
      /\ \A i \in 1 .. Len(es) : t[i] = es[i]
  BY <1>1, AppendProperties
<1>3. \A i \in 1 .. Len(t) : i \in 1 .. Len(es) \/ i = Len(es) + 1
  BY <1>2
<1>4. \A i \in 1 .. Len(es) : i \in 1 .. Len(t)
  BY <1>2
<1>5. Len(es) + 1 \in 1 .. Len(t)
  BY <1>2
<1> QED
  BY <1>1, <1>2, <1>3, <1>4, <1>5, Zenon DEF AllAllowed

LEMMA OneMoreHarmless ==
  ASSUME NEW cs \in Seq(Calls), NEW c \in Calls
  PROVE  AllHarmless(Append(cs, c)) <=> AllHarmless(cs) /\ Harmless(c)
<1>1. PICK t : t = Append(cs, c)
  OBVIOUS
<1>2. /\ Len(t) = Len(cs) + 1 /\ Len(cs) \in Nat /\ t[Len(cs) + 1] = c
      /\ \A i \in 1 .. Len(cs) : t[i] = cs[i]
  BY <1>1, AppendProperties
<1>3. \A i \in 1 .. Len(t) : i \in 1 .. Len(cs) \/ i = Len(cs) + 1
  BY <1>2
<1>4. \A i \in 1 .. Len(cs) : i \in 1 .. Len(t)
  BY <1>2
<1>5. Len(cs) + 1 \in 1 .. Len(t)
  BY <1>2
<1> QED
  BY <1>1, <1>2, <1>3, <1>4, <1>5, Zenon DEF AllHarmless

\* A trace passes if none of its effects is forbidden.
LEMMA PassesIfNoneForbidden ==
  ASSUME NEW ls, Parse(ls) \in Seq(Effects)
  PROVE  Passes(ls) <=> AllAllowed(Parse(ls))
<1>1. PICK es \in Seq(Effects) : es = Parse(ls)
  OBVIOUS
<1> DEFINE I == {i \in 1 .. Len(es) : Forbidden(es[i])}
<1>2. Culprit(es) = IF I # {} THEN Min(I) ELSE 0
  BY Zenon DEF Culprit, SelectInSeq
<1>3. I # {} => Min(I) # 0
  <2> SUFFICES ASSUME I # {} PROVE Min(I) # 0
    OBVIOUS
  <2>1. I \in SUBSET Nat
    OBVIOUS
  <2>2. Min(I) \in I
    <3> HIDE DEF I
    <3> QED BY <2>1, LeastNat DEF Min
  <2> QED BY <2>2
<1> QED
  BY <1>1, <1>2, <1>3 DEF Passes, AllAllowed

\* The line a thread is on is the last one, begun and not complete; all lines start
\* alike; the parser has made of the lines so far what is to be made of the calls, or
\* nothing if they begin with a number.
TraceInv ==
  /\ style \in Style \cup {"none"}
  /\ made \in Seq(Calls)
  /\ trace \in Seq(TraceLine)
  /\ busy \in [Thread -> Calls \cup {Idle}]
  /\ current \subseteq Thread
  /\ style = "none" => trace = <<>> /\ busy = [t \in Thread |-> Idle]
  /\ \A i \in 1 .. Len(trace) : trace[i].start = style
  /\ \A t \in current : Len(trace) > 0 /\ trace[Len(trace)].part = "begun"
  /\ style # "number" =>
       Parse(trace) = KnownOf(made) /\ (AllAllowed(Parse(trace)) <=> AllHarmless(made))
  /\ style = "number" => Parse(trace) = <<>>
  /\ Parse(trace) \in Seq(Effects)

LEMMA TraceInitially == TraceInit => TraceInv
<1> SUFFICES ASSUME TraceInit PROVE TraceInv
  OBVIOUS
<1>1. Parse(<<>>) = <<>> /\ KnownOf(<<>>) = <<>>
  BY SelectedOfNone DEF Parse, KnownOf
<1>2. style = "none" /\ made = <<>> /\ trace = <<>> /\ current = {}
      /\ busy = [t \in Thread |-> Idle]
  BY DEF TraceInit
<1>3. Parse(trace) = <<>> /\ KnownOf(made) = <<>>
  BY <1>1, <1>2
<1>4. busy \in [Thread -> Calls \cup {Idle}]
  BY <1>2
<1>5. Len(trace) = 0 /\ <<>> \in Seq(Calls) /\ <<>> \in Seq(TraceLine) /\ <<>> \in Seq(Effects)
  BY <1>2
<1>6. \A i \in 1 .. Len(trace) : trace[i].start = style
  BY <1>5
<1>7. Parse(trace) = KnownOf(made) /\ Parse(trace) \in Seq(Effects)
  BY <1>3, <1>5
<1>8. AllAllowed(Parse(trace)) /\ AllHarmless(made)
  BY <1>2, <1>3 DEF AllAllowed, AllHarmless
<1> QED
  BY <1>2, <1>4, <1>5, <1>6, <1>7, <1>8, Zenon DEF TraceInv

LEMMA EnterKeeps == ASSUME TraceInv, NEW t \in Thread, Enter(t) PROVE TraceInv'
<1>1. PICK c \in Calls : /\ busy' = [busy EXCEPT ![t] = c]
                         /\ made' = Append(made, c)
                         /\ trace' = WithLine("begun", c)
  BY DEF Enter
<1>2. style \in Style /\ style # "none" /\ style' = style /\ current' = {t}
  BY DEF Enter, TraceInv
<1>3. PICK l : l = [start |-> style, part |-> "begun", call |-> c]
  OBVIOUS
<1>4. l \in TraceLine /\ l.start = style /\ l.part = "begun" /\ l.call = c
  BY <1>2, <1>3 DEF TraceLine
<1>5. trace' = Append(trace, l)
  BY <1>1, <1>3 DEF WithLine
<1>6. /\ trace' \in Seq(TraceLine) /\ Len(trace') = Len(trace) + 1 /\ Len(trace) \in Nat
      /\ trace'[Len(trace) + 1] = l /\ \A i \in 1 .. Len(trace) : trace'[i] = trace[i]
  BY <1>4, <1>5, AppendProperties DEF TraceInv
<1>7. \A i \in 1 .. Len(trace') : trace'[i].start = style
  <2> TAKE i \in 1 .. Len(trace')
  <2>1. i \in 1 .. Len(trace) \/ i = Len(trace) + 1
    BY <1>6
  <2> QED BY <1>4, <1>6, <2>1 DEF TraceInv
<1>8. made' \in Seq(Calls) /\ busy' \in [Thread -> Calls \cup {Idle}]
  BY <1>1, AppendProperties DEF TraceInv
<1>9. /\ Parse(trace) \in Seq(Effects)
      /\ Parse(trace') = IF l \in Parsed THEN Append(Parse(trace), EffectOf(c)) ELSE Parse(trace)
  BY <1>4, <1>5, ParseGrows DEF TraceInv
<1>10. Parse(trace') \in Seq(Effects)
  <2>1. l \in Parsed => EffectOf(c) \in Effects
    BY <1>4, EffectsOfCalls DEF Parsed
  <2> QED BY <1>9, <2>1, AppendProperties
<1>12. ASSUME style = "number" PROVE Parse(trace') = <<>>
  <2>1. l \notin Parsed
    BY <1>4, <1>12 DEF Parsed, BodyInView
  <2> QED BY <1>9, <1>12, <2>1 DEF TraceInv
<1>11. ASSUME style # "number"
       PROVE  Parse(trace') = KnownOf(made') /\ (AllAllowed(Parse(trace')) <=> AllHarmless(made'))
  <2>1. l \in Parsed <=> Recognised(c)
    BY <1>2, <1>4, <1>11, StyleAssumption DEF Parsed, BodyInView, NamesCall
  <2>2. KnownOf(made') = IF Recognised(c) THEN Append(KnownOf(made), EffectOf(c)) ELSE KnownOf(made)
    BY <1>1, KnownGrows DEF TraceInv
  <2>3. Parse(trace) = KnownOf(made)
    BY <1>11 DEF TraceInv
  <2>4. AllAllowed(Parse(trace)) <=> AllHarmless(made)
    BY <1>11 DEF TraceInv
  <2>5. AllHarmless(made') <=> AllHarmless(made) /\ Harmless(c)
    BY <1>1, OneMoreHarmless DEF TraceInv
  <2>6. Harmless(c) <=> (Recognised(c) => ~Forbidden(EffectOf(c)))
    BY ForbiddenIsHarmful
  <2>7. CASE Recognised(c)
    <3>1. EffectOf(c) \in Effects /\ Parse(trace') = Append(Parse(trace), EffectOf(c))
      BY <1>9, <2>1, <2>7, EffectsOfCalls
    <3>2. AllAllowed(Parse(trace')) <=> AllAllowed(Parse(trace)) /\ ~Forbidden(EffectOf(c))
      BY <1>9, <3>1, OneMoreAllowed, Zenon
    <3> QED BY <2>2, <2>3, <2>4, <2>5, <2>6, <2>7, <3>1, <3>2, Zenon
  <2>8. CASE ~Recognised(c)
    BY <1>9, <2>1, <2>2, <2>3, <2>4, <2>5, <2>6, <2>8, Zenon
  <2> QED BY <2>7, <2>8
<1> QED
  BY <1>2, <1>4, <1>6, <1>7, <1>8, <1>10, <1>11, <1>12 DEF TraceInv

\* A line completed is parsed as it was before.
LEMMA CompletedAlike ==
  ASSUME NEW ls \in Seq(TraceLine), Len(ls) > 0, ls[Len(ls)].part = "begun"
  PROVE  LET ms == [ls EXCEPT ![Len(ls)].part = "whole"]
         IN  /\ ms \in Seq(TraceLine) /\ Len(ms) = Len(ls)
             /\ \A i \in 1 .. Len(ls) : ms[i].start = ls[i].start
             /\ Parse(ms) = Parse(ls)
<1>1. PICK N \in Nat : N = Len(ls) /\ N > 0
  OBVIOUS
<1>2. PICK front : front = SubSeq(ls, 1, N - 1)
  OBVIOUS
<1>3. /\ front \in Seq(TraceLine) /\ Len(front) = N - 1
      /\ \A i \in 1 .. N - 1 : front[i] = ls[i]
  BY <1>1, <1>2
<1>4. PICK l \in TraceLine : l = ls[N]
  BY <1>1
<1>5. PICK m : m = [l EXCEPT !.part = "whole"]
  OBVIOUS
<1>6. m \in TraceLine /\ m.start = l.start /\ m.call = l.call /\ m.part = "whole"
  BY <1>4, <1>5 DEF TraceLine
<1>7. PICK ms : ms = [ls EXCEPT ![Len(ls)].part = "whole"]
  OBVIOUS
<1>8. /\ ms \in Seq(TraceLine) /\ Len(ms) = N /\ ms[N] = m
      /\ \A i \in 1 .. N - 1 : ms[i] = ls[i]
  <2>0. DOMAIN ls = 1 .. N /\ N \in 1 .. N
    BY <1>1
  <2>1. ms = [i \in 1 .. N |-> IF i = N THEN m ELSE ls[i]]
    BY <1>1, <1>4, <1>5, <1>7, <2>0
  <2>2. ms \in [1 .. N -> TraceLine]
    BY <1>1, <1>6, <2>1
  <2> QED BY <1>1, <2>1, <2>2
<1>9. Append(front, l) = ls
  BY <1>1, <1>3, <1>4
<1>10. Append(front, m) = ms
  BY <1>1, <1>3, <1>6, <1>8
<1>11. l \in Parsed <=> m \in Parsed
  BY <1>1, <1>4, <1>6 DEF Parsed, BodyInView, NamesCall
<1>12. Parse(ms) = Parse(ls)
  BY <1>3, <1>6, <1>9, <1>10, <1>11, ParseGrows, Zenon
<1>13. \A i \in 1 .. N : ms[i].start = ls[i].start
  BY <1>1, <1>4, <1>6, <1>8
<1> QED
  BY <1>1, <1>7, <1>8, <1>12, <1>13, Zenon

LEMMA ReturnKeeps == ASSUME TraceInv, NEW t \in Thread, Return(t) PROVE TraceInv'
<1>1. /\ busy[t] # Idle /\ busy' = [busy EXCEPT ![t] = Idle]
      /\ current' = {} /\ style' = style /\ made' = made
  BY DEF Return
<1>2. busy[t] \in Calls /\ busy' \in [Thread -> Calls \cup {Idle}]
  BY <1>1 DEF TraceInv
<1>3. style \in Style /\ style # "none"
  BY <1>1 DEF TraceInv
<1>4. CASE t \in current
  <2>1. trace' = [trace EXCEPT ![Len(trace)].part = "whole"]
    BY <1>4 DEF Return
  <2>2. trace \in Seq(TraceLine) /\ Len(trace) > 0 /\ trace[Len(trace)].part = "begun"
    BY <1>4 DEF TraceInv
  <2>3. /\ trace' \in Seq(TraceLine) /\ Len(trace') = Len(trace)
        /\ \A i \in 1 .. Len(trace) : trace'[i].start = trace[i].start
        /\ Parse(trace') = Parse(trace)
    BY <2>1, <2>2, CompletedAlike, Zenon
  <2> QED BY <1>1, <1>2, <1>3, <2>3 DEF TraceInv
<1>5. CASE t \notin current
  <2>1. PICK l : l = [start |-> style, part |-> "resumed", call |-> busy[t]]
    OBVIOUS
  <2>2. l \in TraceLine /\ l \notin Parsed /\ l.start = style
    BY <1>2, <1>3, <2>1 DEF TraceLine, Parsed, NamesCall
  <2>3. trace' = Append(trace, l)
    BY <1>5, <2>1 DEF Return, WithLine
  <2>4. /\ trace' \in Seq(TraceLine) /\ Len(trace') = Len(trace) + 1 /\ Len(trace) \in Nat
        /\ trace'[Len(trace) + 1] = l /\ \A i \in 1 .. Len(trace) : trace'[i] = trace[i]
    BY <2>2, <2>3, AppendProperties DEF TraceInv
  <2>5. Parse(trace') = Parse(trace)
    BY <2>2, <2>3, ParseGrows DEF TraceInv
  <2>6. \A i \in 1 .. Len(trace') : trace'[i].start = style
    <3> TAKE i \in 1 .. Len(trace')
    <3>1. i \in 1 .. Len(trace) \/ i = Len(trace) + 1
      BY <2>4
    <3> QED BY <2>2, <2>4, <3>1 DEF TraceInv
  <2> QED BY <1>1, <1>2, <1>3, <2>4, <2>5, <2>6 DEF TraceInv
<1> QED
  BY <1>4, <1>5

LEMMA TraceInvStep ==
  ASSUME TraceInv, TraceNext \/ UNCHANGED traceVars
  PROVE  TraceInv'
<1>1. CASE UNCHANGED traceVars
  BY <1>1 DEF traceVars, TraceInv
<1>2. CASE Attach
  <2>1. trace = <<>> /\ UNCHANGED <<made, trace, busy, current>> /\ style' \in Style
    BY <1>2 DEF Attach, TraceInv
  <2>2. Parse(trace) = <<>>
    BY <2>1, SelectedOfNone DEF Parse
  <2>3. /\ Len(trace) = 0
        /\ Parse(trace) = KnownOf(made) /\ (AllAllowed(Parse(trace)) <=> AllHarmless(made))
    BY <1>2, <2>1 DEF Attach, TraceInv
  <2> QED BY <1>2, <2>1, <2>2, <2>3 DEF Attach, TraceInv
<1> QED
  BY <1>1, <1>2, EnterKeeps, ReturnKeeps DEF TraceNext, Traced

\* What the invariant says of the verdict.
LEMMA TraceReads ==
  ASSUME TraceInv
  PROVE  /\ TraceTypeOK
         /\ Style \subseteq {"bare", "bracket"} => EffectsAreCalls
         /\ VerdictsHold
         /\ style = "number" => Passes(trace)
<1>1. TraceTypeOK
  BY DEF TraceInv, TraceTypeOK, Effects
<1>2. ASSUME Style \subseteq {"bare", "bracket"} PROVE EffectsAreCalls
  <2>1. style # "number"
    BY <1>2 DEF TraceInv
  <2> QED BY <2>1, Zenon DEF TraceInv, EffectsAreCalls, KnownOf
<1>3. Passes(trace) <=> AllAllowed(Parse(trace))
  BY PassesIfNoneForbidden DEF TraceInv
<1>4. style = "number" => Passes(trace)
  <2>1. AllAllowed(<<>>)
    BY DEF AllAllowed
  <2> QED BY <1>3, <2>1 DEF TraceInv
<1>5. style # "number" => (Passes(trace) <=> AllHarmless(made))
  BY <1>3, Zenon DEF TraceInv
<1>6. DOMAIN made = 1 .. Len(made)
  BY DEF TraceInv
<1>7. VerdictsHold
  BY <1>4, <1>5, <1>6, Zenon DEF VerdictsHold, AllHarmless, Harmless
<1> QED
  BY <1>1, <1>2, <1>4, <1>7

\* EffectsAreCalls: however the calls of any number of threads run into one another,
\* the parser makes one effect of each call it knows, in the order the calls began.
\* That is for traces whose lines begin as the parser expects; the others have a run of
\* their own, MCTraceCheck_file, that shows them not read.
THEOREM TracesReadRightly ==
  ASSUME Style \subseteq {"bare", "bracket"}
  PROVE  Spec => []EffectsAreCalls
<1>1. Init => TraceInv
  BY TraceInitially DEF Init
<1>2. TraceInv /\ [Next]_vars => TraceInv'
  BY StepsOfSessions, TraceInvStep
<1>3. TraceInv => EffectsAreCalls
  BY TraceReads
<1> QED
  BY <1>1, <1>2, <1>3, PTL DEF Spec

\* VerdictsHold: of any number of threads, and however lines begin, a trace without an
\* offending call passes; and if lines begin as the parser expects, one that passes has
\* no offending call where the parser looks.
THEOREM TracesJudgedRightly == Spec => []VerdictsHold
<1>1. Init => TraceInv
  BY TraceInitially DEF Init
<1>2. TraceInv /\ [Next]_vars => TraceInv'
  BY StepsOfSessions, TraceInvStep
<1>3. TraceInv => VerdictsHold
  BY TraceReads
<1> QED
  BY <1>1, <1>2, <1>3, PTL DEF Spec

\* What MCTraceCheck_file shows in one trace holds of all: written with strace -f -o,
\* a trace passes whatever was done in it.
THEOREM NumberedTracesPass == Spec => [](style = "number" => Passes(trace))
<1>1. Init => TraceInv
  BY TraceInitially DEF Init
<1>2. TraceInv /\ [Next]_vars => TraceInv'
  BY StepsOfSessions, TraceInvStep
<1>3. TraceInv => (style = "number" => Passes(trace))
  BY TraceReads
<1> QED
  BY <1>1, <1>2, <1>3, PTL DEF Spec

-----------------------------------------------------------------------------
(* The sanitizer.                                                          *)

Scans == [mode : {"text", "escape", "csi", "osc", "terminator"}, out : Seq(Char)]

LEMMA PushedType ==
  ASSUME NEW out \in Seq(Char), NEW c \in Char
  PROVE  Pushed(out, c) \in Seq(Char)
BY AppendProperties DEF Pushed

LEMMA StepType ==
  ASSUME NEW s \in Scans, NEW c \in Char
  PROVE  Step(s, c) \in Scans
<1>1. \A q \in Scans : InText(q, c) \in Scans
  <2> TAKE q \in Scans
  <2>1. Pushed(q.out, c) \in Seq(Char)
    BY PushedType DEF Scans
  <2> QED BY <2>1 DEF InText, Scans
<1>2. [s EXCEPT !.mode = "text"] \in Scans
  BY DEF Scans
<1>3. AfterEscape(s, c) \in Scans
  BY <1>1, <1>2 DEF AfterEscape, Scans
<1> QED
  BY <1>1, <1>2, <1>3 DEF Step, InCsi, InOsc, Scans

\* What each prefix of a text has been made into.
ScansOf(A, text) ==
  /\ A[0] = [mode |-> "text", out |-> <<>>]
  /\ \A n \in 1 .. Len(text) : A[n] = Step(A[n - 1], text[n])

LEMMA ScanRuns ==
  ASSUME NEW text \in Seq(Char)
  PROVE  \E A \in [0 .. Len(text) -> Scans] :
           ScansOf(A, text) /\ A[Len(text)].out = Sanitize(text)
<1>1. PICK N \in Nat : N = Len(text)
  OBVIOUS
<1>2. \A n \in 1 .. N : text[n] \in Char
  BY <1>1
<1> DEFINE b == [mode |-> "text", out |-> <<>>]
           Turn(n, s) == Step(s, text[n])
           G == [n \in 1 .. N |-> [s \in Scans |-> Turn(n, s)]]
           Upto(f) == f = [n \in 0 .. N |-> IF n = 0 THEN b ELSE Turn(n, f[n - 1])]
<1>3. b \in Scans
  BY DEF Scans
<1>4. \A n \in 1 .. N : \A s \in Scans : Turn(n, s) \in Scans
  BY <1>2, StepType
<1>5. Scanned(text) = (CHOOSE f : Upto(f))[N]
  BY <1>1, Zenon DEF Scanned
<1>6. \A n \in 1 .. N : \A s : Turn(n, s) = Step(s, text[n])
  OBVIOUS
<1> HIDE DEF Turn, b
<1>7. PICK g : Run(g, Scans, N, b, G)
  <2>1. G \in [1 .. N -> [Scans -> Scans]]
    BY <1>4
  <2> HIDE DEF G
  <2> QED BY <1>3, <2>1, LoopRuns
<1>8. g \in [0 .. N -> Scans] /\ g[0] = b /\ \A n \in 1 .. N : g[n] = Turn(n, g[n - 1])
  <2>1. \A n \in 1 .. N : \A s \in Scans : G[n][s] = Turn(n, s)
    OBVIOUS
  <2> HIDE DEF G
  <2>2. g \in [0 .. N -> Scans] /\ g[0] = b /\ \A n \in 1 .. N : g[n] = G[n][g[n - 1]]
    BY <1>7, Zenon DEF Run
  <2>3. \A n \in 1 .. N : g[n - 1] \in Scans
    BY <2>2
  <2> QED BY <2>1, <2>2, <2>3
<1>9. Upto(g)
  BY <1>8
<1>10. ASSUME NEW f, Upto(f)
       PROVE  f[N] = g[N]
  <2>1. f[0] = b /\ \A n \in 1 .. N : f[n] = Turn(n, f[n - 1])
    BY <1>10
  <2>2. KeepAgreeing(f, g, N)
    BY <1>8, <2>1, Zenon DEF KeepAgreeing
  <2>3. \A n \in 0 .. N : f[n] = g[n]
    BY <2>2, LoopsAgree, Zenon
  <2> QED BY <2>3
<1>11. g[N] = Scanned(text)
  <2> HIDE DEF Upto
  <2> QED BY <1>5, <1>9, <1>10
<1>12. ScansOf(g, text)
  BY <1>1, <1>6, <1>8 DEF ScansOf, b
<1> QED
  BY <1>1, <1>8, <1>11, <1>12, Zenon DEF Sanitize

\* The first of some positions is the least of them.
LEMMA FirstIsLeast ==
  ASSUME NEW text, NEW at \in SUBSET Nat
  PROVE  LET e == First(text, at)
         IN  \/ at = {} /\ e = Len(text)
             \/ e \in at /\ \A k \in at : e <= k
<1>1. CASE at = {}
  BY <1>1 DEF First
<1>2. CASE at # {}
  <2>1. \E j \in at : \A k \in at : j <= k
    BY <1>2, LeastNat
  <2> QED BY <1>2, <2>1 DEF First
<1> QED
  BY <1>1, <1>2

\* Where sanitize takes a sequence to end: as SequenceEnd has it, but that an OSC ends
\* with any ESC, together with the character after it.
FirstOf(text, from, ends) == First(text, {j \in from .. Len(text) : text[j] \in ends})

CutAt(text, i) ==
  LET end == FirstOf(text, i + 2, {"BEL", "ESC"})
  IN  CASE i < Len(text) /\ text[i + 1] = "[" -> FirstOf(text, i + 2, {"letter"})
        [] i < Len(text) /\ text[i + 1] = "]" ->
             IF end < Len(text) /\ text[end] = "ESC" THEN end + 1 ELSE end
        [] OTHER -> i

LEMMA FirstFound ==
  ASSUME NEW text \in Seq(Char), NEW from \in 1 .. Len(text) + 1, NEW ends
  PROVE  LET e == FirstOf(text, from, ends)
         IN  \/ e = Len(text) /\ \A k \in from .. Len(text) : text[k] \notin ends
             \/ /\ e \in from .. Len(text) /\ text[e] \in ends
                /\ \A k \in from .. e - 1 : text[k] \notin ends
<1> DEFINE at == {j \in from .. Len(text) : text[j] \in ends}
<1>1. PICK e : e = FirstOf(text, from, ends)
  OBVIOUS
<1>2. \/ at = {} /\ e = Len(text)
      \/ e \in at /\ \A k \in at : e <= k
  <2>1. at \in SUBSET Nat
    OBVIOUS
  <2>2. e = First(text, at)
    BY <1>1 DEF FirstOf
  <2> HIDE DEF at
  <2> QED BY <2>1, <2>2, FirstIsLeast
<1>3. CASE at = {} /\ e = Len(text)
  BY <1>1, <1>3
<1>4. CASE e \in at /\ \A k \in at : e <= k
  <2>1. \A k \in from .. e - 1 : text[k] \notin ends
    BY <1>4
  <2> QED BY <1>1, <1>4, <2>1
<1> QED
  BY <1>2, <1>3, <1>4

\* If a text ends its OSCs as the comments expect, it makes no difference.
LEMMA EndsAlike ==
  ASSUME NEW text \in Seq(Char), WellTerminated(text), NEW i \in 1 .. Len(text), text[i] = "ESC"
  PROVE  SequenceEnd(text, i) = CutAt(text, i)
<1>1. PICK N \in Nat : N = Len(text)
  OBVIOUS
<1> DEFINE rest == i + 2 .. Len(text)
           letters == {j \in rest : text[j] = "letter"}
           closes == {j \in rest : text[j] = "BEL" \/ (/\ j - 1 \in rest /\ text[j - 1] = "ESC"
                                                      /\ text[j] = "\\")}
<1>2. CASE i < N /\ text[i + 1] = "["
  <2>1. SequenceEnd(text, i) = First(text, letters)
    BY <1>1, <1>2 DEF SequenceEnd
  <2>2. CutAt(text, i) = First(text, {j \in rest : text[j] \in {"letter"}})
    BY <1>1, <1>2 DEF CutAt, FirstOf
  <2>3. letters = {j \in rest : text[j] \in {"letter"}}
    OBVIOUS
  <2> QED BY <2>1, <2>2, <2>3
<1>3. CASE i < N /\ text[i + 1] = "]"
  <2>1. SequenceEnd(text, i) = First(text, closes)
    BY <1>1, <1>3 DEF SequenceEnd
  <2>2. PICK s : s = First(text, closes)
    OBVIOUS
  <2>3. \/ closes = {} /\ s = N
        \/ s \in closes /\ \A k \in closes : s <= k
    <3>1. closes \in SUBSET Nat
      OBVIOUS
    <3> HIDE DEF closes
    <3> QED BY <1>1, <2>2, <3>1, FirstIsLeast
  <2>4. PICK f : f = FirstOf(text, i + 2, {"BEL", "ESC"})
    OBVIOUS
  <2>5. i + 2 \in 1 .. Len(text) + 1
    BY <1>1, <1>3
  <2>6. \/ f = N /\ \A k \in i + 2 .. N : text[k] \notin {"BEL", "ESC"}
        \/ /\ f \in i + 2 .. N /\ text[f] \in {"BEL", "ESC"}
           /\ \A k \in i + 2 .. f - 1 : text[k] \notin {"BEL", "ESC"}
    BY <1>1, <2>4, <2>5, FirstFound
  <2>7. CutAt(text, i) = IF f < N /\ text[f] = "ESC" THEN f + 1 ELSE f
    BY <1>1, <1>3, <2>4 DEF CutAt
  <2>8. CASE f = N /\ \A k \in i + 2 .. N : text[k] \notin {"BEL", "ESC"}
    <3>1. closes = {}
      BY <1>1, <2>8
    <3> QED BY <2>1, <2>2, <2>3, <2>7, <2>8, <3>1
  <2>9. CASE /\ f \in i + 2 .. N /\ text[f] \in {"BEL", "ESC"}
             /\ \A k \in i + 2 .. f - 1 : text[k] \notin {"BEL", "ESC"}
    <3>1. \A k \in closes : k >= f /\ (k = f => text[f] = "BEL")
      BY <1>1, <2>9
    <3>2. CASE text[f] = "BEL"
      <4>1. f \in closes
        BY <1>1, <2>9, <3>2
      <4>2. s = f
        <5>1. s \in closes /\ s <= f /\ s >= f /\ s \in Int
          <6>1. s \in closes /\ s <= f
            BY <2>3, <4>1
          <6> QED BY <3>1, <6>1
        <5> QED BY <2>9, <5>1
      <4> QED BY <2>1, <2>2, <2>7, <3>2, <4>2
    <3>3. CASE text[f] = "ESC" /\ f = N
      <4>1. closes = {}
        BY <1>1, <2>9, <3>1, <3>3
      <4> QED BY <2>1, <2>2, <2>3, <2>7, <3>3, <4>1
    <3>4. CASE text[f] = "ESC" /\ f < N
      <4>1. text[f + 1] = "\\"
        <5>1. i \in 1 .. Len(text) - 1 /\ f \in i + 2 .. Len(text) - 1
          BY <1>1, <1>3, <2>9, <3>4
        <5> QED BY <1>3, <2>9, <3>4, <5>1 DEF WellTerminated
      <4>2. f + 1 \in closes
        BY <1>1, <2>9, <3>4, <4>1
      <4>3. s \in closes /\ s <= f + 1
        BY <2>3, <4>2
      <4>4. s >= f /\ s # f /\ s \in Int
        BY <3>1, <3>4, <4>3
      <4>5. s = f + 1
        BY <2>9, <4>3, <4>4
      <4> QED BY <2>1, <2>2, <2>7, <3>4, <4>5
    <3> QED BY <1>1, <2>9, <3>2, <3>3, <3>4
  <2> QED BY <2>6, <2>8, <2>9
<1>4. CASE i = N \/ text[i + 1] \notin {"[", "]"}
  BY <1>1, <1>4 DEF SequenceEnd, CutAt
<1> QED
  BY <1>1, <1>2, <1>3, <1>4

\* A sequence ends where it begins or after, and within the text.
LEMMA SequenceEndsWithin ==
  ASSUME NEW text \in Seq(Char), NEW i \in 1 .. Len(text)
  PROVE  SequenceEnd(text, i) \in i .. Len(text)
<1>1. PICK N \in Nat : N = Len(text)
  OBVIOUS
<1>2. \A at \in SUBSET (i .. N) : First(text, at) \in i .. N
  <2> TAKE at \in SUBSET (i .. N)
  <2>1. at \in SUBSET Nat
    BY <1>1
  <2>2. PICK e : e = First(text, at)
    OBVIOUS
  <2>3. e = N \/ e \in at
    BY <1>1, <2>1, <2>2, FirstIsLeast
  <2>4. N \in i .. N
    BY <1>1
  <2>5. e \in i .. N
    BY <2>3, <2>4
  <2> QED BY <2>2, <2>5
<1> DEFINE rest == i + 2 .. Len(text)
           letters == {j \in rest : text[j] = "letter"}
           closes == {j \in rest : text[j] = "BEL" \/ (/\ j - 1 \in rest /\ text[j - 1] = "ESC"
                                                      /\ text[j] = "\\")}
<1>3. letters \in SUBSET (i .. N) /\ closes \in SUBSET (i .. N)
  BY <1>1
<1>4. First(text, letters) \in i .. N /\ First(text, closes) \in i .. N
  <2> HIDE DEF letters, closes
  <2> QED BY <1>2, <1>3
<1>5. SequenceEnd(text, i) \in {First(text, letters), First(text, closes), i}
  BY DEF SequenceEnd
<1> HIDE DEF letters, closes
<1> QED
  BY <1>1, <1>4, <1>5

\* What is plain from each position on.
PlainFrom(F, text) ==
  /\ F[Len(text) + 1] = <<>>
  /\ \A i \in 1 .. Len(text) :
       F[i] = IF text[i] = "ESC" THEN F[SequenceEnd(text, i) + 1]
              ELSE Pushed(<<>>, text[i]) \o F[i + 1]

LEMMA PlainRuns ==
  ASSUME NEW text \in Seq(Char)
  PROVE  \E F \in [1 .. Len(text) + 1 -> Seq(Char)] : PlainFrom(F, text) /\ F[1] = Plain(text)
<1>1. PICK N \in Nat : N = Len(text)
  OBVIOUS
<1>2. \A i \in 1 .. N : text[i] \in Char
  BY <1>1
<1> DEFINE End(i) == SequenceEnd(text, i) + 1
           Here(i, a) == Pushed(<<>>, text[i]) \o a
           From(f, i) == IF text[i] = "ESC" THEN f[End(i)] ELSE Here(i, f[i + 1])
           At(f, i) == IF i > Len(text) THEN <<>>
                      ELSE IF text[i] = "ESC" THEN f[End(i)]
                      ELSE Here(i, f[i + 1])
           Upto(f) == f = [i \in 1 .. Len(text) + 1 |-> At(f, i)]
<1>3. \A i \in 1 .. N : End(i) \in i + 1 .. N + 1 /\ \A a \in Seq(Char) : Here(i, a) \in Seq(Char)
  <2> TAKE i \in 1 .. N
  <2>1. SequenceEnd(text, i) \in i .. N
    BY <1>1, SequenceEndsWithin
  <2>2. PICK p \in Seq(Char) : p = Pushed(<<>>, text[i])
    <3>1. <<>> \in Seq(Char) /\ text[i] \in Char
      BY <1>2
    <3> QED BY <3>1, PushedType
  <2>3. \A a \in Seq(Char) : p \o a \in Seq(Char)
    BY <2>2
  <2> QED BY <2>1, <2>2, <2>3
<1>4. Plain(text) = (CHOOSE f : Upto(f))[1]
  BY DEF Plain
<1>5. \A f, i : From(f, i) = IF text[i] = "ESC" THEN f[SequenceEnd(text, i) + 1]
                             ELSE Pushed(<<>>, text[i]) \o f[i + 1]
  OBVIOUS
<1> HIDE DEF End, Here
<1>6. ASSUME NEW f
      PROVE  At(f, N + 1) = <<>> /\ \A i \in 1 .. N : At(f, i) = From(f, i)
  <2>1. N + 1 > Len(text) /\ \A i \in 1 .. N : ~(i > Len(text))
    BY <1>1
  <2> QED BY <2>1
<1> HIDE DEF At
<1>7. ASSUME NEW f, Upto(f)
      PROVE  f[N + 1] = <<>> /\ \A i \in 1 .. N : f[i] = From(f, i)
  <2> HIDE DEF From
  <2>1. f = [i \in 1 .. N + 1 |-> At(f, i)]
    BY <1>1, <1>7
  <2>2. \A i \in 1 .. N + 1 : f[i] = At(f, i)
    BY <2>1
  <2> QED BY <1>6, <2>2
<1>17. ASSUME NEW f, f \in [1 .. N + 1 -> Seq(Char)],
             f[N + 1] = <<>> /\ \A i \in 1 .. N : f[i] = From(f, i)
      PROVE  Upto(f)
  <2> HIDE DEF From
  <2>1. \A i \in 1 .. N + 1 : i \in 1 .. N \/ i = N + 1
    OBVIOUS
  <2>2. \A i \in 1 .. N + 1 : f[i] = At(f, i)
    BY <1>6, <1>17, <2>1
  <2> QED BY <1>1, <1>17, <2>2
<1> DEFINE Part(f, k) == /\ f \in [N + 1 - k .. N + 1 -> Seq(Char)]
                         /\ f[N + 1] = <<>>
                         /\ \A i \in N + 1 - k .. N : f[i] = From(f, i)
           T == {k \in 0 .. N : \E f : Part(f, k)}
<1>8. 0 \in T
  <2>1. PICK f : f = [i \in {N + 1} |-> <<>>]
    OBVIOUS
  <2>2. f \in [N + 1 - 0 .. N + 1 -> Seq(Char)] /\ f[N + 1] = <<>>
    BY <2>1
  <2>3. N + 1 - 0 .. N = {}
    OBVIOUS
  <2>4. Part(f, 0)
    BY <2>2, <2>3
  <2> QED BY <2>4
<1>9. ASSUME NEW k \in 1 .. N, k - 1 \in T PROVE k \in T
  <2>1. PICK f : Part(f, k - 1)
    BY <1>9
  <2>2. PICK p \in 1 .. N : p = N + 1 - k
    OBVIOUS
  <2>3. N + 1 - (k - 1) = p + 1
    BY <2>2
  <2>4. /\ f \in [p + 1 .. N + 1 -> Seq(Char)] /\ f[N + 1] = <<>>
        /\ \A i \in p + 1 .. N : f[i] = From(f, i)
    <3> HIDE DEF From
    <3> QED BY <2>1, <2>3
  <2>5. From(f, p) \in Seq(Char)
    <3>1. f[End(p)] \in Seq(Char) /\ f[p + 1] \in Seq(Char)
      BY <1>3, <2>2, <2>4
    <3> QED BY <1>3, <3>1
  <2>6. PICK g : g = [i \in p .. N + 1 |-> IF i = p THEN From(f, p) ELSE f[i]]
    OBVIOUS
  <2>7. g \in [p .. N + 1 -> Seq(Char)] /\ g[N + 1] = <<>>
    <3> HIDE DEF From
    <3> QED BY <2>2, <2>4, <2>5, <2>6
  <2>8. \A i \in p + 1 .. N + 1 : g[i] = f[i]
    <3> HIDE DEF From
    <3> QED BY <2>2, <2>6
  <2>9. ASSUME NEW i \in p .. N PROVE g[i] = From(g, i)
    <3>1. End(i) \in p + 1 .. N + 1 /\ i + 1 \in p + 1 .. N + 1
      BY <1>3, <2>2
    <3>2. g[End(i)] = f[End(i)] /\ g[i + 1] = f[i + 1]
      BY <2>8, <3>1
    <3>3. From(g, i) = From(f, i)
      BY <3>2
    <3>4. g[i] = From(f, i)
      <4> HIDE DEF From
      <4>1. CASE i = p
        BY <2>6, <4>1
      <4>2. CASE i # p
        <5>1. i \in p + 1 .. N /\ i \in p + 1 .. N + 1
          BY <2>2, <4>2
        <5> QED BY <2>4, <2>8, <5>1
      <4> QED BY <4>1, <4>2
    <3> HIDE DEF From
    <3> QED BY <3>3, <3>4
  <2>10. Part(g, k)
    <3> HIDE DEF From
    <3> QED BY <2>2, <2>7, <2>9
  <2> HIDE DEF Part
  <2> QED BY <2>10
<1>10. N \in T
  <2>1. 0 .. N \subseteq T
    <3> HIDE DEF T
    <3> QED BY <1>8, <1>9, InductionUpTo
  <2> HIDE DEF T
  <2> QED BY <2>1
<1>11. PICK F : Part(F, N)
  BY <1>10
<1>12. /\ F \in [1 .. N + 1 -> Seq(Char)] /\ F[N + 1] = <<>>
       /\ \A i \in 1 .. N : F[i] = From(F, i)
  <2>1. N + 1 - N = 1
    OBVIOUS
  <2> HIDE DEF From
  <2> QED BY <1>11, <2>1
<1>13. Upto(F)
  <2> HIDE DEF Upto, From
  <2> QED BY <1>17, <1>12
<1>14. ASSUME NEW f, Upto(f)
       PROVE  f[1] = F[1]
  <2>1. f[N + 1] = <<>> /\ \A i \in 1 .. N : f[i] = From(f, i)
    <3> HIDE DEF From, Upto
    <3> QED BY <1>7, <1>14
  <2> DEFINE U == {k \in 0 .. N : \A i \in N + 1 - k .. N + 1 : f[i] = F[i]}
  <2>2. 0 \in U
    <3> HIDE DEF From
    <3> QED BY <1>12, <2>1
  <2>3. ASSUME NEW k \in 1 .. N, k - 1 \in U PROVE k \in U
    <3>1. PICK p \in 1 .. N : p = N + 1 - k
      OBVIOUS
    <3>2. \A i \in p + 1 .. N + 1 : f[i] = F[i]
      BY <2>3, <3>1
    <3>3. End(p) \in p + 1 .. N + 1 /\ p + 1 \in p + 1 .. N + 1
      BY <1>3, <3>1
    <3>4. f[End(p)] = F[End(p)] /\ f[p + 1] = F[p + 1]
      BY <3>2, <3>3
    <3>5. From(f, p) = From(F, p)
      BY <3>4
    <3>6. f[p] = F[p]
      <4> HIDE DEF From
      <4> QED BY <1>12, <2>1, <3>5
    <3>7. \A i \in p .. N + 1 : i = p \/ i \in p + 1 .. N + 1
      OBVIOUS
    <3> QED BY <3>1, <3>2, <3>6, <3>7
  <2>4. N \in U
    <3>1. 0 .. N \subseteq U
      <4> HIDE DEF U
      <4> QED BY <2>2, <2>3, InductionUpTo
    <3> HIDE DEF U
    <3> QED BY <3>1
  <2> QED BY <2>4
<1>15. F[1] = Plain(text)
  <2> HIDE DEF Upto
  <2> QED BY <1>4, <1>13, <1>14
<1>16. PlainFrom(F, text)
  <2> HIDE DEF From
  <2> QED BY <1>1, <1>5, <1>12 DEF PlainFrom
<1> QED
  BY <1>1, <1>12, <1>15, <1>16, Zenon

Scan(mode, out) == [mode |-> mode, out |-> out]

LEMMA ScanSteps ==
  ASSUME NEW o, NEW c
  PROVE  /\ Step(Scan("text", o), c) = IF c = "ESC" THEN Scan("escape", o)
                                       ELSE Scan("text", Pushed(o, c))
         /\ c = "[" => Step(Scan("escape", o), c) = Scan("csi", o)
         /\ c = "]" => Step(Scan("escape", o), c) = Scan("osc", o)
         /\ c \notin {"[", "]"} => Step(Scan("escape", o), c) = Step(Scan("text", o), c)
         /\ Step(Scan("csi", o), c) = IF c = "letter" THEN Scan("text", o) ELSE Scan("csi", o)
         /\ c = "BEL" => Step(Scan("osc", o), c) = Scan("text", o)
         /\ c = "ESC" => Step(Scan("osc", o), c) = Scan("terminator", o)
         /\ c \notin {"BEL", "ESC"} => Step(Scan("osc", o), c) = Scan("osc", o)
         /\ Step(Scan("terminator", o), c) = Scan("text", o)
<1> USE DEF Scan, Step
<1>1. Step(Scan("text", o), c) = InText(Scan("text", o), c)
  OBVIOUS
<1>2. InText(Scan("text", o), c) = IF c = "ESC" THEN Scan("escape", o) ELSE Scan("text", Pushed(o, c))
  BY DEF InText
<1>3. Step(Scan("escape", o), c) = AfterEscape(Scan("escape", o), c)
  OBVIOUS
<1>4. /\ c = "[" => AfterEscape(Scan("escape", o), c) = Scan("csi", o)
      /\ c = "]" => AfterEscape(Scan("escape", o), c) = Scan("osc", o)
      /\ c \notin {"[", "]"} => AfterEscape(Scan("escape", o), c) = InText(Scan("text", o), c)
  BY DEF AfterEscape
<1>5. Step(Scan("csi", o), c) = IF c = "letter" THEN Scan("text", o) ELSE Scan("csi", o)
  BY DEF InCsi
<1>6. /\ c = "BEL" => Step(Scan("osc", o), c) = Scan("text", o)
      /\ c = "ESC" => Step(Scan("osc", o), c) = Scan("terminator", o)
      /\ c \notin {"BEL", "ESC"} => Step(Scan("osc", o), c) = Scan("osc", o)
  BY DEF InOsc
<1>7. Step(Scan("terminator", o), c) = Scan("text", o)
  OBVIOUS
<1> HIDE DEF Scan, Step
<1> QED
  BY <1>1, <1>2, <1>3, <1>4, <1>5, <1>6, <1>7

\* What is pushed and what follows it.
LEMMA PushedFirst ==
  ASSUME NEW o \in Seq(Char), NEW c \in Char, NEW rest \in Seq(Char)
  PROVE  Pushed(o, c) \o rest = o \o (Pushed(<<>>, c) \o rest)
<1>1. PICK p \in Seq(Char) : p = Pushed(<<>>, c)
  <2>1. <<>> \in Seq(Char)
    OBVIOUS
  <2> QED BY <2>1, PushedType
<1>2. Pushed(o, c) = o \o p
  <2>1. CASE c \in Shown
    <3>1. Append(o, c) = o \o <<c>>
      BY AppendIsConcat
    <3>2. p = <<c>>
      BY <1>1, <2>1 DEF Pushed
    <3> QED BY <2>1, <3>1, <3>2 DEF Pushed
  <2>2. CASE c \notin Shown
    <3>1. p = <<>>
      BY <1>1, <2>2 DEF Pushed
    <3>2. o \o <<>> = o
      BY ConcatEmptySeq
    <3> QED BY <2>2, <3>1, <3>2 DEF Pushed
  <2> QED BY <2>1, <2>2
<1> QED
  BY <1>1, <1>2, ConcatAssociative

\* Characters that change nothing are passed over.
LEMMA PassedOver ==
  ASSUME NEW text, NEW A, ScansOf(A, text), Len(text) \in Nat,
         NEW a \in 0 .. Len(text), NEW b \in a .. Len(text), NEW s, A[a] = s,
         \A k \in a + 1 .. b : Step(s, text[k]) = s
  PROVE  A[b] = s
<1> DEFINE T == {d \in 0 .. b - a : A[a + d] = s}
<1>1. 0 \in T
  OBVIOUS
<1>2. ASSUME NEW d \in 1 .. b - a, d - 1 \in T PROVE d \in T
  <2>1. A[a + (d - 1)] = s
    BY <1>2
  <2>2. a + d \in a + 1 .. b /\ a + d \in 1 .. Len(text) /\ (a + d) - 1 = a + (d - 1)
    OBVIOUS
  <2>3. A[a + d] = Step(A[(a + d) - 1], text[a + d])
    BY <2>2 DEF ScansOf
  <2>4. A[a + d] = s
    BY <2>1, <2>2, <2>3
  <2> QED BY <2>4
<1>3. 0 .. b - a \subseteq T
  <2>1. b - a \in Nat
    OBVIOUS
  <2> HIDE DEF T
  <2> QED BY <1>1, <1>2, <2>1, InductionUpTo
<1>4. b - a \in T /\ a + (b - a) = b
  <2> HIDE DEF T
  <2> QED BY <1>3
<1> QED
  BY <1>4

\* Between sequences: in the text, or after an ESC that begins none.
Between(A, text, i) ==
  \/ A[i - 1].mode = "text"
  \/ A[i - 1].mode = "escape" /\ (i <= Len(text) => text[i] \notin {"[", "]"})

\* Then the rest of what is kept is what is plain from there on.
RestPlain(A, F, text, i) ==
  Between(A, text, i) => A[Len(text)].out = A[i - 1].out \o F[i]

LEMMA RestPlainStep ==
  ASSUME NEW text \in Seq(Char), WellTerminated(text), NEW A \in [0 .. Len(text) -> Scans],
         ScansOf(A, text), NEW F \in [1 .. Len(text) + 1 -> Seq(Char)], PlainFrom(F, text),
         NEW i \in 1 .. Len(text), Between(A, text, i),
         \A j \in i + 1 .. Len(text) + 1 : RestPlain(A, F, text, j)
  PROVE  A[Len(text)].out = A[i - 1].out \o F[i]
<1>1. PICK N \in Nat : N = Len(text)
  OBVIOUS
<1>2. PICK c \in Char : c = text[i]
  BY <1>1
<1>3. PICK o \in Seq(Char) : o = A[i - 1].out
  BY <1>1 DEF Scans
<1>4. A[i] = Step(A[i - 1], c)
  BY <1>1, <1>2 DEF ScansOf
<1>5. A[i] = Step(Scan("text", o), c)
  <2>1. A[i - 1] = Scan(A[i - 1].mode, o)
    <3>1. \A s \in Scans : s = Scan(s.mode, s.out)
      BY DEF Scans, Scan
    <3>2. A[i - 1] \in Scans
      <4>1. i - 1 \in 0 .. Len(text)
        BY <1>1
      <4> QED BY <4>1
    <3> QED BY <1>3, <3>1, <3>2, Zenon
  <2>2. CASE A[i - 1].mode = "text"
    BY <1>4, <2>1, <2>2
  <2>3. CASE A[i - 1].mode = "escape" /\ c \notin {"[", "]"}
    BY <1>4, <2>1, <2>3, ScanSteps
  <2> QED BY <1>1, <1>2, <2>2, <2>3 DEF Between
<1>6. PICK z : z = A[N].out
  OBVIOUS
<1>7. /\ F[N + 1] = <<>> /\ \A j \in 1 .. N + 1 : F[j] \in Seq(Char)
      /\ F[i] = IF c = "ESC" THEN F[SequenceEnd(text, i) + 1] ELSE Pushed(<<>>, c) \o F[i + 1]
  <2>1. F[i] = IF text[i] = "ESC" THEN F[SequenceEnd(text, i) + 1]
               ELSE Pushed(<<>>, text[i]) \o F[i + 1]
    BY Zenon DEF PlainFrom
  <2>2. F[Len(text) + 1] = <<>>
    BY Zenon DEF PlainFrom
  <2> QED BY <1>1, <1>2, <2>1, <2>2
<1>9. ASSUME NEW j \in i + 1 .. N + 1, NEW p, NEW mode, A[j - 1] = Scan(mode, p),
             \/ mode = "text"
             \/ mode = "escape" /\ (j <= N => text[j] \notin {"[", "]"})
      PROVE  z = p \o F[j]
  <2>1. A[j - 1].mode = mode /\ A[j - 1].out = p
    BY <1>9 DEF Scan
  <2>2. Between(A, text, j)
    BY <1>1, <1>9, <2>1, Zenon DEF Between
  <2>3. RestPlain(A, F, text, j)
    BY <1>1, <1>9
  <2>4. A[Len(text)].out = A[j - 1].out \o F[j]
    BY <2>2, <2>3, Zenon DEF RestPlain
  <2> QED BY <1>1, <1>6, <2>1, <2>4, Zenon
<1>10. SUFFICES z = o \o F[i]
  BY <1>1, <1>3, <1>6, Zenon
<1>11. CASE c # "ESC"
  <2>1. A[i] = Scan("text", Pushed(o, c)) /\ i + 1 \in i + 1 .. N + 1 /\ (i + 1) - 1 = i
    BY <1>1, <1>5, <1>11, ScanSteps
  <2>2. z = Pushed(o, c) \o F[i + 1]
    BY <1>9, <2>1, Zenon
  <2>3. F[i] = Pushed(<<>>, c) \o F[i + 1] /\ F[i + 1] \in Seq(Char)
    BY <1>1, <1>7, <1>11
  <2>4. Pushed(o, c) \o F[i + 1] = o \o (Pushed(<<>>, c) \o F[i + 1])
    BY <2>3, PushedFirst, Zenon
  <2> QED BY <2>2, <2>3, <2>4, Zenon
<1>12. CASE c = "ESC"
  <2>1. A[i] = Scan("escape", o)
    BY <1>5, <1>12, ScanSteps
  <2>2. PICK e \in i .. N : e = SequenceEnd(text, i)
    BY <1>1, SequenceEndsWithin
  <2>3. F[i] = F[e + 1]
    BY <1>7, <1>12, <2>2, Zenon
  <2>8. e = CutAt(text, i)
    BY <1>1, <1>2, <1>12, <2>2, EndsAlike, Zenon
  <2>4. CASE i = N \/ text[i + 1] \notin {"[", "]"}
    <3>1. e = i
      BY <1>1, <2>8, <2>4 DEF CutAt
    <3>2. i + 1 \in i + 1 .. N + 1 /\ (i + 1) - 1 = i /\ (i + 1 <= N => i # N)
      BY <1>1
    <3>3. z = o \o F[i + 1]
      BY <1>9, <2>1, <2>4, <3>2, Zenon
    <3> QED BY <2>3, <3>1, <3>3, Zenon
  <2>5. ASSUME NEW mode, A[N] = Scan(mode, o), e = N
        PROVE  z = o \o F[i]
    <3>1. F[i] = <<>>
      BY <1>7, <2>3, <2>5
    <3>2. z = o
      BY <1>6, <2>5 DEF Scan
    <3> QED BY <3>1, <3>2, ConcatEmptySeq
  <2>6. CASE i < N /\ text[i + 1] = "["
    <3>1. A[i + 1] = Scan("csi", o)
      <4>1. i + 1 \in 1 .. N /\ (i + 1) - 1 = i
        BY <2>6
      <4>2. A[i + 1] = Step(A[i], text[i + 1])
        BY <1>1, <4>1 DEF ScansOf
      <4> QED BY <2>1, <2>6, <4>2, ScanSteps
    <3>2. e = FirstOf(text, i + 2, {"letter"})
      BY <1>1, <2>8, <2>6 DEF CutAt
    <3>3. i + 2 \in 1 .. Len(text) + 1
      BY <1>1, <2>6
    <3>4. \/ e = N /\ \A k \in i + 2 .. N : text[k] # "letter"
          \/ e \in i + 2 .. N /\ text[e] = "letter" /\ \A k \in i + 2 .. e - 1 : text[k] # "letter"
      <4>1. PICK f : f = FirstOf(text, i + 2, {"letter"})
        OBVIOUS
      <4>2. \/ f = Len(text) /\ \A k \in i + 2 .. Len(text) : text[k] \notin {"letter"}
            \/ /\ f \in i + 2 .. Len(text) /\ text[f] \in {"letter"}
               /\ \A k \in i + 2 .. f - 1 : text[k] \notin {"letter"}
        BY <3>3, <4>1, FirstFound, Zenon
      <4> QED BY <1>1, <3>2, <4>1, <4>2
    <3>5. ASSUME NEW b \in i + 1 .. N, \A k \in i + 2 .. b : text[k] # "letter"
          PROVE  A[b] = Scan("csi", o)
      <4>1. \A k \in (i + 1) + 1 .. b : Step(Scan("csi", o), text[k]) = Scan("csi", o)
        BY <3>5, ScanSteps
      <4>2. i + 1 \in 0 .. Len(text) /\ b \in i + 1 .. Len(text) /\ Len(text) \in Nat
        BY <1>1, <2>6
      <4> QED BY <3>1, <4>1, <4>2, PassedOver
    <3>6. CASE e = N /\ \A k \in i + 2 .. N : text[k] # "letter"
      <4>1. A[N] = Scan("csi", o)
        BY <2>6, <3>5, <3>6
      <4> QED BY <2>5, <3>6, <4>1
    <3>7. CASE e \in i + 2 .. N /\ text[e] = "letter" /\ \A k \in i + 2 .. e - 1 : text[k] # "letter"
      <4>0. e - 1 \in i + 1 .. N
        BY <3>7
      <4>1. A[e - 1] = Scan("csi", o)
        BY <3>5, <3>7, <4>0
      <4>2. A[e] = Step(A[e - 1], text[e])
        BY <1>1, <3>7 DEF ScansOf
      <4>3. A[e] = Scan("text", o)
        BY <3>7, <4>1, <4>2, ScanSteps
      <4>4. e + 1 \in i + 1 .. N + 1 /\ (e + 1) - 1 = e
        BY <3>7
      <4>5. z = o \o F[e + 1]
        BY <1>9, <4>3, <4>4, Zenon
      <4> QED BY <2>3, <4>5, Zenon
    <3> QED BY <3>4, <3>6, <3>7
  <2>7. CASE i < N /\ text[i + 1] = "]"
    <3>1. A[i + 1] = Scan("osc", o)
      <4>1. i + 1 \in 1 .. N /\ (i + 1) - 1 = i
        BY <2>7
      <4>2. A[i + 1] = Step(A[i], text[i + 1])
        BY <1>1, <4>1 DEF ScansOf
      <4> QED BY <2>1, <2>7, <4>2, ScanSteps
    <3>2. PICK f : f = FirstOf(text, i + 2, {"BEL", "ESC"})
      OBVIOUS
    <3>3. e = IF f < N /\ text[f] = "ESC" THEN f + 1 ELSE f
      BY <1>1, <2>8, <2>7, <3>2 DEF CutAt
    <3>4. i + 2 \in 1 .. Len(text) + 1
      BY <1>1, <2>7
    <3>5. \/ f = N /\ \A k \in i + 2 .. N : text[k] \notin {"BEL", "ESC"}
          \/ /\ f \in i + 2 .. N /\ text[f] \in {"BEL", "ESC"}
             /\ \A k \in i + 2 .. f - 1 : text[k] \notin {"BEL", "ESC"}
      <4>1. \/ f = Len(text) /\ \A k \in i + 2 .. Len(text) : text[k] \notin {"BEL", "ESC"}
            \/ /\ f \in i + 2 .. Len(text) /\ text[f] \in {"BEL", "ESC"}
               /\ \A k \in i + 2 .. f - 1 : text[k] \notin {"BEL", "ESC"}
        BY <3>2, <3>4, FirstFound, Zenon
      <4> QED BY <1>1, <4>1
    <3>6. ASSUME NEW b \in i + 1 .. N, \A k \in i + 2 .. b : text[k] \notin {"BEL", "ESC"}
          PROVE  A[b] = Scan("osc", o)
      <4>1. \A k \in (i + 1) + 1 .. b : Step(Scan("osc", o), text[k]) = Scan("osc", o)
        BY <3>6, ScanSteps
      <4>2. i + 1 \in 0 .. Len(text) /\ b \in i + 1 .. Len(text) /\ Len(text) \in Nat
        BY <1>1, <2>7
      <4> QED BY <3>1, <4>1, <4>2, PassedOver
    <3>7. CASE f = N /\ \A k \in i + 2 .. N : text[k] \notin {"BEL", "ESC"}
      <4>1. A[N] = Scan("osc", o)
        BY <2>7, <3>6, <3>7
      <4>2. e = N
        BY <3>3, <3>7
      <4> QED BY <2>5, <4>1, <4>2
    <3>8. CASE /\ f \in i + 2 .. N /\ text[f] \in {"BEL", "ESC"}
               /\ \A k \in i + 2 .. f - 1 : text[k] \notin {"BEL", "ESC"}
      <4>0. f - 1 \in i + 1 .. N
        BY <3>8
      <4>1. A[f - 1] = Scan("osc", o)
        BY <3>6, <3>8, <4>0
      <4>2. A[f] = Step(A[f - 1], text[f])
        BY <1>1, <3>8 DEF ScansOf
      <4>3. CASE text[f] = "BEL"
        <5>1. A[f] = Scan("text", o) /\ e = f
          BY <3>3, <4>1, <4>2, <4>3, ScanSteps
        <5>2. e + 1 \in i + 1 .. N + 1 /\ (e + 1) - 1 = e
          BY <3>8, <5>1
        <5>3. z = o \o F[e + 1]
          BY <1>9, <5>1, <5>2, Zenon
        <5> QED BY <2>3, <5>3, Zenon
      <4>4. CASE text[f] = "ESC"
        <5>1. A[f] = Scan("terminator", o)
          BY <4>1, <4>2, <4>4, ScanSteps
        <5>2. CASE f = N
          <6>1. e = N
            BY <3>3, <5>2
          <6> QED BY <2>5, <5>1, <5>2, <6>1
        <5>3. CASE f < N
          <6>1. e = f + 1 /\ f + 1 \in 1 .. N /\ (f + 1) - 1 = f
            BY <3>3, <3>8, <4>4, <5>3
          <6>2. A[f + 1] = Step(A[f], text[f + 1])
            BY <1>1, <6>1 DEF ScansOf
          <6>3. A[e] = Scan("text", o)
            BY <5>1, <6>1, <6>2, ScanSteps
          <6>4. e + 1 \in i + 1 .. N + 1 /\ (e + 1) - 1 = e
            BY <3>8, <5>3, <6>1
          <6>5. z = o \o F[e + 1]
            BY <1>9, <6>3, <6>4, Zenon
          <6> QED BY <2>3, <6>5, Zenon
        <5> QED BY <3>8, <5>2, <5>3
      <4> QED BY <3>8, <4>3, <4>4
    <3> QED BY <3>5, <3>7, <3>8
  <2> QED BY <1>1, <2>4, <2>6, <2>7
<1> QED
  BY <1>11, <1>12

\* The sanitizer keeps of every text that ends its OSCs as the comments expect what is
\* plain in it.
THEOREM SanitizeKeepsPlain ==
  \A text \in Seq(Char) : WellTerminated(text) => Sanitize(text) = Plain(text)
<1> SUFFICES ASSUME NEW text \in Seq(Char), WellTerminated(text) PROVE Sanitize(text) = Plain(text)
  OBVIOUS
<1>1. PICK N \in Nat : N = Len(text)
  OBVIOUS
<1>2. PICK A \in [0 .. Len(text) -> Scans] : ScansOf(A, text) /\ A[Len(text)].out = Sanitize(text)
  BY ScanRuns, Zenon
<1>3. PICK F \in [1 .. Len(text) + 1 -> Seq(Char)] : PlainFrom(F, text) /\ F[1] = Plain(text)
  BY PlainRuns, Zenon
<1> DEFINE T == {k \in 0 .. N : \A i \in N + 1 - k .. N + 1 : RestPlain(A, F, text, i)}
<1>4. 0 \in T
  <2>1. RestPlain(A, F, text, N + 1)
    <3>1. A[N].out \in Seq(Char) /\ F[N + 1] = <<>> /\ (N + 1) - 1 = N
      BY <1>1, <1>2, <1>3 DEF PlainFrom, Scans
    <3> QED BY <1>1, <3>1, ConcatEmptySeq DEF RestPlain
  <2>2. \A i \in N + 1 - 0 .. N + 1 : i = N + 1
    OBVIOUS
  <2> QED BY <2>1, <2>2
<1>5. ASSUME NEW k \in 1 .. N, k - 1 \in T PROVE k \in T
  <2>1. PICK p \in 1 .. N : p = N + 1 - k
    OBVIOUS
  <2>2. \A i \in p + 1 .. N + 1 : RestPlain(A, F, text, i)
    BY <1>5, <2>1
  <2>3. RestPlain(A, F, text, p)
    <3> SUFFICES ASSUME Between(A, text, p)
                 PROVE  A[Len(text)].out = A[p - 1].out \o F[p]
      BY DEF RestPlain
    <3>1. p \in 1 .. Len(text) /\ \A j \in p + 1 .. Len(text) + 1 : RestPlain(A, F, text, j)
      BY <1>1, <2>2
    <3> QED BY <1>2, <1>3, <3>1, RestPlainStep, Zenon
  <2>4. \A i \in p .. N + 1 : i = p \/ i \in p + 1 .. N + 1
    OBVIOUS
  <2> QED BY <2>1, <2>2, <2>3, <2>4
<1>6. N \in T
  <2>1. 0 .. N \subseteq T
    <3> HIDE DEF T
    <3> QED BY <1>4, <1>5, InductionUpTo
  <2> HIDE DEF T
  <2> QED BY <2>1
<1>7. RestPlain(A, F, text, 1)
  BY <1>6
<1>8. A[0] = [mode |-> "text", out |-> <<>>]
  BY <1>2 DEF ScansOf
<1>9. A[Len(text)].out = <<>> \o F[1]
  <2>1. A[1 - 1].mode = "text" /\ A[1 - 1].out = <<>>
    BY <1>8
  <2> QED BY <1>7, <2>1, Zenon DEF RestPlain, Between
<1>10. F[1] \in Seq(Char)
  BY <1>1
<1> QED
  BY <1>2, <1>3, <1>9, <1>10, ConcatEmptySeq

\* What stands before a text stays before it.
LEMMA StepAfter ==
  ASSUME NEW p \in Seq(Char), NEW s \in Scans, NEW c \in Char
  PROVE  Step(Scan(s.mode, p \o s.out), c) = Scan(Step(s, c).mode, p \o Step(s, c).out)
<1>1. PICK o \in Seq(Char) : o = s.out
  BY DEF Scans
<1>2. s = Scan(s.mode, o) /\ s.mode \in {"text", "escape", "csi", "osc", "terminator"}
  BY <1>1 DEF Scans, Scan
<1>3. PICK q : q = p \o o
  OBVIOUS
<1>4. Pushed(q, c) = p \o Pushed(o, c)
  <2>1. CASE c \in Shown
    <3>1. Append(o, c) = o \o <<c>> /\ Append(q, c) = q \o <<c>>
      BY <1>3, AppendIsConcat
    <3>2. (p \o o) \o <<c>> = p \o (o \o <<c>>)
      BY ConcatAssociative
    <3> QED BY <1>3, <2>1, <3>1, <3>2 DEF Pushed
  <2>2. CASE c \notin Shown
    BY <1>3, <2>2 DEF Pushed
  <2> QED BY <2>1, <2>2
<1>5. \A m, x : Scan(m, x).mode = m /\ Scan(m, x).out = x
  BY DEF Scan
<1>6. \/ \E m : Step(Scan(s.mode, o), c) = Scan(m, o) /\ Step(Scan(s.mode, q), c) = Scan(m, q)
      \/ /\ Step(Scan(s.mode, o), c) = Scan("text", Pushed(o, c))
         /\ Step(Scan(s.mode, q), c) = Scan("text", Pushed(q, c))
  BY <1>2, ScanSteps
<1> QED
  BY <1>1, <1>2, <1>3, <1>4, <1>5, <1>6

\* Of a text that begins without an ESC, each part is sanitized by itself.
LEMMA EscapelessFirst ==
  ASSUME NEW a \in Seq(Char), Escapeless(a), NEW b \in Seq(Char)
  PROVE  Sanitize(a \o b) = Sanitize(a) \o Sanitize(b)
<1>1. PICK t : t = a \o b
  OBVIOUS
<1>2. PICK m \in Nat, n \in Nat : m = Len(a) /\ n = Len(b)
  OBVIOUS
<1>3. /\ t \in Seq(Char) /\ Len(t) = m + n
      /\ \A i \in 1 .. m : t[i] = a[i]
      /\ \A i \in 1 .. n : t[m + i] = b[i]
  BY <1>1, <1>2
<1>4. PICK A \in [0 .. Len(a) -> Scans] : ScansOf(A, a) /\ A[Len(a)].out = Sanitize(a)
  BY ScanRuns, Zenon
<1>5. PICK B \in [0 .. Len(b) -> Scans] : ScansOf(B, b) /\ B[Len(b)].out = Sanitize(b)
  BY ScanRuns, Zenon
<1>6. PICK C \in [0 .. Len(t) -> Scans] : ScansOf(C, t) /\ C[Len(t)].out = Sanitize(t)
  BY <1>3, ScanRuns, Zenon
<1> DEFINE T == {k \in 0 .. m : C[k] = A[k] /\ A[k].mode = "text"}
<1>7. 0 \in T
  BY <1>4, <1>6 DEF ScansOf
<1>8. ASSUME NEW k \in 1 .. m, k - 1 \in T PROVE k \in T
  <2>1. C[k - 1] = A[k - 1] /\ A[k - 1].mode = "text"
    BY <1>8
  <2>2. A[k] = Step(A[k - 1], a[k]) /\ C[k] = Step(C[k - 1], t[k])
    BY <1>2, <1>3, <1>4, <1>6 DEF ScansOf
  <2>3. t[k] = a[k] /\ a[k] # "ESC"
    <3>1. k \in DOMAIN a
      BY <1>2
    <3> QED BY <1>3, <3>1 DEF Escapeless
  <2>4. A[k - 1] = Scan("text", A[k - 1].out)
    <3>1. k - 1 \in 0 .. Len(a)
      BY <1>2
    <3>2. A[k - 1] \in Scans
      BY <3>1
    <3> QED BY <2>1, <3>2 DEF Scans, Scan
  <2>5. A[k] = Scan("text", Pushed(A[k - 1].out, a[k]))
    BY <2>2, <2>3, <2>4, ScanSteps
  <2> QED BY <2>1, <2>2, <2>3, <2>5 DEF Scan
<1>9. C[m] = A[m] /\ A[m].mode = "text"
  <2>1. 0 .. m \subseteq T
    <3> HIDE DEF T
    <3> QED BY <1>7, <1>8, InductionUpTo
  <2> QED BY <2>1
<1>10. PICK p \in Seq(Char) : p = Sanitize(a) /\ C[m] = Scan("text", p)
  <2>1. A[m] \in Scans
    BY <1>2, <1>4
  <2> QED BY <1>2, <1>4, <1>9, <2>1 DEF Scans, Scan
<1> DEFINE U == {k \in 0 .. n : C[m + k] = Scan(B[k].mode, p \o B[k].out)}
<1>11. 0 \in U
  <2>1. B[0].mode = "text" /\ B[0].out = <<>>
    BY <1>5 DEF ScansOf
  <2>2. p \o <<>> = p
    BY ConcatEmptySeq
  <2>3. C[m] = Scan(B[0].mode, p \o B[0].out)
    BY <1>10, <2>1, <2>2, Zenon
  <2>4. m + 0 = m /\ 0 \in 0 .. n
    OBVIOUS
  <2> QED BY <2>3, <2>4
<1>12. ASSUME NEW k \in 1 .. n, k - 1 \in U PROVE k \in U
  <2>1. C[m + (k - 1)] = Scan(B[k - 1].mode, p \o B[k - 1].out)
    BY <1>12
  <2>2. B[k] = Step(B[k - 1], b[k]) /\ B[k - 1] \in Scans /\ b[k] \in Char
    <3>1. k \in 1 .. Len(b) /\ k - 1 \in 0 .. Len(b)
      BY <1>2
    <3>2. B[k] = Step(B[k - 1], b[k])
      BY <1>5, <3>1 DEF ScansOf
    <3>3. b[k] \in Char
      BY <3>1
    <3>4. B[k - 1] \in Scans
      BY <3>1, Zenon
    <3> QED BY <3>2, <3>3, <3>4
  <2>3. m + k \in 1 .. Len(t) /\ (m + k) - 1 = m + (k - 1)
    BY <1>3
  <2>4. C[m + k] = Step(C[m + (k - 1)], b[k])
    BY <1>3, <1>6, <2>3 DEF ScansOf
  <2>5. C[m + k] = Scan(B[k].mode, p \o B[k].out)
    BY <2>1, <2>2, <2>4, StepAfter
  <2> QED BY <2>5
<1>13. C[m + n] = Scan(B[n].mode, p \o B[n].out)
  <2>1. 0 .. n \subseteq U
    <3> HIDE DEF U
    <3> QED BY <1>11, <1>12, InductionUpTo
  <2> QED BY <2>1
<1>14. Sanitize(t) = p \o B[n].out
  <2>1. C[m + n] = C[Len(t)] /\ Scan(B[n].mode, p \o B[n].out).out = p \o B[n].out
    BY <1>3, Zenon DEF Scan
  <2> QED BY <1>6, <1>13, <2>1, Zenon
<1> QED
  BY <1>1, <1>2, <1>5, <1>10, <1>14, Zenon

\* Without an ESC there is no OSC to end.
LEMMA EscapelessEnds ==
  ASSUME NEW a \in Seq(Char), Escapeless(a)
  PROVE  WellTerminated(a)
BY DEF Escapeless, WellTerminated

-----------------------------------------------------------------------------
(* What is saved and what is shown.                                        *)

\* The findings of a report are a sequence of texts under ids, which are texts too.
Found == [id : Seq(Char) \cup {NoId}, summary : Seq(Char)]
Shaped(report) == report.findings \in Seq(Found)

LEMMA ReportsShaped ==
  /\ \A mode, units : Shaped(Written(mode, units))
  /\ Shaped(NoReport)
  /\ \A r \in Elsewhere : Shaped(r)
<1>1. \A mode, units : Shaped(Written(mode, units))
  <2>1. <<"letter">> \in Seq(Char)
    BY DEF Char, Shown
  <2>2. PICK f : f = [id |-> NoId, summary |-> <<"letter">>]
    OBVIOUS
  <2>3. f \in Found
    BY <2>1, <2>2 DEF Found
  <2>4. <<f>> \in Seq(Found)
    BY <2>3
  <2> QED BY <2>2, <2>4 DEF Shaped, Written
<1>2. Shaped(NoReport)
  BY DEF Shaped, NoReport
<1>3. ASSUME NEW r \in Elsewhere PROVE Shaped(r)
  <2>1. /\ <<"letter">> \in Seq(Char) /\ <<>> \in Seq(Char)
        /\ <<"ESC", "[", "letter">> \in Seq(Char)
        /\ <<"letter", "print">> \in Seq(Char)
        /\ <<"letter", "ESC">> \in Seq(Char)
        /\ <<"ESC", "]", "letter">> \in Seq(Char)
        /\ <<"letter", "ESC", "\\", "print">> \in Seq(Char)
        /\ <<"ESC", "]", "ESC", "letter", "letter">> \in Seq(Char)
    BY DEF Char, Shown
  <2>2. \A s \in Seq(Char), id \in Seq(Char) : Finding(id, s) \in Found
    BY DEF Finding, Found
  <2>3. PICK a, b, c, d, e, f, g :
          /\ a = Finding(F1, <<"letter">>)
          /\ b = Finding(F1, <<"ESC", "[", "letter">>)
          /\ c = Finding(F1, <<"letter">>)
          /\ d = Finding(F2, <<>>)
          /\ e = Finding(<<"letter", "ESC">>, <<"letter">>)
          /\ f = Finding(<<"ESC", "]", "letter">>, <<"letter", "ESC", "\\", "print">>)
          /\ g = Finding(F1, <<"ESC", "]", "ESC", "letter", "letter">>)
    OBVIOUS
  <2>4. /\ a \in Found /\ b \in Found /\ c \in Found /\ d \in Found
        /\ e \in Found /\ f \in Found /\ g \in Found
    BY <2>1, <2>2, <2>3 DEF F1, F2
  <2>5. r.findings \in {<<>>, <<a>>, <<b, c, d>>, <<e, f, g>>}
    BY <2>3 DEF Elsewhere
  <2>6. /\ <<>> \in Seq(Found) /\ <<a>> \in Seq(Found) /\ <<b, c, d>> \in Seq(Found)
        /\ <<e, f, g>> \in Seq(Found)
    BY <2>4
  <2> QED BY <2>5, <2>6 DEF Shaped
<1> QED
  BY <1>1, <1>2, <1>3

\* What a step does to the standard output of an analysis.
LEMMA OutputSteps ==
  ASSUME [Next]_vars
  PROVE  UNCHANGED stdout \/ stdout' = Nothing \/ AnalyzeNext
<1>1. CASE McpNext
  BY <1>1 DEF McpNext, Server, Send, Hear, HangUp, Skip, NotText, Dispatch, Analyze, Start, Analyzed,
              Write, WriteFails, InputEnds, McpChild, analyzeVars
<1> QED
  BY <1>1, StepsOfMcp DEF analyzeVars, RunMcp, Start

OutputShaped == Shaped(stdout.report)

LEMMA OutputShapedStep ==
  ASSUME RunTyped, OutputShaped, [Next]_vars
  PROVE  OutputShaped'
<1>1. CASE UNCHANGED stdout
  BY <1>1 DEF OutputShaped, Shaped
<1>2. CASE stdout' = Nothing
  BY <1>2, ReportsShaped DEF OutputShaped, Nothing, Shaped
<1>3. CASE AnalyzeNext
  <2>1. \/ stdout'.report = stdout.report
        \/ stdout'.report = Written(command.mode, verdict.report)
    BY <1>3 DEF AnalyzeNext, LogLine, Refuses, Analyzes, Fails, Prints, DiesPrinting, RunTyped
  <2> QED BY <2>1, ReportsShaped DEF OutputShaped, Shaped
<1> QED
  BY <1>1, <1>2, <1>3, OutputSteps

\* What a step does to the session, the saved report and the two views.
LEMMA StepsOfShell ==
  ASSUME [Next]_vars
  PROVE  \/ UNCHANGED <<running, saved, webVars, tuiVars>>
         \/ Save
         \/ Obtain
         \/ RunWeb
         \/ WebSession
         \/ RunTui
         \/ TuiSession
         \/ /\ Fresh /\ running' \in Sessions \ {"shell", "web", "tui"}
            /\ UNCHANGED <<saved, webVars, tuiVars>>
BY DEF Next, vars, RunAnalyze, AnalyzeSession, InMcp, RunMcp, RunModels, ModelSession, RunAudit,
       AuditSession, RunTrace, TraceSession, Sessions

\* The report file.
FileInv ==
  /\ running \in Sessions
  /\ saved.what \in {"absent", "nothing", "part"} \cup Outputs
  /\ Shaped(saved.report)

LEMMA FileInvStep ==
  ASSUME FileInv, RunTyped, OutputShaped, [Next]_vars
  PROVE  FileInv'
<1>1. CASE UNCHANGED <<running, saved>>
  BY <1>1 DEF FileInv, Shaped
<1>2. CASE Save
  BY <1>2 DEF Save, FileInv, RunTyped, AnalyzeTypeOK, OutputShaped, Shaped, Sessions
<1>3. CASE Obtain
  <2>1. PICK r \in Elsewhere : saved' = [log |-> FALSE, what |-> "json", report |-> r]
    BY <1>3 DEF Obtain
  <2>2. Shaped(r)
    BY ReportsShaped
  <2> QED BY <1>3, <2>1, <2>2 DEF Obtain, FileInv, Shaped, Outputs
<1>4. CASE UNCHANGED saved /\ running' \in Sessions
  BY <1>4 DEF FileInv, Shaped
<1> QED
  BY <1>1, <1>2, <1>3, <1>4, StepsOfShell DEF RunWeb, WebSession, RunTui, TuiSession, Sessions

\* Every finding has an id; so it is of a report that can be read again.
Named(report) == \A i \in DOMAIN report.findings : report.findings[i].id # NoId

\* The web server and the terminal UI show the saved report, each in its own session,
\* and before it nothing.
ViewInv ==
  /\ web \in {"off", "binding", "serving", "refused"}
  /\ web # "off" => running = "web"
  /\ web = "off" => page.findings = <<>>
  /\ web \in {"binding", "serving"} => page = RenderPage(saved.report) /\ Named(saved.report)
  /\ tui \in {"off", "raw", "screen", "terminal", "loop", "restore", "leave", "over"}
  /\ tui # "off" => running = "tui"
  /\ tui = "off" => viewed.findings = <<>> /\ selected = 0 /\ expanded = {}
  /\ tui \notin {"off", "over"} => viewed = saved.report /\ Named(saved.report)
  /\ Shaped(viewed)

LEMMA ViewInvStep ==
  ASSUME ViewInv, FileInv, [Next]_vars
  PROVE  ViewInv'
<1>1. CASE UNCHANGED <<running, saved, webVars, tuiVars>>
  BY <1>1 DEF ViewInv, webVars, tuiVars, Shaped, Named
<1>2. CASE Save \/ Obtain
  BY <1>2 DEF Save, Obtain, Fresh, ViewInv, webVars, tuiVars, Shaped, Named
<1>3. CASE RunWeb
  <2>1. PICK loopback \in BOOLEAN : OpenWeb(loopback, Readable, saved.report)
    BY <1>3 DEF RunWeb
  <2> QED BY <1>3, <2>1 DEF RunWeb, OpenWeb, Opened, ViewInv, tuiVars, Shaped, Named, Readable, Parses
<1>4. CASE WebSession
  <2>1. /\ running = "web" /\ running' = running /\ saved' = saved /\ UNCHANGED tuiVars
        /\ page' = page
        /\ web' = web \/ (web = "binding" /\ web' \in {"serving", "refused"})
    BY <1>4 DEF WebSession, WebNext, Bind, Ask, Break, Handle, Lock, LockFails, Compare, Rotate,
                RotateFails, Deliver
  <2> QED BY <2>1 DEF ViewInv, tuiVars, Shaped, Named
<1>5. CASE RunTui
  BY <1>5 DEF RunTui, OpenTui, ViewInv, FileInv, webVars, Shaped, Named, Readable, Parses
<1>6. CASE TuiSession
  <2>1. /\ running = "tui" /\ running' = running /\ saved' = saved /\ UNCHANGED webVars
        /\ viewed' = viewed /\ tui # "off"
        /\ tui' \in {"raw", "screen", "terminal", "loop", "restore", "leave", "over"}
        /\ tui = "over" => tui' = "over"
    BY <1>6 DEF TuiSession, TuiNext, EnableRaw, EnterAlternate, MakeTerminal, Move, Toggle, Quit,
                LoopFails, AfterFailure, DisableRaw, LeaveAlternate, Proceeds, GivesUp, ViewInv
  <2> QED BY <2>1 DEF ViewInv, webVars, Shaped, Named
<1>7. CASE /\ Fresh /\ running' \in Sessions \ {"shell", "web", "tui"}
           /\ UNCHANGED <<saved, webVars, tuiVars>>
  BY <1>7 DEF Fresh, ViewInv, webVars, tuiVars, Shaped, Named
<1> QED
  BY <1>1, <1>2, <1>3, <1>4, <1>5, <1>6, <1>7, StepsOfShell

LEMMA TextsJoined ==
  ASSUME NEW x \in Seq(Char), NEW y \in Seq(Char), NEW z, z = x \o y
  PROVE  /\ z \in Seq(Char) /\ Len(z) = Len(x) + Len(y)
         /\ \A i \in 1 .. Len(x) : z[i] = x[i]
         /\ \A i \in 1 .. Len(y) : z[Len(x) + i] = y[i]
OBVIOUS

\* The caret, the brackets and an id before a summary.
LEMMA BeforeSummaries ==
  ASSUME NEW f \in Found, f.id # NoId
  PROVE  /\ f.id \in Seq(Char) /\ f.summary \in Seq(Char)
         /\ BeforeSummary(f) \in Seq(Char)
         /\ BeforeSummary(f) \o f.summary \in Seq(Char)
         /\ Escapeless(f.id) => Escapeless(BeforeSummary(f))
<1>1. PICK n \in Seq(Char) : n = f.id
  BY DEF Found
<1>2. PICK s \in Seq(Char) : s = f.summary
  BY DEF Found
<1>3. PICK x, y : x = <<"print", "print", "[">> /\ y = <<"]", "print">>
  OBVIOUS
<1>4. /\ x \in Seq(Char) /\ y \in Seq(Char) /\ Len(x) = 3 /\ Len(y) = 2
      /\ \A i \in 1 .. 3 : x[i] # "ESC"
      /\ \A i \in 1 .. 2 : y[i] # "ESC"
  <2>1. {"print", "[", "]"} \subseteq Char
    BY DEF Char, Shown
  <2>2. x \in Seq(Char) /\ y \in Seq(Char) /\ Len(x) = 3 /\ Len(y) = 2
    BY <1>3, <2>1
  <2>3. x[1] # "ESC" /\ x[2] # "ESC" /\ x[3] # "ESC" /\ y[1] # "ESC" /\ y[2] # "ESC"
    BY <1>3
  <2>4. 1 .. 3 = {1, 2, 3} /\ 1 .. 2 = {1, 2}
    OBVIOUS
  <2> QED BY <2>2, <2>3, <2>4
<1>5. PICK u \in Seq(Char) : u = x \o n
  <2>1. PICK z : z = x \o n
    OBVIOUS
  <2> QED BY <1>4, <2>1, TextsJoined, Zenon
<1>6. PICK v \in Seq(Char) : v = u \o y
  <2>1. PICK z : z = u \o y
    OBVIOUS
  <2> QED BY <1>4, <2>1, TextsJoined, Zenon
<1>7. /\ Len(u) = 3 + Len(n)
      /\ \A i \in 1 .. 3 : u[i] = x[i]
      /\ \A i \in 1 .. Len(n) : u[3 + i] = n[i]
  <2>1. x \in Seq(Char) /\ n \in Seq(Char) /\ u = x \o n
    BY <1>4, <1>5
  <2>2. /\ Len(u) = Len(x) + Len(n)
        /\ \A i \in 1 .. Len(x) : u[i] = x[i]
        /\ \A i \in 1 .. Len(n) : u[Len(x) + i] = n[i]
    BY <2>1
  <2> QED BY <1>4, <2>2, Zenon
<1>8. /\ Len(v) = Len(u) + 2
      /\ \A i \in 1 .. Len(u) : v[i] = u[i]
      /\ \A i \in 1 .. 2 : v[Len(u) + i] = y[i]
  <2>1. y \in Seq(Char) /\ u \in Seq(Char) /\ v = u \o y
    BY <1>4, <1>6
  <2>2. /\ Len(v) = Len(u) + Len(y)
        /\ \A i \in 1 .. Len(u) : v[i] = u[i]
        /\ \A i \in 1 .. Len(y) : v[Len(u) + i] = y[i]
    BY <2>1
  <2> QED BY <1>4, <2>2, Zenon
<1>9. v = BeforeSummary(f)
  <2>1. (x \o n) \o y = x \o (n \o y)
    <3>1. x \in Seq(Char) /\ n \in Seq(Char) /\ y \in Seq(Char)
      BY <1>4
    <3> QED BY <3>1
  <2>2. BeforeSummary(f) = x \o n \o y
    BY <1>1, <1>3, Zenon DEF BeforeSummary
  <2> QED BY <1>5, <1>6, <2>1, <2>2
<1>10. v \o s \in Seq(Char)
  OBVIOUS
<1>11. ASSUME Escapeless(n), NEW i \in 1 .. Len(v) PROVE v[i] # "ESC"
  <2>1. Len(n) \in Nat /\ Len(u) \in Nat
    OBVIOUS
  <2>2. CASE i \in 1 .. 3
    BY <1>4, <1>7, <1>8, <2>1, <2>2
  <2>3. CASE i \in 4 .. Len(u)
    <3>1. PICK k \in 1 .. Len(n) : i = 3 + k
      <4>1. i - 3 \in 1 .. Len(n) /\ i = 3 + (i - 3)
        BY <1>7, <2>1, <2>3
      <4> QED BY <4>1
    <3>2. v[i] = n[k]
      BY <1>7, <1>8, <2>1, <2>3, <3>1
    <3> QED BY <1>11, <3>2 DEF Escapeless
  <2>4. CASE i > Len(u)
    <3>1. PICK k \in 1 .. 2 : i = Len(u) + k
      <4>1. i - Len(u) \in 1 .. 2 /\ i = Len(u) + (i - Len(u))
        BY <1>8, <2>1, <2>4
      <4> QED BY <4>1
    <3> QED BY <1>4, <1>8, <3>1
  <2> QED BY <2>1, <2>2, <2>3, <2>4
<1>12. Escapeless(n) => Escapeless(v)
  BY <1>11 DEF Escapeless
<1> QED
  BY <1>1, <1>2, <1>9, <1>10, <1>12, Zenon

\* The views show of each finding what is plain in its texts.
LEMMA ViewsPlain ==
  ASSUME ViewInv, FileInv
  PROVE  ShownAsDocumented
<1> DEFINE fs == saved.report.findings
<1>1. SanitizeIsPlain
  <2>1. Texts \subseteq Seq(Char)
    BY TextLimitAssumption DEF Texts
  <2> QED BY <2>1, SanitizeKeepsPlain DEF SanitizeIsPlain
<1>2. \A i \in DOMAIN fs : fs[i] \in Found
  BY DEF FileInv, Shaped
<1>3. ASSUME web = "serving" PROVE PageAsDocumented
  <2> SUFFICES ASSUME NEW i \in DOMAIN fs
               PROVE  /\ WellTerminated(fs[i].id) => page.findings[i].id = Plain(fs[i].id)
                      /\ WellTerminated(fs[i].summary) =>
                           page.findings[i].text = Plain(fs[i].summary)
    BY DEF PageAsDocumented
  <2>1. page = RenderPage(saved.report) /\ fs[i].id # NoId
    BY <1>3 DEF ViewInv, Named
  <2>2. page.findings[i] = PageFinding(fs[i])
    BY <2>1 DEF RenderPage
  <2>3. page.findings[i].id = Sanitize(fs[i].id) /\ page.findings[i].text = Sanitize(fs[i].summary)
    BY <2>2 DEF PageFinding
  <2>4. fs[i].id \in Seq(Char) /\ fs[i].summary \in Seq(Char)
    BY <1>2, <2>1, BeforeSummaries
  <2> QED BY <2>3, <2>4, SanitizeKeepsPlain
<1>4. ASSUME tui = "loop" PROVE ScreenAsDocumented
  <2> SUFFICES ASSUME NEW i \in DOMAIN fs
               PROVE  LET b == BeforeSummary(fs[i])
                          s == fs[i].summary
                      IN  /\ WellTerminated(b \o s) => Screen[i].line = Plain(b \o s)
                          /\ Escapeless(fs[i].id) /\ WellTerminated(s) =>
                               Screen[i].line = Plain(b) \o Plain(s)
    BY DEF ScreenAsDocumented
  <2>1. Findings = fs /\ fs[i].id # NoId
    BY <1>4 DEF ViewInv, Named, Findings
  <2>2. PICK b, s, t : b = BeforeSummary(fs[i]) /\ s = fs[i].summary /\ t = b \o s
    OBVIOUS
  <2>3. Screen[i].line = Sanitize(t)
    BY <2>1, <2>2 DEF Screen, ListLine
  <2>4. /\ b \in Seq(Char) /\ s \in Seq(Char) /\ t \in Seq(Char)
        /\ Escapeless(fs[i].id) => Escapeless(b)
    BY <1>2, <2>1, <2>2, BeforeSummaries
  <2>5. WellTerminated(t) => Sanitize(t) = Plain(t)
    BY <2>4, SanitizeKeepsPlain
  <2>6. ASSUME Escapeless(fs[i].id), WellTerminated(s)
        PROVE  Sanitize(t) = Plain(b) \o Plain(s)
    <3>1. Sanitize(t) = Sanitize(b) \o Sanitize(s)
      BY <2>2, <2>4, <2>6, EscapelessFirst
    <3>2. Sanitize(b) = Plain(b) /\ Sanitize(s) = Plain(s)
      BY <2>4, <2>6, EscapelessEnds, SanitizeKeepsPlain
    <3> QED BY <3>1, <3>2
  <2> QED BY <2>2, <2>3, <2>5, <2>6
<1> QED
  BY <1>1, <1>3, <1>4 DEF ShownAsDocumented

LEMMA ViewsInitially == ASSUME Init PROVE OutputShaped /\ FileInv /\ ViewInv
<1>1. saved = [log |-> FALSE, what |-> "absent", report |-> NoReport]
  BY DEF Init, Absent, Nothing
<1>2. FileInv
  BY <1>1, ReportsShaped DEF Init, FileInv, Sessions, Shaped
<1>3. OutputShaped
  BY ReportsShaped DEF Init, AnalyzeInit, Nothing, OutputShaped, Shaped
<1>4. ViewInv
  BY DEF Init, WebInit, TuiInit, ViewInv, Shaped
<1> QED
  BY <1>2, <1>3, <1>4

\* ShownAsDocumented: whatever the report, the page shows of each text that ends its
\* OSCs as the comments expect what they call plain, and the screen of each line; and on
\* the screen an id without an ESC has the whole of its summary after it.
THEOREM ViewsShowPlainText == Spec => []ShownAsDocumented
<1> DEFINE Inv == McpInv /\ RunTyped /\ OutputShaped /\ FileInv /\ ViewInv
<1>1. Init => Inv
  BY McpInitially, RunTypedInitially, ViewsInitially
<1>2. Inv /\ [Next]_vars => Inv'
  BY McpInvStep, RunTypedStep, OutputShapedStep, FileInvStep, ViewInvStep
<1>3. Inv => ShownAsDocumented
  BY ViewsPlain
<1> QED
  BY <1>1, <1>2, <1>3, PTL DEF Spec

-----------------------------------------------------------------------------
(* The types of the rest.                                                  *)

\* The cursor of the terminal UI stays on a finding, if there is one.
TuiFields ==
  /\ ended \in Endings
  /\ selected \in Nat
  /\ selected = 0 \/ selected < Len(viewed.findings)
  /\ expanded \subseteq {viewed.findings[i].id : i \in DOMAIN viewed.findings}

LEMMA TuiFieldsStep ==
  ASSUME TuiFields, TuiInv, ViewInv, TuiStep \/ UNCHANGED tuiVars
  PROVE  TuiFields'
<1> USE DEF TuiFields
<1>1. PICK n \in Nat : n = Len(viewed.findings) /\ DOMAIN viewed.findings = 1 .. n
  BY DEF ViewInv, Shaped
<1>2. CASE UNCHANGED <<viewed, selected, expanded>> /\ ended' \in Endings
  BY <1>2
<1>3. CASE UNCHANGED tuiVars
  BY <1>3 DEF tuiVars
<1>4. CASE \E r \in BOOLEAN : OpenTui(r, saved.report)
  BY <1>4 DEF OpenTui, ViewInv, Endings
<1>5. CASE Move
  BY <1>1, <1>5 DEF Move, Before, Findings
<1>6. CASE Toggle
  <2>1. selected + 1 \in DOMAIN viewed.findings
    BY <1>1, <1>6 DEF Toggle, Findings
  <2> QED BY <1>6, <2>1 DEF Toggle, Findings
<1> QED
  BY <1>2, <1>3, <1>4, <1>5, <1>6
  DEF TuiStep, TuiNext, EnableRaw, EnterAlternate, MakeTerminal, Quit, LoopFails, DisableRaw,
      LeaveAlternate, Proceeds, GivesUp, Endings

\* Of a nonempty report exactly one finding has the cursor.
LEMMA OneCursor ==
  ASSUME TuiFields, ViewInv, Findings # <<>>
  PROVE  Cardinality({i \in DOMAIN Screen : Screen[i].cursor}) = 1
<1>1. PICK n \in Nat : n = Len(Findings) /\ DOMAIN Findings = 1 .. n
  BY DEF ViewInv, Shaped, Findings
<1>2. n > 0
  BY <1>1 DEF ViewInv, Shaped, Findings
<1>3. selected + 1 \in 1 .. n /\ selected \in Nat
  BY <1>1, <1>2 DEF TuiFields, Findings
<1>4. DOMAIN Screen = 1 .. n /\ \A i \in 1 .. n : Screen[i].cursor <=> selected = i - 1
  BY <1>1 DEF Screen
<1>5. {i \in DOMAIN Screen : Screen[i].cursor} = {selected + 1}
  BY <1>3, <1>4
<1> QED
  BY <1>5, FS_Singleton

\* Neither pipe of the MCP server holds more than it can.
McpFlow ==
  /\ client \in {"on", "quiet", "gone"}
  /\ heard \in 0 .. Len(replies)
  /\ Len(sent) - taken <= PipeCap
  /\ Len(replies) - heard <= PipeCap

LEMMA McpFlowStep ==
  ASSUME McpFlow, McpInv, [Next]_vars
  PROVE  McpFlow'
<1> USE McpAssumption DEF McpFlow
<1>1. PICK s, r \in Nat : s = Len(sent) /\ r = Len(replies) /\ taken \in 0 .. s /\ PipeCap \in Nat
  BY DEF McpInv, McpShape
<1>2. CASE UNCHANGED <<client, sent, taken, replies, heard>>
  BY <1>2
<1>3. CASE Send
  <2>1. PICK l \in Lines : sent' = Append(sent, l)
    BY <1>3 DEF Send
  <2>2. Len(sent') = s + 1
    BY <1>1, <2>1 DEF McpInv, McpShape
  <2> QED BY <1>1, <1>3, <2>2 DEF Send
<1>4. CASE Hear \/ HangUp
  BY <1>1, <1>4 DEF Hear, HangUp
<1>5. CASE TakeNext
  BY <1>1, <1>5 DEF TakeNext
<1>6. CASE Write
  <2>1. Len(replies') = r + 1
    BY <1>1, <1>6 DEF Write, McpInv, McpShape
  <2> QED BY <1>1, <1>6, <2>1 DEF Write
<1> QED
  BY <1>2, <1>3, <1>4, <1>5, <1>6, StepsOfMcp
  DEF mcpVars, RunMcp, McpNext, Server, Skip, NotText, Dispatch, Analyze, Analyzed, WriteFails,
      InputEnds, McpChild

\* What is in the files of the model store: right and wrong blocks, no more of them than
\* the limit, and the model of the manifest until power fails over it.
Blocks == UNION {[1 .. n -> Block] : n \in 0 .. MaxBlocks}

ModelFields ==
  /\ tmp \in [Puller -> ModelFiles]
  /\ \A p \in Puller : pull[p] = "receiving" => tmp[p] \in Blocks
  /\ dest \in ModelFiles
  /\ flushed \/ dest = Good
  /\ blackout \in {"none", "flushed", "unflushed"}

LEMMA BlocksGrow ==
  /\ <<>> \in Blocks
  /\ \A n \in 0 .. 2 : SubSeq(Good, 1, n) \in Blocks
  /\ Good \in Blocks
  /\ \A f \in Blocks, b \in Block : Len(f) < MaxBlocks => Append(f, b) \in Blocks
<1>1. MaxBlocks \in Nat /\ 0 \in 0 .. MaxBlocks /\ 1 \in 0 .. MaxBlocks /\ 2 \in 0 .. MaxBlocks
  BY ModelStoreAssumption
<1>2. ASSUME NEW n \in 0 .. MaxBlocks, NEW f \in Seq(Block), Len(f) = n
      PROVE  f \in Blocks
  <2>1. f \in [1 .. n -> Block]
    BY <1>2
  <2> QED BY <2>1 DEF Blocks
<1>3. Good \in Seq(Block) /\ Len(Good) = 2
  BY DEF Good, Block
<1>4. ASSUME NEW n \in 0 .. 2 PROVE SubSeq(Good, 1, n) \in Blocks
  <2>1. PICK f : f = SubSeq(Good, 1, n)
    OBVIOUS
  <2>2. f \in Seq(Block) /\ Len(f) = n
    BY <1>3, <2>1
  <2>3. n \in 0 .. MaxBlocks
    BY <1>1
  <2>4. f \in Blocks
    BY <1>2, <2>2, <2>3
  <2> QED BY <2>1, <2>4
<1>5. ASSUME NEW f \in Blocks, NEW b \in Block, Len(f) < MaxBlocks
      PROVE  Append(f, b) \in Blocks
  <2>1. PICK n \in 0 .. MaxBlocks : f \in [1 .. n -> Block]
    BY DEF Blocks
  <2>2. f \in Seq(Block) /\ Len(f) = n /\ n \in Nat
    BY <1>1, <2>1
  <2>3. Append(f, b) \in Seq(Block) /\ Len(Append(f, b)) = n + 1
    BY <2>2
  <2>4. n + 1 \in 0 .. MaxBlocks
    BY <1>1, <1>5, <2>2
  <2> QED BY <1>2, <2>3, <2>4
<1>6. <<>> \in Seq(Block) /\ Len(<<>>) = 0
  OBVIOUS
<1> QED
  BY <1>1, <1>2, <1>3, <1>4, <1>5, <1>6

LEMMA ModelFieldsStep ==
  ASSUME ModelFields, ModelInv, ModelNext \/ UNCHANGED modelVars
  PROVE  ModelFields'
<1>1. /\ NoFile \in ModelFiles /\ Good \in ModelFiles /\ Blocks \subseteq ModelFiles
      /\ <<>> \in Blocks /\ Good \in Blocks
  BY BlocksGrow DEF ModelFiles, Blocks
<1> USE <1>1 DEF ModelFields, ModelInv, PullIs, TmpIs
<1>2. CASE UNCHANGED modelVars
  BY <1>2 DEF modelVars
<1>3. ASSUME NEW p \in Puller, Pull(p) PROVE ModelFields'
  BY <1>3 DEF Pull
<1>4. ASSUME NEW p \in Puller, Connect(p) PROVE ModelFields'
  BY <1>4 DEF Connect
<1>5. ASSUME NEW p \in Puller, Receive(p) PROVE ModelFields'
  <2>1. PICK b \in Block : tmp' = [tmp EXCEPT ![p] = Append(tmp[p], b)]
    BY <1>5 DEF Receive
  <2>2. Append(tmp[p], b) \in Blocks
    BY <1>5, BlocksGrow DEF Receive
  <2> QED BY <1>5, <2>1, <2>2 DEF Receive
<1>6. ASSUME NEW p \in Puller, ReceiveFails(p) PROVE ModelFields'
  BY <1>6 DEF ReceiveFails, GivesUpPull, TmpDropped
<1>7. ASSUME NEW p \in Puller, BodyEnds(p) PROVE ModelFields'
  BY <1>7 DEF BodyEnds, GivesUpPull, TmpDropped
<1>8. ASSUME NEW p \in Puller, Persist(p) PROVE ModelFields'
  BY <1>8 DEF Persist, GivesUpPull, TmpDropped
<1>9. ASSUME NEW p \in Puller, KillPuller(p) PROVE ModelFields'
  BY <1>9 DEF KillPuller
<1>10. CASE Flush
  BY <1>10 DEF Flush
<1>11. CASE PowerFails
  <2>1. dest' \in ModelFiles
    <3>1. CASE flushed
      BY <1>11, <3>1 DEF PowerFails
    <3>2. CASE ~flushed
      <4>1. Len(Good) = 2
        BY DEF Good
      <4>2. dest = Good
        BY <3>2
      <4>3. dest' \in {SubSeq(Good, 1, n) : n \in 0 .. 2}
        BY <1>11, <3>2, <4>1, <4>2 DEF PowerFails
      <4>4. {SubSeq(Good, 1, n) : n \in 0 .. 2} \subseteq Blocks
        BY BlocksGrow
      <4> QED BY <4>3, <4>4
    <3> QED BY <3>1, <3>2
  <2>2. \A p \in Puller : pull'[p] = "receiving" => pull[p] = "receiving"
    BY <1>11 DEF PowerFails
  <2> QED BY <1>11, <2>1, <2>2 DEF PowerFails
<1> QED
  BY <1>2, <1>3, <1>4, <1>5, <1>6, <1>7, <1>8, <1>9, <1>10, <1>11 DEF ModelNext, PullStep

BrokenTyped == broken \subseteq Browser

LEMMA BrokenTypedStep ==
  ASSUME BrokenTyped, WebStep \/ UNCHANGED webVars
  PROVE  BrokenTyped'
BY DEF BrokenTyped, WebStep, WebNext, webVars, OpenWeb, Bind, Ask, Break, Handle, Lock, LockFails,
       Compare, Rotate, RotateFails, Deliver

LEMMA FieldsInitially == ASSUME Init PROVE TuiFields /\ McpFlow /\ ModelFields /\ BrokenTyped
<1>1. TuiFields
  BY DEF Init, TuiInit, TuiFields, Endings
<1>2. McpFlow
  BY McpAssumption DEF Init, McpInit, McpFlow
<1>3. ModelFields
  BY DEF Init, ModelInit, ModelFields, ModelFiles
<1> QED
  BY <1>1, <1>2, <1>3 DEF Init, WebInit, BrokenTyped

\* All that the types need.
Typed ==
  /\ McpInv /\ RunTyped /\ OutputShaped /\ FileInv /\ ViewInv
  /\ WebInv /\ ModelInv /\ TuiInv /\ TraceInv /\ LogInv
  /\ TuiFields /\ McpFlow /\ ModelFields /\ BrokenTyped

LEMMA TypedSuffices == Typed => TypeOK
<1> SUFFICES ASSUME Typed PROVE TypeOK
  OBVIOUS
<1> USE DEF Typed
<1>1. running \in Sessions /\ saved.what \in {"absent", "nothing", "part"} \cup Outputs
  BY DEF FileInv
<1>2. AnalyzeTypeOK
  BY DEF RunTyped
<1>3. McpTypeOK
  BY McpAssumption DEF McpInv, McpShape, McpFlow, McpTypeOK
<1>4. WebTypeOK
  BY DEF WebInv, ViewInv, BrokenTyped, WebTypeOK
<1>5. TuiTypeOK
  BY OneCursor DEF TuiInv, ViewInv, TuiFields, TuiTypeOK, Findings
<1>6. ModelTypeOK
  BY DEF ModelInv, ModelFields, ModelTypeOK
<1>7. AuditTypeOK /\ TraceTypeOK
  BY TraceReads DEF LogInv
<1> QED
  BY <1>1, <1>2, <1>3, <1>4, <1>5, <1>6, <1>7 DEF TypeOK

\* TypeOK: the types of all the sessions, and with them that the cursor of the terminal
\* UI always stands on exactly one finding and that no pipe of the MCP server is filled
\* beyond what it holds.
THEOREM SessionsTyped == Spec => []TypeOK
<1>1. Init => Typed
  <2> SUFFICES ASSUME Init PROVE Typed
    OBVIOUS
  <2>1. McpInv /\ RunTyped /\ OutputShaped /\ FileInv /\ ViewInv
    BY McpInitially, RunTypedInitially, ViewsInitially
  <2>2. WebInv /\ ModelInv /\ TuiInv /\ TraceInv /\ LogInv
    BY WebInitially, ModelInitially, TuiInitially, TraceInitially, LogInvInit DEF Init
  <2> QED BY <2>1, <2>2, FieldsInitially DEF Typed
<1>2. Typed /\ [Next]_vars => Typed'
  <2> SUFFICES ASSUME Typed, [Next]_vars PROVE Typed'
    OBVIOUS
  <2>1. (McpInv /\ RunTyped /\ OutputShaped /\ FileInv /\ ViewInv)'
    BY McpInvStep, RunTypedStep, OutputShapedStep, FileInvStep, ViewInvStep DEF Typed
  <2>2. (WebInv /\ ModelInv /\ TuiInv /\ TraceInv /\ LogInv)'
    BY StepsOfSessions, WebInvStep, ModelInvStep, TuiInvStep, TraceInvStep, LogStepKeeps DEF Typed
  <2>3. (TuiFields /\ McpFlow /\ ModelFields /\ BrokenTyped)'
    BY StepsOfSessions, TuiFieldsStep, McpFlowStep, ModelFieldsStep, BrokenTypedStep DEF Typed
  <2> QED BY <2>1, <2>2, <2>3 DEF Typed
<1>3. Typed => TypeOK
  BY TypedSuffices
<1> QED
  BY <1>1, <1>2, <1>3, PTL DEF Spec
=============================================================================
