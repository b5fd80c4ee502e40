------------------------------- MODULE ModeA -------------------------------
(***************************************************************************)
(* run_sandboxed and the reader it spawns, in analyze mode.                *)
(*                                                                         *)
(*   host --stdin--> reader --report--> host                               *)
(*                                                                         *)
(* The file set is what build_fileset returned: for each entry the size    *)
(* the walker saw and the bytes read afterwards.  A file that shrank in    *)
(* between leaves fewer bytes than its size, and write_fileset_protocol    *)
(* announces the size.                                                     *)
(*                                                                         *)
(* The stdin pipe carries bytes (FrameStream), PipeCap of them at most;    *)
(* the report pipe carries one unit per input of the report and one for    *)
(* what follows the inputs.                                                *)
(***************************************************************************)
EXTENDS Pipes, FrameStream, FiniteSets

CONSTANTS
  MaxFiles,    \* bound: entries in a file set
  Content,     \* bound: the bytes a file may hold
  MayInherit,  \* the numbers some descriptor of the host's parent may occupy
  Faults       \* what may go wrong: subset of {"spawn", "reader"}

ASSUME MaxFilesAssumption   == MaxFiles \in 1 .. CountLimit
ASSUME ContentAssumption    == Content \subseteq Byte
ASSUME MayInheritAssumption == MayInherit \subseteq Fd
ASSUME FaultsAssumption     == Faults \subseteq {"spawn", "reader"}

Pipe     == {"stdin", "report"}
PipeEnds == Pipe \X {"r", "w"}
Proc     == {"host", "reader"}

\* Bound: paths of one byte, contents up to the limit; one path above its limit,
\* and one content above it (--fd is guarded by no WalkLimits).
Entries ==
  {[path |-> <<0>>, size |-> n, bytes |-> b] :
     n \in 0 .. EntryLimit, b \in UNION {[1 .. k -> Content] : k \in 0 .. EntryLimit}}
Acceptable == {e \in Entries : Len(e.bytes) <= e.size}
TooLong    == [path |-> [i \in 1 .. PathLimit + 1 |-> 0], size |-> 0, bytes |-> <<>>]
TooLarge   == [path |-> <<0>>, size |-> EntryLimit + 1,
               bytes |-> [i \in 1 .. EntryLimit + 1 |-> 0]]
FileSet == UNION {[1 .. n -> Acceptable \cup {TooLong, TooLarge}] : n \in 0 .. MaxFiles}

VARIABLES
  fileset,  \* the file set being analysed
  fd,       \* process -> its descriptor table
  buf,      \* pipe -> what it buffers
  host,     \* where run_sandboxed is
  result,   \* what it returned: "none" while running, "ok" or "err"
  sent,     \* how many bytes of the stream the host has written
  report,   \* the report units the host has read
  reader,   \* "unborn", "reading", "writing", "ok" or "failed"
  parse,    \* how far read_frames is
  gave,     \* how many units of the report the reader has written
  hit       \* the faults that have struck

vars == <<fileset, fd, buf, host, result, sent, report, reader, parse, gave, hit>>

Input(frame) == <<"input", frame>>
Close        == <<"close", 0>>

ReportUnits == [i \in 1 .. Len(parse.frames) + 1 |->
                  IF i <= Len(parse.frames) THEN Input(parse.frames[i]) ELSE Close]

\* The pre_exec closure: two dup2 calls over the host's table, in order.
ReaderTableSwapped(t) ==
  Dup2(Dup2(t, NumberOf(t, ReadEnd("stdin")), 5), NumberOf(t, WriteEnd("report")), 3)
ReaderTable(t) ==
  LET r == NumberOf(t, ReadEnd("stdin"))
      w == NumberOf(t, WriteEnd("report"))
  IN  Dup2(Dup2(t, r, 3), w, 5)

\* What the host drops once the reader runs.
HandedOutButReport == {ReadEnd("stdin")}
HandedOut          == {ReadEnd("stdin"), WriteEnd("report")}

In  == fd["reader"][3]
Out == fd["reader"][5]

-----------------------------------------------------------------------------
(* The host.                                                               *)

Init ==
  /\ fileset \in FileSet
  /\ \E inherited \in SUBSET MayInherit :
       fd = [p \in Proc |->
               IF p = "host"
               THEN [n \in Fd |-> IF n \in inherited THEN Foreign ELSE Closed]
               ELSE NoFds]
  /\ buf = [p \in Pipe |-> <<>>]
  /\ host = "pipe1"
  /\ result = "none"
  /\ sent = 0
  /\ report = <<>>
  /\ reader = "unborn"
  /\ parse = Start
  /\ gave = 0
  /\ hit = {}

\* Every return drops the host's OwnedFds and the Child handle.
Return(r) ==
  /\ host' = "done"
  /\ result' = r
  /\ fd' = [fd EXCEPT !["host"] = Dropping(@, PipeEnds)]

CreatePipe(at, p, next) ==
  /\ host = at
  /\ \E r, w \in Fd :
       /\ TwoLowest(fd["host"], r, w)
       /\ fd' = [fd EXCEPT !["host"] = WithPipe(@, p, r, w)]
  /\ host' = next
  /\ UNCHANGED <<fileset, buf, result, sent, report, reader, parse, gave, hit>>

PipeFails ==
  /\ host \in {"pipe1", "pipe2"}
  /\ ~ \E r, w \in Free(fd["host"]) : r # w
  /\ Return("err")
  /\ UNCHANGED <<fileset, buf, sent, report, reader, parse, gave, hit>>

\* spawn(), then drop(stdin_r) and drop(report_w).
Spawn ==
  /\ host = "spawn"
  /\ fd' = [host   |-> Dropping(fd["host"], HandedOut),
            reader |-> ReaderTable(fd["host"])]
  /\ reader' = "reading"
  /\ host' = "write"
  /\ UNCHANGED <<fileset, buf, result, sent, report, parse, gave, hit>>

SpawnFails ==
  /\ "spawn" \in Faults
  /\ host = "spawn"
  /\ hit' = hit \cup {"spawn"}
  /\ Return("err")
  /\ UNCHANGED <<fileset, buf, sent, report, reader, parse, gave>>

\* write_to_sandbox_pipe writes on until everything is written.
WriteByte ==
  /\ host = "write"
  /\ sent < Len(Stream(fileset))
  /\ HasReader(fd, WriteEnd("stdin"))
  /\ HasRoom(buf, WriteEnd("stdin"))
  /\ buf' = Put(buf, WriteEnd("stdin"), Stream(fileset)[sent + 1])
  /\ sent' = sent + 1
  /\ UNCHANGED <<fileset, fd, host, result, report, reader, parse, gave, hit>>

\* EPIPE: `?` returns at once, and the reader's status is never looked at.
WriteFails ==
  /\ host = "write"
  /\ sent < Len(Stream(fileset))
  /\ ~HasReader(fd, WriteEnd("stdin"))
  /\ Return("err")
  /\ UNCHANGED <<fileset, buf, sent, report, reader, parse, gave, hit>>

DropStdin ==
  /\ host = "write"
  /\ sent = Len(Stream(fileset))
  /\ fd' = [fd EXCEPT !["host"] = Dropping(@, {WriteEnd("stdin")})]
  /\ host' = "read"
  /\ UNCHANGED <<fileset, buf, result, sent, report, reader, parse, gave, hit>>

ReadReport ==
  /\ host = "read"
  /\ Readable(buf, ReadEnd("report"))
  /\ report' = Append(report, Head(buf["report"]))
  /\ buf' = Pop(buf, ReadEnd("report"))
  /\ UNCHANGED <<fileset, fd, host, result, sent, reader, parse, gave, hit>>

StopReading ==
  /\ host = "read"
  /\ AtEof(fd, buf, ReadEnd("report"))
  /\ host' = "wait"
  /\ UNCHANGED <<fileset, fd, buf, result, sent, report, reader, parse, gave, hit>>

VerdictOfReport == IF report # <<>> THEN "ok" ELSE "err"
Verdict == IF reader = "ok" THEN "ok" ELSE "err"

Wait ==
  /\ host = "wait"
  /\ reader \in {"ok", "failed"}
  /\ Return(Verdict)
  /\ UNCHANGED <<fileset, buf, sent, report, reader, parse, gave, hit>>

HostNext ==
  \/ CreatePipe("pipe1", "stdin", "pipe2")
  \/ CreatePipe("pipe2", "report", "spawn")
  \/ PipeFails
  \/ Spawn \/ SpawnFails
  \/ WriteByte \/ WriteFails \/ DropStdin
  \/ ReadReport \/ StopReading \/ Wait

-----------------------------------------------------------------------------
(* The reader.                                                             *)

HostUnchanged == UNCHANGED <<fileset, host, result, sent, report>>

Exit(status) ==
  /\ reader' = status
  /\ fd' = [fd EXCEPT !["reader"] = NoFds]

\* The BufReader takes what the pipe has, in one read or in several; what it
\* took beyond the trailer is never looked at.
ReaderReads ==
  /\ reader = "reading"
  /\ Readable(buf, In)
  /\ \E k \in 1 .. Len(buf[In[1]]) :
       /\ parse' = Parse(parse, SubSeq(buf[In[1]], 1, k))
       /\ buf' = [buf EXCEPT ![In[1]] = SubSeq(@, k + 1, Len(@))]
  /\ IF parse'.want = "error" THEN Exit("failed")
     ELSE /\ reader' = IF parse'.want = "done" THEN "writing" ELSE "reading"
          /\ UNCHANGED fd
  /\ HostUnchanged
  /\ UNCHANGED <<gave, hit>>

\* read_exact at end-of-file is an error.
ReaderCutShort ==
  /\ reader = "reading"
  /\ AtEof(fd, buf, In)
  /\ Exit("failed")
  /\ HostUnchanged
  /\ UNCHANGED <<buf, parse, gave, hit>>

\* A write to a report nobody can read any more fails and the reader exits 1.
ReaderWrites ==
  /\ reader = "writing"
  /\ gave < Len(ReportUnits)
  /\ Out[2] = "w"
  /\ IF HasReader(fd, Out)
     THEN /\ HasRoom(buf, Out)
          /\ buf' = Put(buf, Out, ReportUnits[gave + 1])
          /\ gave' = gave + 1
          /\ UNCHANGED <<fd, reader>>
     ELSE /\ Exit("failed")
          /\ UNCHANGED <<buf, gave>>
  /\ HostUnchanged
  /\ UNCHANGED <<parse, hit>>

ReaderFinishes ==
  /\ reader = "writing"
  /\ gave = Len(ReportUnits)
  /\ Exit("ok")
  /\ HostUnchanged
  /\ UNCHANGED <<buf, parse, gave, hit>>

ReaderNext == ReaderReads \/ ReaderCutShort \/ ReaderWrites \/ ReaderFinishes

\* The out-of-memory killer, a seccomp or Seatbelt violation, a panic.
ReaderKilled ==
  /\ "reader" \in Faults
  /\ reader \in {"reading", "writing"}
  /\ Exit("failed")
  /\ hit' = hit \cup {"reader"}
  /\ HostUnchanged
  /\ UNCHANGED <<buf, parse, gave>>

-----------------------------------------------------------------------------
Next == HostNext \/ ReaderNext \/ ReaderKilled

\* The kernel schedules both processes; nothing is owed to a fault.
Fairness == WF_vars(HostNext) /\ WF_vars(ReaderNext)

Spec     == Init /\ [][Next]_vars
FairSpec == Spec /\ Fairness

-----------------------------------------------------------------------------
(* Properties.                                                             *)

Shrank(e)    == Len(e.bytes) < e.size
Refusable(e) == Len(e.path) > PathLimit \/ e.size > EntryLimit
AsFrame(e)   == [path |-> e.path, bytes |-> e.bytes]

\* How many entries come before the first file that shrank.
Sound == IF \E i \in DOMAIN fileset : Shrank(fileset[i])
         THEN (CHOOSE i \in DOMAIN fileset :
                 Shrank(fileset[i]) /\ \A j \in 1 .. i - 1 : ~Shrank(fileset[j])) - 1
         ELSE Len(fileset)

Frame == [path : Seq(Utf8), bytes : Seq(Byte)]

\* Every variable has its type, and no pipe ever holds more than it can.
TypeOK ==
  /\ fileset \in FileSet
  /\ DOMAIN fd = Proc
  /\ \A p \in Proc, n \in Fd : fd[p][n] \in PipeEnds \cup {Closed, Foreign}
  /\ buf["stdin"] \in Seq(Byte)
  /\ \A p \in Pipe : Len(buf[p]) <= PipeCap
  /\ host \in {"pipe1", "pipe2", "spawn", "write", "read", "wait", "done"}
  /\ result \in {"none", "ok", "err"}
  /\ sent \in 0 .. Len(Stream(fileset))
  /\ reader \in {"unborn", "reading", "writing", "ok", "failed"}
  /\ parse.want \in {"magic", "version", "count", "pathlen", "path", "bytelen", "bytes",
                     "trailer", "done", "error"}
  /\ parse.left \in 0 .. CountLimit
  /\ \A i \in DOMAIN parse.frames : parse.frames[i] \in Frame
  /\ \A i \in DOMAIN parse.path : parse.path[i] \in Utf8
  /\ hit \subseteq Faults

\* Whatever numbers were already taken when the host started, the reader finds
\* the stream at FD 3 and the report at FD 5.
RolesCorrect ==
  reader \in {"reading", "writing"} => In = ReadEnd("stdin") /\ Out = WriteEnd("report")

\* Up to the first file that shrank, the reader decodes exactly the files that
\* were submitted, path and content, in order; and it never decodes more files
\* than were submitted, whatever the misread bytes say.
FramesFaithful ==
  /\ \A i \in 1 .. Sound :
       i <= Len(parse.frames) => parse.frames[i] = AsFrame(fileset[i])
  /\ Len(parse.frames) <= Len(fileset)
  /\ parse.want = "done" => Len(parse.frames) = Len(fileset)

\* run_sandboxed returns Ok only with one input per submitted file and the end
\* of the report, however the stream was cut or misread and whoever died when;
\* and with the submitted files themselves when none of them shrank.
OkMeansWhole ==
  result = "ok" =>
    /\ reader = "ok"
    /\ report = ReportUnits
    /\ Len(report) = Len(fileset) + 1
    /\ Sound = Len(fileset) =>
         \A i \in DOMAIN fileset : report[i] = Input(AsFrame(fileset[i]))

\* A file set with a path or a content above its limit never gets an Ok,
\* unless an earlier file shrank.
OverLimitRefused ==
  result = "ok" => \A i \in 1 .. Sound : ~Refusable(fileset[i])

\* run_sandboxed answers as AnalyzeSpec promises when no file shrank: a unit of
\* the report stands for the i-th file if it is its input, path and content.
Told == [i \in 1 .. Len(report) |->
           IF i <= Len(fileset) /\ report[i] = Input(AsFrame(fileset[i]))
           THEN <<"input", i>> ELSE report[i]]
Abs == INSTANCE AnalyzeSpec WITH
  FileSets <- FileSet,
  answer   <- CASE result = "none" -> [status |-> "pending", report |-> <<>>]
                [] result = "ok"   -> [status |-> "ok", report |-> Told]
                [] result = "err"  -> [status |-> "err", report |-> <<>>]
NoneShrank == \A i \in DOMAIN fileset : ~Shrank(fileset[i])

\* With acceptable files, four free descriptors, no file that shrinks and no
\* fault, the analysis ends, and ends Ok.
Undisturbed ==
  hit = {} /\ \A i \in DOMAIN fileset : ~Shrank(fileset[i]) /\ ~Refusable(fileset[i])
RoomForPipes == Cardinality(Free(fd["host"])) >= 4
CleanRunSucceeds == (RoomForPipes /\ []Undisturbed) => <>(result = "ok")

\* A reader that dies is reported: the host gets end-of-file or EPIPE, whatever
\* it was doing, and returns.
ReaderDeathIsReported == (reader = "failed") ~> (result = "err")

\* What orchestrator.rs says of drop(sandbox_stdin) ("Closing the stdin FD
\* signals EOF to the reader"): once the host has closed it, the reader stops
\* waiting for more of the stream.
EofReachesReader == (host = "read" /\ reader = "reading") ~> (reader # "reading")
=============================================================================
