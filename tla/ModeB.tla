------------------------------- MODULE ModeB -------------------------------
(***************************************************************************)
(* run_sandboxed_mode_b and the two processes it spawns.                   *)
(*                                                                         *)
(*   host --h2b--> bytes --b2p--> priv --p2h--> host                       *)
(*                                                                         *)
(* The host creates the three pipes, spawns the bytes reader, then the     *)
(* priv reader, drops the ends it handed out, writes the file set, reads   *)
(* the report up to end-of-file and waits for both children.  Each child   *)
(* reads its whole input before it writes anything.                        *)
(*                                                                         *)
(* A unit in a pipe stands for one header, one entry (framing and bytes),  *)
(* one trailer; one IPC line; one piece of the report JSON.  A writer      *)
(* blocks when PipeCap units are buffered.  An entry is "exact", or        *)
(* "refused": one read_frames rejects (a path longer than MAX_PATH_LEN,    *)
(* content above MAX_ENTRY_BYTES).  What happens when a file shrinks       *)
(* between stat and read is in FrameStream and ModeA.                      *)
(***************************************************************************)
EXTENDS Pipes, FiniteSets

CONSTANTS
  MaxFiles,    \* bound: entries in a file set
  MayInherit,  \* the numbers some descriptor of the host's parent may occupy
  Faults       \* what may go wrong: subset of {"spawn", "bytes", "priv"}

ASSUME MaxFilesAssumption   == MaxFiles \in Nat
ASSUME MayInheritAssumption == MayInherit \subseteq Fd
ASSUME FaultsAssumption     == Faults \subseteq {"spawn", "bytes", "priv"}

Children == {"bytes", "priv"}
Proc     == {"host"} \cup Children
Pipe     == {"h2b", "b2p", "p2h"}
PipeEnds == Pipe \X {"r", "w"}
Handle   == PipeEnds \cup {Closed, Foreign}

FileSet == UNION {[1 .. n -> {"exact", "refused"}] : n \in 0 .. MaxFiles}

VARIABLES
  fileset,  \* the file set being analysed
  fd,       \* process -> its descriptor table
  buf,      \* pipe -> the units it buffers
  host,     \* where run_sandboxed_mode_b is
  result,   \* what it returned: "none" while running, "ok" or "err"
  sent,     \* how many units of the FD-3 stream the host has written
  report,   \* the report units the host has read
  child,    \* child -> "unborn", "reading", "writing", "ok" or "failed"
  got,      \* child -> the entries it has decoded from its input
  gave,     \* child -> how many units of its output it has written
  hit       \* the faults that have struck

vars == <<fileset, fd, buf, host, result, sent, report, child, got, gave, hit>>

N == Len(fileset)

-----------------------------------------------------------------------------
(* The three streams.                                                      *)

\* write_fileset_protocol: header, one frame per entry, trailer.
FrameUnit(i) == IF i = 1 THEN <<"header", 0>>
                ELSE IF i = N + 2 THEN <<"trailer", 0>> ELSE <<"entry", i - 1>>

\* emit_ipc: Header, one File per decoded frame, EndFiles.
IpcUnit(i) == IF i = 1 THEN <<"header", 0>>
              ELSE IF i = Len(got["bytes"]) + 2 THEN <<"end", 0>>
              ELSE <<"file", got["bytes"][i - 1]>>

\* The report JSON: one input per File message received, then what follows.
ReportUnit(i) == IF i = Len(got["priv"]) + 1 THEN <<"close", 0>>
                 ELSE <<"input", got["priv"][i]>>

\* Bytes writes one unit more than it decoded entries, and the end marker.
OutUnit(c, i) == IF c = "bytes" THEN IpcUnit(i) ELSE ReportUnit(i)
OutLen(c)     == IF c = "bytes" THEN Len(got[c]) + 2 ELSE Len(got[c]) + 1

-----------------------------------------------------------------------------
(* The descriptors.                                                        *)

\* The pre_exec closures: two dup2 calls over the host's table, in order.
BytesTableSwapped(t) ==
  Dup2(Dup2(t, NumberOf(t, WriteEnd("b2p")), 7), NumberOf(t, ReadEnd("h2b")), 3)
BytesTable(t) ==
  LET r == NumberOf(t, ReadEnd("h2b"))
      w == NumberOf(t, WriteEnd("b2p"))
  IN  Dup2(Dup2(t, r, 3), w, 7)

PrivTableCloexec(t) ==
  [n \in Fd |-> CASE n = 3 -> ReadEnd("b2p")
                  [] n = 5 -> WriteEnd("p2h")
                  [] OTHER -> IF t[n] \in PipeEnds THEN Closed ELSE t[n]]
PrivTable(t) ==
  LET r == NumberOf(t, ReadEnd("b2p"))
      w == NumberOf(t, WriteEnd("p2h"))
  IN  Dup2(Dup2(t, r, 3), w, 5)

\* What the host drops once both children run.
HandedOutButReport == {ReadEnd("h2b"), ReadEnd("b2p"), WriteEnd("b2p")}
HandedOut ==
  {ReadEnd("h2b"), ReadEnd("b2p"), WriteEnd("b2p"), WriteEnd("p2h")}

OutFd(c) == IF c = "bytes" THEN 7 ELSE 5
In(c)    == fd[c][3]
Out(c)   == fd[c][OutFd(c)]

-----------------------------------------------------------------------------
(* The host.                                                               *)

Init ==
  /\ fileset \in FileSet
  /\ \E inherited \in SUBSET MayInherit :
       fd = [p \in Proc |->
               IF p = "host"
               THEN [n \in Fd |-> IF n \in inherited THEN Foreign ELSE Closed]
               ELSE NoFds]
  /\ buf = [p \in Pipe |-> <<>>]
  /\ host = "pipe1"
  /\ result = "none"
  /\ sent = 0
  /\ report = <<>>
  /\ child = [c \in Children |-> "unborn"]
  /\ got = [c \in Children |-> <<>>]
  /\ gave = [c \in Children |-> 0]
  /\ hit = {}

\* Every return drops the host's OwnedFds; a Child handle that is dropped
\* neither kills nor reaps its process.
Return(r) ==
  /\ host' = "done"
  /\ result' = r
  /\ fd' = [fd EXCEPT !["host"] = Dropping(@, PipeEnds)]

CreatePipe(at, p, next) ==
  /\ host = at
  /\ \E r, w \in Fd :
       /\ TwoLowest(fd["host"], r, w)
       /\ fd' = [fd EXCEPT !["host"] = WithPipe(@, p, r, w)]
  /\ host' = next
  /\ UNCHANGED <<fileset, buf, result, sent, report, child, got, gave, hit>>

\* EMFILE: pipe() needs two free numbers.
PipeFails ==
  /\ host \in {"pipe1", "pipe2", "pipe3"}
  /\ ~ \E r, w \in Free(fd["host"]) : r # w
  /\ Return("err")
  /\ UNCHANGED <<fileset, buf, sent, report, child, got, gave, hit>>

SpawnBytes ==
  /\ host = "spawn_bytes"
  /\ fd' = [fd EXCEPT !["bytes"] = BytesTable(fd["host"])]
  /\ child' = [child EXCEPT !["bytes"] = "reading"]
  /\ host' = "spawn_priv"
  /\ UNCHANGED <<fileset, buf, result, sent, report, got, gave, hit>>

SpawnPriv ==
  /\ host = "spawn_priv"
  /\ fd' = [fd EXCEPT !["priv"] = PrivTable(fd["host"])]
  /\ child' = [child EXCEPT !["priv"] = "reading"]
  /\ host' = "drop"
  /\ UNCHANGED <<fileset, buf, result, sent, report, got, gave, hit>>

\* spawn()? returns early: when it is the second spawn, bytes keeps running.
SpawnFails ==
  /\ "spawn" \in Faults
  /\ host \in {"spawn_bytes", "spawn_priv"}
  /\ hit' = hit \cup {"spawn"}
  /\ Return("err")
  /\ UNCHANGED <<fileset, buf, sent, report, child, got, gave>>

DropHandedOut ==
  /\ host = "drop"
  /\ fd' = [fd EXCEPT !["host"] = Dropping(@, HandedOut)]
  /\ host' = "write"
  /\ UNCHANGED <<fileset, buf, result, sent, report, child, got, gave, hit>>

WriteFrame ==
  /\ host = "write"
  /\ sent < N + 2
  /\ HasReader(fd, WriteEnd("h2b"))
  /\ HasRoom(buf, WriteEnd("h2b"))
  /\ buf' = Put(buf, WriteEnd("h2b"), FrameUnit(sent + 1))
  /\ sent' = sent + 1
  /\ UNCHANGED <<fileset, fd, host, result, report, child, got, gave, hit>>

\* EPIPE (the Rust runtime ignores SIGPIPE): `?` returns at once, and the
\* children are neither killed nor waited for.
WriteFails ==
  /\ host = "write"
  /\ sent < N + 2
  /\ ~HasReader(fd, WriteEnd("h2b"))
  /\ Return("err")
  /\ UNCHANGED <<fileset, buf, sent, report, child, got, gave, hit>>

DropStdin ==
  /\ host = "write"
  /\ sent = N + 2
  /\ fd' = [fd EXCEPT !["host"] = Dropping(@, {WriteEnd("h2b")})]
  /\ host' = "read"
  /\ UNCHANGED <<fileset, buf, result, sent, report, child, got, gave, hit>>

ReadReport ==
  /\ host = "read"
  /\ Readable(buf, ReadEnd("p2h"))
  /\ report' = Append(report, Head(buf["p2h"]))
  /\ buf' = Pop(buf, ReadEnd("p2h"))
  /\ UNCHANGED <<fileset, fd, host, result, sent, child, got, gave, hit>>

\* read() = 0 is the only way out of read_to_end_from_fd.
ReportOverWhenDrained == buf["p2h"] = <<>> /\ report # <<>>
ReportOver == AtEof(fd, buf, ReadEnd("p2h"))

StopReading ==
  /\ host = "read"
  /\ ReportOver
  /\ host' = "wait_bytes"
  /\ UNCHANGED <<fileset, fd, buf, result, sent, report, child, got, gave, hit>>

Exited(c) == child[c] \in {"ok", "failed"}

WaitBytes ==
  /\ host = "wait_bytes"
  /\ Exited("bytes")
  /\ host' = "wait_priv"
  /\ UNCHANGED <<fileset, fd, buf, result, sent, report, child, got, gave, hit>>

VerdictOfBytesOnly == IF child["bytes"] = "ok" THEN "ok" ELSE "err"
Verdict == IF \A c \in Children : child[c] = "ok" THEN "ok" ELSE "err"

WaitPriv ==
  /\ host = "wait_priv"
  /\ Exited("priv")
  /\ Return(Verdict)
  /\ UNCHANGED <<fileset, buf, sent, report, child, got, gave, hit>>

HostNext ==
  \/ CreatePipe("pipe1", "h2b", "pipe2")
  \/ CreatePipe("pipe2", "b2p", "pipe3")
  \/ CreatePipe("pipe3", "p2h", "spawn_bytes")
  \/ PipeFails
  \/ SpawnBytes \/ SpawnPriv \/ SpawnFails
  \/ DropHandedOut
  \/ WriteFrame \/ WriteFails \/ DropStdin
  \/ ReadReport \/ StopReading
  \/ WaitBytes \/ WaitPriv

-----------------------------------------------------------------------------
(* The children.                                                           *)

\* A process that exits, or is killed, gives up its whole table.
Exit(c, status) ==
  /\ child' = [child EXCEPT ![c] = status]
  /\ fd' = [fd EXCEPT ![c] = NoFds]

HostUnchanged == UNCHANGED <<fileset, host, result, sent, report>>

\* read_frames: header, then each entry it accepts.
BytesDecodes ==
  /\ child["bytes"] = "reading"
  /\ Readable(buf, In("bytes"))
  /\ LET u == Head(buf[In("bytes")[1]])
     IN  /\ u[1] # "trailer"
         /\ u[1] = "entry" => fileset[u[2]] = "exact"
         /\ got' = [got EXCEPT !["bytes"] =
                      IF u[1] = "entry" THEN Append(@, u[2]) ELSE @]
  /\ buf' = Pop(buf, In("bytes"))
  /\ HostUnchanged
  /\ UNCHANGED <<fd, child, gave, hit>>

\* A frame above a limit: real_main returns the error, the process exits 1.
BytesRefuses ==
  /\ child["bytes"] = "reading"
  /\ Readable(buf, In("bytes"))
  /\ LET u == Head(buf[In("bytes")[1]])
     IN  u[1] = "entry" /\ fileset[u[2]] = "refused"
  /\ buf' = Pop(buf, In("bytes"))
  /\ Exit("bytes", "failed")
  /\ HostUnchanged
  /\ UNCHANGED <<got, gave, hit>>

BytesSeesTrailer ==
  /\ child["bytes"] = "reading"
  /\ Readable(buf, In("bytes"))
  /\ Head(buf[In("bytes")[1]])[1] = "trailer"
  /\ buf' = Pop(buf, In("bytes"))
  /\ child' = [child EXCEPT !["bytes"] = "writing"]
  /\ HostUnchanged
  /\ UNCHANGED <<fd, got, gave, hit>>

\* read_exact at end-of-file is an error.
BytesCutShort ==
  /\ child["bytes"] = "reading"
  /\ AtEof(fd, buf, In("bytes"))
  /\ Exit("bytes", "failed")
  /\ HostUnchanged
  /\ UNCHANGED <<buf, got, gave, hit>>

\* real_main walks the messages: a File becomes an input of the report.
NotEnd(m) == m[1] # "end"
IsFile(m) == m[1] = "file"

PrivTakes ==
  /\ child["priv"] = "reading"
  /\ Readable(buf, In("priv"))
  /\ LET m == Head(buf[In("priv")[1]])
     IN  /\ m[1] # "end"
         /\ got' = [got EXCEPT !["priv"] = IF IsFile(m) THEN Append(@, m[2]) ELSE @]
  /\ buf' = Pop(buf, In("priv"))
  /\ HostUnchanged
  /\ UNCHANGED <<fd, child, gave, hit>>

\* read_messages leaves its loop on EndFiles, or on end-of-file without
\* complaint; real_main goes on to the report in both cases.
PrivStopsReading ==
  LET h == In("priv")
  IN  /\ child["priv"] = "reading"
      /\ IF Readable(buf, h) THEN Head(buf[h[1]])[1] = "end" ELSE AtEof(fd, buf, h)
      /\ buf' = IF Readable(buf, h) THEN Pop(buf, h) ELSE buf
      /\ child' = [child EXCEPT !["priv"] = "writing"]
      /\ HostUnchanged
      /\ UNCHANGED <<fd, got, gave, hit>>

\* A write to a pipe nobody can read any more fails and the child exits 1.
ChildWrites(c) ==
  /\ child[c] = "writing"
  /\ gave[c] < OutLen(c)
  /\ Out(c)[2] = "w"
  /\ IF HasReader(fd, Out(c))
     THEN /\ HasRoom(buf, Out(c))
          /\ buf' = Put(buf, Out(c), OutUnit(c, gave[c] + 1))
          /\ gave' = [gave EXCEPT ![c] = @ + 1]
          /\ UNCHANGED <<fd, child>>
     ELSE /\ Exit(c, "failed")
          /\ UNCHANGED <<buf, gave>>
  /\ HostUnchanged
  /\ UNCHANGED <<got, hit>>

ChildFinishes(c) ==
  /\ child[c] = "writing"
  /\ gave[c] = OutLen(c)
  /\ Exit(c, "ok")
  /\ HostUnchanged
  /\ UNCHANGED <<buf, got, gave, hit>>

BytesNext ==
  \/ BytesDecodes \/ BytesRefuses \/ BytesSeesTrailer \/ BytesCutShort
  \/ ChildWrites("bytes") \/ ChildFinishes("bytes")

PrivNext ==
  \/ PrivTakes \/ PrivStopsReading
  \/ ChildWrites("priv") \/ ChildFinishes("priv")

\* The out-of-memory killer, a seccomp or Seatbelt violation, a panic.
Killed(c) ==
  /\ c \in Faults
  /\ child[c] \in {"reading", "writing"}
  /\ Exit(c, "failed")
  /\ hit' = hit \cup {c}
  /\ HostUnchanged
  /\ UNCHANGED <<buf, got, gave>>

-----------------------------------------------------------------------------
Next == HostNext \/ BytesNext \/ PrivNext \/ \E c \in Children : Killed(c)

\* The kernel schedules every process; nothing is owed to a fault.
Fairness == WF_vars(HostNext) /\ WF_vars(BytesNext) /\ WF_vars(PrivNext)

Spec     == Init /\ [][Next]_vars
FairSpec == Spec /\ Fairness

-----------------------------------------------------------------------------
(* Properties.                                                             *)

Entry == 1 .. MaxFiles
Unit  == ({"header", "trailer", "end", "close"} \X {0})
           \cup ({"entry", "file", "input"} \X Entry)

\* Every variable has its type; in particular a child decodes only entries,
\* and no pipe ever buffers more than it can.
TypeOK ==
  /\ fileset \in FileSet
  /\ fd \in [Proc -> [Fd -> Handle]]
  /\ buf \in [Pipe -> Seq(Unit)]
  /\ \A p \in Pipe : Len(buf[p]) <= PipeCap
  /\ host \in {"pipe1", "pipe2", "pipe3", "spawn_bytes", "spawn_priv", "drop",
               "write", "read", "wait_bytes", "wait_priv", "done"}
  /\ result \in {"none", "ok", "err"}
  /\ sent \in 0 .. N + 2
  /\ report \in Seq(Unit)
  /\ child \in [Children -> {"unborn", "reading", "writing", "ok", "failed"}]
  /\ got \in [Children -> Seq(Entry)]
  /\ gave \in [Children -> Nat]
  /\ hit \subseteq Faults

\* Whatever numbers were already taken when the host started, each child finds
\* its own pipes at the numbers its binary hard-codes: FD 3 and FD 7 in the
\* bytes reader, FD 3 and FD 5 in the priv reader.
RolesCorrect ==
  /\ child["bytes"] \in {"reading", "writing"} =>
       In("bytes") = ReadEnd("h2b") /\ Out("bytes") = WriteEnd("b2p")
  /\ child["priv"] \in {"reading", "writing"} =>
       In("priv") = ReadEnd("b2p") /\ Out("priv") = WriteEnd("p2h")

\* run_sandboxed_mode_b returns Ok only with the whole report of the whole file
\* set, in its order, after both children have ended well and left nothing
\* unread: never with a truncated or a partial one, whoever dies when.
OkMeansComplete ==
  result = "ok" =>
    /\ report = [i \in 1 .. N + 1 |-> IF i <= N THEN <<"input", i>> ELSE <<"close", 0>>]
    /\ \A c \in Children : child[c] = "ok"
    /\ \A p \in Pipe : buf[p] = <<>>

\* The priv reader inherits the write end of its own input pipe and never
\* closes it, so it never sees end-of-file, whatever becomes of the bytes
\* reader and of the host.
PrivNeverSeesEof ==
  child["priv"] = "reading" => Held([p \in {"priv"} |-> fd[p]], WriteEnd("b2p"))

\* run_sandboxed_mode_b answers as AnalyzeSpec promises.
Abs == INSTANCE AnalyzeSpec WITH
  FileSets <- FileSet,
  answer   <- CASE result = "none" -> [status |-> "pending", report |-> <<>>]
                [] result = "ok"   -> [status |-> "ok", report |-> report]
                [] result = "err"  -> [status |-> "err", report |-> <<>>]
AbsSpec == Abs!Spec

\* With acceptable files, six free descriptors and no fault, the analysis
\* always ends, and ends Ok: the host never writes into a pipe nobody drains
\* while nobody drains the pipe it is not yet reading.
Undisturbed == hit = {} /\ \A i \in 1 .. N : fileset[i] = "exact"
RoomForPipes == Cardinality(Free(fd["host"])) >= 6
CleanRunSucceeds == (RoomForPipes /\ []Undisturbed) => <>(result = "ok")

\* When the priv reader dies, the host still returns, provided the whole IPC
\* stream fits into its pipe: the bytes reader itself keeps that pipe readable
\* and would otherwise block on it for ever, holding the report pipe open.
PrivDeathIsReported ==
  (child["priv"] = "failed" /\ N + 2 <= PipeCap) ~> (host = "done")

\* What main.rs says of the bytes reader ("Drop closes FD 7 -> EOF on the priv
\* side"): once it is gone, the priv reader stops waiting for input.
EofReachesPriv == (Exited("bytes") /\ child["priv"] = "reading") ~> (child["priv"] # "reading")
=============================================================================
