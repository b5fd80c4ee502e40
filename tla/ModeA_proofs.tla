---------------------------- MODULE ModeA_proofs ----------------------------
(***************************************************************************)
(* Proofs about ModeA, for every MaxFd, PipeCap, set of limits, bytes,     *)
(* descriptors and faults that satisfy its assumptions: the descriptors    *)
(* the reader finds, the bytes of the stream, what the parser makes of     *)
(* them in pieces of any size, and the report that comes back.             *)
(***************************************************************************)
EXTENDS ModeA, Loops_proofs, TLAPS

Handle == PipeEnds \cup {Closed, Foreign}

-----------------------------------------------------------------------------
(* The host's table while it hands out pipe ends: they sit at increasing   *)
(* numbers and nowhere else, and whatever is free lies above.              *)

Handed2(t, a, b) ==
  /\ a < b
  /\ t[a] = ReadEnd("stdin") /\ t[b] = WriteEnd("stdin")
  /\ \A n \in Fd : t[n] \in PipeEnds => n \in {a, b}
  /\ \A n \in Free(t) : b < n

Handed4(t, a, b, c, d) ==
  /\ a < b /\ b < c /\ c < d
  /\ t[a] = ReadEnd("stdin") /\ t[b] = WriteEnd("stdin")
  /\ t[c] = ReadEnd("report") /\ t[d] = WriteEnd("report")
  /\ \A n \in Fd : t[n] \in PipeEnds => n \in {a, b, c, d}

TableTyped == fd \in [Proc -> [Fd -> Handle]]

HostTable ==
  /\ host = "pipe1" => \A n \in Fd : fd["host"][n] \notin PipeEnds
  /\ host = "pipe2" => \E a, b \in Fd : Handed2(fd["host"], a, b)
  /\ host = "spawn" => \E a, b, c, d \in Fd : Handed4(fd["host"], a, b, c, d)

\* A reader that was not born yet is what the host is about to give birth to.
Born == host \in {"pipe1", "pipe2", "spawn"} => reader = "unborn"

TableInv == TableTyped /\ HostTable /\ Born /\ RolesCorrect

-----------------------------------------------------------------------------
LEMMA Ends ==
  /\ PipeEnds = {ReadEnd("stdin"), WriteEnd("stdin"), ReadEnd("report"), WriteEnd("report")}
  /\ Closed \notin PipeEnds /\ Foreign \notin PipeEnds
  /\ \A p, q : ReadEnd(p) # WriteEnd(q)
  /\ ReadEnd("stdin") # ReadEnd("report") /\ WriteEnd("stdin") # WriteEnd("report")
BY DEF PipeEnds, Pipe, ReadEnd, WriteEnd, Closed, Foreign

\* pipe(2) puts the two ends at free numbers, the read end below.
LEMMA AfterPipe ==
  ASSUME NEW t \in [Fd -> Handle], NEW p \in Pipe, NEW r \in Fd, NEW w \in Fd,
         TwoLowest(t, r, w), NEW u, u = WithPipe(t, p, r, w)
  PROVE  /\ u \in [Fd -> Handle]
         /\ r < w /\ t[r] = Closed /\ t[w] = Closed
         /\ u[r] = ReadEnd(p) /\ u[w] = WriteEnd(p)
         /\ \A n \in Fd \ {r, w} : u[n] = t[n]
         /\ \A n \in Free(u) : w < n
<1>1. r < w /\ t[r] = Closed /\ t[w] = Closed /\ r # w
  BY DEF TwoLowest, Free, Fd
<1>2. u = [t EXCEPT ![r] = ReadEnd(p), ![w] = WriteEnd(p)]
  BY DEF WithPipe
<1>3. ReadEnd(p) \in Handle /\ WriteEnd(p) \in Handle
  BY DEF Handle, PipeEnds, ReadEnd, WriteEnd
<1>4. /\ u \in [Fd -> Handle] /\ u[r] = ReadEnd(p) /\ u[w] = WriteEnd(p)
      /\ \A n \in Fd \ {r, w} : u[n] = t[n]
  BY <1>1, <1>2, <1>3
<1>5. ReadEnd(p) # Closed /\ WriteEnd(p) # Closed
  BY Ends DEF PipeEnds, ReadEnd, WriteEnd, Closed
<1>6. \A n \in Free(u) : n \in Free(t) \ {r} /\ n # w
  BY <1>4, <1>5 DEF Free
<1>7. \A n \in Free(u) : w < n
  BY <1>6 DEF TwoLowest, Free, Fd
<1> QED
  BY <1>1, <1>4, <1>7

\* as_raw_fd() finds the two ends the closure needs where pipe() put them; the number of
\* the second lies above both targets, so the first dup2 does not overwrite it.
LEMMA ReaderWired ==
  ASSUME NEW t \in [Fd -> Handle], NEW a \in Fd, NEW b \in Fd, NEW c \in Fd, NEW d \in Fd,
         Handed4(t, a, b, c, d)
  PROVE  /\ ReaderTable(t) \in [Fd -> Handle]
         /\ ReaderTable(t)[3] = ReadEnd("stdin")
         /\ ReaderTable(t)[5] = WriteEnd("report")
<1>1. \A n \in Fd : /\ t[n] = ReadEnd("stdin") => n = a
                    /\ t[n] = WriteEnd("report") => n = d
  BY Ends DEF Handed4
<1>2. NumberOf(t, ReadEnd("stdin")) = a /\ NumberOf(t, WriteEnd("report")) = d
  BY <1>1 DEF NumberOf, Handed4
<1>3. 6 <= d /\ 3 \in Fd /\ 5 \in Fd
  BY MaxFdAssumption DEF Handed4, Fd
<1> DEFINE u == Dup2(t, a, 3)
<1>4. u \in [Fd -> Handle] /\ u[3] = ReadEnd("stdin") /\ u[d] = WriteEnd("report")
  BY <1>3 DEF Dup2, Handed4, Fd
<1>5. ReaderTable(t) = Dup2(u, d, 5)
  BY <1>2 DEF ReaderTable
<1> QED
  BY <1>3, <1>4, <1>5 DEF Dup2

LEMMA DropTyped ==
  ASSUME NEW t \in [Fd -> Handle], NEW H
  PROVE  Dropping(t, H) \in [Fd -> Handle]
BY DEF Dropping, Handle

-----------------------------------------------------------------------------
LEMMA TableInit == Init => TableInv
<1> SUFFICES ASSUME Init PROVE TableInv
  OBVIOUS
<1>1. PICK inherited \in SUBSET MayInherit :
        fd = [p \in Proc |->
                IF p = "host"
                THEN [n \in Fd |-> IF n \in inherited THEN Foreign ELSE Closed]
                ELSE NoFds]
  BY DEF Init
<1>2. TableTyped
  BY <1>1 DEF TableTyped, Handle, NoFds
<1>3. \A n \in Fd : fd["host"][n] \notin PipeEnds
  BY <1>1, Ends DEF Proc
<1> QED
  BY <1>2, <1>3 DEF Init, TableInv, HostTable, Born, RolesCorrect

LEMMA CreatePipeKeeps ==
  ASSUME TableInv,
         \/ CreatePipe("pipe1", "stdin", "pipe2")
         \/ CreatePipe("pipe2", "report", "spawn")
  PROVE  TableInv'
<1> DEFINE t == fd["host"]
<1>0. t \in [Fd -> Handle] /\ "host" \in Proc
  BY DEF TableInv, TableTyped, Proc
<1>1. CASE CreatePipe("pipe1", "stdin", "pipe2")
  <2>1. PICK r \in Fd, w \in Fd :
          TwoLowest(t, r, w) /\ fd' = [fd EXCEPT !["host"] = WithPipe(@, "stdin", r, w)]
    BY <1>1 DEF CreatePipe
  <2>2. fd'["host"] = WithPipe(t, "stdin", r, w)
    BY <1>0, <2>1 DEF TableInv, TableTyped
  <2>3. /\ fd'["host"] \in [Fd -> Handle]
        /\ r < w
        /\ fd'["host"][r] = ReadEnd("stdin") /\ fd'["host"][w] = WriteEnd("stdin")
        /\ \A n \in Fd \ {r, w} : fd'["host"][n] = t[n]
        /\ \A n \in Free(fd'["host"]) : w < n
    BY <1>0, <2>1, <2>2, AfterPipe DEF Pipe
  <2>4. TableTyped'
    BY <2>1, <2>2, <2>3 DEF TableInv, TableTyped
  <2>5. \A n \in Fd : t[n] \notin PipeEnds
    BY <1>1 DEF TableInv, HostTable, CreatePipe
  <2>6. Handed2(fd'["host"], r, w)
    BY <2>3, <2>5 DEF Handed2
  <2> QED
    BY <1>1, <2>4, <2>6 DEF TableInv, HostTable, Born, RolesCorrect, CreatePipe
<1>2. CASE CreatePipe("pipe2", "report", "spawn")
  <2>1. PICK r \in Fd, w \in Fd :
          TwoLowest(t, r, w) /\ fd' = [fd EXCEPT !["host"] = WithPipe(@, "report", r, w)]
    BY <1>2 DEF CreatePipe
  <2>2. fd'["host"] = WithPipe(t, "report", r, w)
    BY <1>0, <2>1 DEF TableInv, TableTyped
  <2>3. /\ fd'["host"] \in [Fd -> Handle]
        /\ r < w /\ t[r] = Closed
        /\ fd'["host"][r] = ReadEnd("report") /\ fd'["host"][w] = WriteEnd("report")
        /\ \A n \in Fd \ {r, w} : fd'["host"][n] = t[n]
    BY <1>0, <2>1, <2>2, AfterPipe DEF Pipe
  <2>4. TableTyped'
    BY <2>1, <2>2, <2>3 DEF TableInv, TableTyped
  <2>5. PICK a \in Fd, b \in Fd : Handed2(t, a, b)
    BY <1>2 DEF TableInv, HostTable, CreatePipe
  <2>6. a < b /\ b < r
    BY <2>3, <2>5 DEF Handed2, Free
  <2>7. a \notin {r, w} /\ b \notin {r, w}
    BY <2>3, <2>6 DEF Fd
  <2>8. Handed4(fd'["host"], a, b, r, w)
    BY <2>3, <2>5, <2>6, <2>7 DEF Handed2, Handed4
  <2> QED
    BY <1>2, <2>4, <2>8 DEF TableInv, HostTable, Born, RolesCorrect, CreatePipe
<1> QED
  BY <1>1, <1>2

LEMMA SpawnKeeps == ASSUME TableInv, Spawn PROVE TableInv'
<1> DEFINE t == fd["host"]
<1>1. t \in [Fd -> Handle]
  BY DEF TableInv, TableTyped, Proc
<1>2. PICK a \in Fd, b \in Fd, c \in Fd, d \in Fd : Handed4(t, a, b, c, d)
  BY DEF TableInv, HostTable, Spawn
<1>3. fd'["host"] = Dropping(t, HandedOut) /\ fd'["reader"] = ReaderTable(t)
  BY DEF Spawn
<1>4. fd'["reader"] \in [Fd -> Handle] /\ In' = ReadEnd("stdin") /\ Out' = WriteEnd("report")
  BY <1>1, <1>2, <1>3, ReaderWired DEF In, Out
<1>5. TableTyped'
  BY <1>1, <1>3, <1>4, DropTyped DEF TableTyped, Spawn, Proc
<1> QED
  BY <1>4, <1>5 DEF TableInv, HostTable, Born, RolesCorrect, Spawn

\* A host that has spawned, or returned, only ever drops descriptors of its own.
LEMMA HostDrops ==
  ASSUME TableInv, NEW H, fd' = [fd EXCEPT !["host"] = Dropping(@, H)], reader' = reader,
         host' \in {"read", "done"}
  PROVE  TableInv'
<1>1. TableTyped' /\ fd'["reader"] = fd["reader"]
  BY DropTyped DEF TableInv, TableTyped, Proc
<1> QED
  BY <1>1 DEF TableInv, HostTable, Born, RolesCorrect, In, Out

LEMMA ReturnKeeps == ASSUME TableInv, NEW r, Return(r), reader' = reader PROVE TableInv'
  BY HostDrops DEF Return

\* A reader that has gone holds nothing.
LEMMA ExitKeeps ==
  ASSUME TableInv, NEW status \in {"ok", "failed"}, Exit(status), host' = host,
         reader # "unborn"
  PROVE  TableInv'
<1>1. TableTyped' /\ fd'["host"] = fd["host"]
  BY DEF TableInv, TableTyped, Exit, Proc, NoFds, Handle
<1> QED
  BY <1>1 DEF TableInv, HostTable, Born, RolesCorrect, Exit

\* Steps that leave every table alone.
LEMMA TablesStay ==
  ASSUME TableInv, fd' = fd,
         \/ host' = host
         \/ host' \in {"write", "read", "wait"},
         \/ reader' = reader
         \/ reader \in {"reading", "writing"} /\ reader' \in {"reading", "writing"}
  PROVE  TableInv'
BY DEF TableInv, TableTyped, HostTable, Born, RolesCorrect, In, Out

LEMMA HostKeeps == ASSUME TableInv, HostNext PROVE TableInv'
<1>1. CASE CreatePipe("pipe1", "stdin", "pipe2") \/ CreatePipe("pipe2", "report", "spawn")
  BY <1>1, CreatePipeKeeps
<1>2. CASE PipeFails \/ SpawnFails \/ WriteFails \/ Wait
  BY <1>2, ReturnKeeps DEF PipeFails, SpawnFails, WriteFails, Wait
<1>3. CASE Spawn
  BY <1>3, SpawnKeeps
<1>4. CASE DropStdin
  BY <1>4, HostDrops DEF DropStdin
<1>5. CASE WriteByte \/ ReadReport \/ StopReading
  BY <1>5, TablesStay DEF WriteByte, ReadReport, StopReading
<1> QED
  BY <1>1, <1>2, <1>3, <1>4, <1>5 DEF HostNext

LEMMA ReaderKeeps == ASSUME TableInv, ReaderNext \/ ReaderKilled PROVE TableInv'
<1>1. CASE ReaderReads
  <2>1. host' = host /\ reader = "reading"
    BY <1>1 DEF ReaderReads, HostUnchanged
  <2>2. CASE Exit("failed")
    BY <2>1, <2>2, ExitKeeps
  <2>3. CASE reader' \in {"writing", "reading"} /\ fd' = fd
    BY <2>1, <2>3, TablesStay
  <2> QED
    BY <1>1, <2>2, <2>3 DEF ReaderReads
<1>2. CASE ReaderCutShort \/ ReaderFinishes \/ ReaderKilled
  BY <1>2, ExitKeeps DEF ReaderCutShort, ReaderFinishes, ReaderKilled, HostUnchanged
<1>3. CASE ReaderWrites
  <2>1. /\ host' = host /\ reader = "writing"
        /\ Exit("failed") \/ (fd' = fd /\ reader' = reader)
    BY <1>3 DEF ReaderWrites, HostUnchanged
  <2> QED
    BY <2>1, ExitKeeps, TablesStay
<1> QED
  BY <1>1, <1>2, <1>3 DEF ReaderNext

\* The descriptor tables keep their shape, whoever fails and dies when.
THEOREM Tables == Spec => []TableInv
<1>1. ASSUME TableInv, [Next]_vars PROVE TableInv'
  <2>1. CASE UNCHANGED vars
    BY <1>1, <2>1, TablesStay DEF vars
  <2> QED
    BY <1>1, <2>1, HostKeeps, ReaderKeeps DEF Next
<1> QED
  BY <1>1, TableInit, PTL DEF Spec

\* Whatever descriptors the host of mode A inherited, its reader finds the file set at 3
\* and the report at 5: the second dup2 of pre_exec still has the end it is to duplicate.
THEOREM ReaderRolesCorrect == Spec => []RolesCorrect
<1>1. TableInv => RolesCorrect
  BY DEF TableInv
<1> QED
  BY <1>1, Tables, PTL

-----------------------------------------------------------------------------
(* How the stream of a file set is laid out.                               *)

EntryOk ==
  {e \in [path : Seq(Utf8), size : Byte, bytes : Seq(Byte)] :
     Len(e.path) \in Byte /\ Len(e.bytes) <= e.size}

FileSetOk == {F \in Seq(EntryOk) : Len(F) \in Byte /\ Len(F) <= CountLimit}

LEMMA Widths ==
  /\ Byte \subseteq Nat /\ Utf8 \subseteq Byte /\ 0 \in Utf8 /\ Header \in Byte /\ Version \in Byte
  /\ Trailer \in Byte /\ 0 \in Byte
  /\ CountLimit \in Byte /\ PathLimit \in Byte /\ EntryLimit \in Byte
  /\ CountLimit \in Nat /\ PathLimit + 1 \in Byte /\ EntryLimit + 1 \in Byte
BY LimitsAssumption DEF Byte, Utf8, Top, Header, Version, Trailer

LEMMA EntryFields ==
  ASSUME NEW e \in EntryOk
  PROVE  /\ e.path \in Seq(Utf8) /\ e.path \in Seq(Byte) /\ e.size \in Byte /\ e.bytes \in Seq(Byte)
         /\ Len(e.path) \in Byte /\ Len(e.path) \in Nat /\ Len(e.bytes) \in Nat
         /\ Len(e.bytes) <= e.size /\ e.size \in Nat
<1>1. e.path \in Seq(Utf8) /\ e.size \in Byte /\ e.bytes \in Seq(Byte)
      /\ Len(e.path) \in Byte /\ Len(e.bytes) <= e.size
  BY DEF EntryOk
<1>2. e.path \in Seq(Byte)
  BY <1>1, Widths, SeqMonotonic
<1>3. Len(e.path) \in Nat /\ Len(e.bytes) \in Nat
  BY <1>1, <1>2, LenProperties
<1>4. e.size \in Nat
  BY <1>1, Widths
<1> QED
  BY <1>1, <1>2, <1>3, <1>4

LEMMA Joined ==
  ASSUME NEW E, NEW s \in Seq(E), NEW t \in Seq(E), NEW r, r = s \o t
  PROVE  /\ r \in Seq(E) /\ Len(r) = Len(s) + Len(t)
         /\ \A i \in 1 .. Len(s) : r[i] = s[i]
         /\ \A i \in 1 .. Len(t) : r[Len(s) + i] = t[i]
  OBVIOUS

LEMMA Single ==
  ASSUME NEW E, NEW e \in E, NEW x, x = <<e>>
  PROVE  x \in Seq(E) /\ Len(x) = 1 /\ x[1] = e
  OBVIOUS

\* A path, a size and a content lie in s as an entry right after the first b bytes.
Lies(p, z, c, s, b) ==
  /\ b + 2 + Len(p) + Len(c) <= Len(s)
  /\ s[b + 1] = Len(p)
  /\ \A i \in 1 .. Len(p) : s[b + 1 + i] = p[i]
  /\ s[b + 2 + Len(p)] = z
  /\ \A i \in 1 .. Len(c) : s[b + 2 + Len(p) + i] = c[i]

LEMMA StillLies ==
  ASSUME NEW p \in Seq(Byte), NEW c \in Seq(Byte), NEW z,
         NEW s \in Seq(Byte), NEW r \in Seq(Byte), NEW b \in Nat,
         Len(s) <= Len(r), \A i \in 1 .. Len(s) : r[i] = s[i], Lies(p, z, c, s, b)
  PROVE  Lies(p, z, c, r, b)
<1>1. PICK l \in Nat : l = Len(p)
  OBVIOUS
<1>2. PICK m \in Nat : m = Len(c)
  OBVIOUS
<1>3. PICK n \in Nat : n = Len(s)
  OBVIOUS
<1>4. PICK q \in Nat : q = Len(r)
  OBVIOUS
<1>5. b + 2 + l + m <= n /\ n <= q /\ \A i \in 1 .. n : r[i] = s[i]
  BY <1>1, <1>2, <1>3, <1>4 DEF Lies
<1>6. r[b + 1] = s[b + 1] /\ r[b + 2 + l] = s[b + 2 + l]
  <2>1. b + 1 \in 1 .. n /\ b + 2 + l \in 1 .. n
    BY <1>5
  <2> QED BY <1>5, <2>1
<1>7. \A i \in 1 .. l : r[b + 1 + i] = s[b + 1 + i]
  <2>1. \A i \in 1 .. l : b + 1 + i \in 1 .. n
    BY <1>5
  <2> QED BY <1>5, <2>1
<1>8. \A i \in 1 .. m : r[b + 2 + l + i] = s[b + 2 + l + i]
  <2>1. \A i \in 1 .. m : b + 2 + l + i \in 1 .. n
    BY <1>5
  <2> QED BY <1>5, <2>1
<1>9. b + 2 + l + m <= q
  BY <1>5
<1> QED
  BY <1>1, <1>2, <1>4, <1>6, <1>7, <1>8, <1>9, Zenon DEF Lies

\* An entry appended to s lies right after it.
LEMMA LiesWhereAppended ==
  ASSUME NEW p \in Seq(Byte), NEW c \in Seq(Byte), NEW z \in Byte, Len(p) \in Byte,
         NEW s \in Seq(Byte), NEW r, r = s \o ((<<Len(p)>> \o p \o <<z>>) \o c)
  PROVE  /\ r \in Seq(Byte) /\ Len(r) = Len(s) + 2 + Len(p) + Len(c)
         /\ \A i \in 1 .. Len(s) : r[i] = s[i]
         /\ Lies(p, z, c, r, Len(s))
<1>1. PICK l \in Byte : l = Len(p)
  OBVIOUS
<1>2. PICK m \in Nat : m = Len(c)
  OBVIOUS
<1>3. PICK n \in Nat : n = Len(s)
  OBVIOUS
<1>4. l \in Nat
  BY <1>1
<1>5. PICK u : u = <<l>> \o p
  OBVIOUS
<1>6. u \in Seq(Byte) /\ Len(u) = 1 + l /\ u[1] = l /\ \A i \in 1 .. l : u[1 + i] = p[i]
  <2>1. PICK x : x = <<l>> /\ x \in Seq(Byte) /\ Len(x) = 1 /\ x[1] = l
    BY Single, Zenon
  <2>2. u \in Seq(Byte) /\ Len(u) = Len(x) + Len(p)
        /\ (\A i \in 1 .. Len(x) : u[i] = x[i]) /\ \A i \in 1 .. Len(p) : u[Len(x) + i] = p[i]
    BY <1>5, <2>1, Joined
  <2> QED BY <1>1, <2>1, <2>2
<1>7. PICK v : v = u \o <<z>>
  OBVIOUS
<1>8. v \in Seq(Byte) /\ Len(v) = 2 + l /\ v[2 + l] = z /\ \A i \in 1 .. 1 + l : v[i] = u[i]
  <2>1. PICK x : x = <<z>> /\ x \in Seq(Byte) /\ Len(x) = 1 /\ x[1] = z
    BY Single, Zenon
  <2>2. v \in Seq(Byte) /\ Len(v) = Len(u) + Len(x)
        /\ (\A i \in 1 .. Len(u) : v[i] = u[i]) /\ \A i \in 1 .. Len(x) : v[Len(u) + i] = x[i]
    BY <1>6, <1>7, <2>1, Joined
  <2>3. v[Len(u) + 1] = z
    BY <2>1, <2>2
  <2>4. Len(u) + 1 = 2 + l
    BY <1>4, <1>6
  <2> QED BY <1>4, <1>6, <2>1, <2>2, <2>3, <2>4
<1>9. PICK w : w = v \o c
  OBVIOUS
<1>10. /\ w \in Seq(Byte) /\ Len(w) = 2 + l + m
       /\ \A i \in 1 .. 2 + l : w[i] = v[i]
       /\ \A i \in 1 .. m : w[2 + l + i] = c[i]
  <2>1. w \in Seq(Byte) /\ Len(w) = Len(v) + Len(c)
        /\ (\A i \in 1 .. Len(v) : w[i] = v[i]) /\ \A i \in 1 .. Len(c) : w[Len(v) + i] = c[i]
    <3>1. v \in Seq(Byte)
      BY <1>8
    <3> QED BY <1>9, <3>1, Joined
  <2> QED BY <1>2, <1>8, <2>1
<1>11. /\ r \in Seq(Byte) /\ Len(r) = n + (2 + l + m)
       /\ \A i \in 1 .. n : r[i] = s[i]
       /\ \A i \in 1 .. 2 + l + m : r[n + i] = w[i]
  <2>1. r = s \o w
    BY <1>1, <1>5, <1>7, <1>9
  <2>2. PICK q : q = s \o w
    OBVIOUS
  <2>3. q \in Seq(Byte) /\ Len(q) = Len(s) + Len(w)
        /\ (\A i \in 1 .. Len(s) : q[i] = s[i]) /\ \A i \in 1 .. Len(w) : q[Len(s) + i] = w[i]
    <3>1. w \in Seq(Byte)
      BY <1>10
    <3> QED BY <2>2, <3>1, Joined
  <2>4. r = q
    BY <2>1, <2>2
  <2> QED BY <1>3, <1>10, <2>3, <2>4
<1>12. r[n + 1] = l /\ r[n + (2 + l)] = z
  <2>1. 1 \in 1 .. 2 + l + m /\ 2 + l \in 1 .. 2 + l + m /\ 1 \in 1 .. 2 + l /\ 2 + l \in 1 .. 2 + l
        /\ 1 \in 1 .. 1 + l
    BY <1>4
  <2>2. r[n + 1] = w[1] /\ w[1] = v[1] /\ v[1] = u[1] /\ r[n + (2 + l)] = w[2 + l] /\ w[2 + l] = v[2 + l]
    BY <1>8, <1>10, <1>11, <2>1
  <2> QED BY <1>6, <1>8, <2>2
<1>13. \A i \in 1 .. l : r[n + 1 + i] = p[i]
  <2> TAKE i \in 1 .. l
  <2>1. 1 + i \in 1 .. 2 + l + m /\ 1 + i \in 1 .. 2 + l /\ 1 + i \in 1 .. 1 + l
        /\ n + 1 + i = n + (1 + i)
    BY <1>4
  <2>2. r[n + (1 + i)] = w[1 + i] /\ w[1 + i] = v[1 + i] /\ v[1 + i] = u[1 + i] /\ u[1 + i] = p[i]
    BY <1>6, <1>8, <1>10, <1>11, <2>1
  <2> QED BY <2>1, <2>2
<1>14. \A i \in 1 .. m : r[n + 2 + l + i] = c[i]
  <2> TAKE i \in 1 .. m
  <2>1. 2 + l + i \in 1 .. 2 + l + m /\ n + 2 + l + i = n + (2 + l + i)
    BY <1>4
  <2>2. r[n + (2 + l + i)] = w[2 + l + i] /\ w[2 + l + i] = c[i]
    BY <1>10, <1>11, <2>1
  <2> QED BY <2>1, <2>2
<1>15. n + 2 + l + m <= Len(r) /\ n + (2 + l) = n + 2 + l /\ Len(r) = n + 2 + l + m
  BY <1>4, <1>11
<1>16. Lies(p, z, c, r, n)
  BY <1>1, <1>2, <1>12, <1>13, <1>14, <1>15, Zenon DEF Lies
<1> QED
  BY <1>1, <1>2, <1>3, <1>11, <1>15, <1>16

LiesAt(e, s, b) == Lies(e.path, e.size, e.bytes, s, b)

\* The first k entries of F lie one after the other, at the bases B.
LaidOut(F, s, B, k) ==
  /\ 3 <= Len(s) /\ s[3] = Len(F)
  /\ B[0] = 3
  /\ \A j \in 1 .. k : /\ LiesAt(F[j], s, B[j - 1])
                       /\ B[j] = B[j - 1] + 2 + Len(F[j].path) + Len(F[j].bytes)

Piece(e) == Framing(e) \o e.bytes

LEMMA PieceLies ==
  ASSUME NEW e \in EntryOk, NEW s \in Seq(Byte), NEW r, r = s \o Piece(e)
  PROVE  /\ r \in Seq(Byte) /\ Len(r) = Len(s) + 2 + Len(e.path) + Len(e.bytes)
         /\ Len(s) <= Len(r) /\ \A i \in 1 .. Len(s) : r[i] = s[i]
         /\ LiesAt(e, r, Len(s))
<1>1. PICK p \in Seq(Byte) : p = e.path /\ Len(p) \in Byte
  BY EntryFields
<1>2. PICK c \in Seq(Byte) : c = e.bytes
  BY EntryFields
<1>3. PICK z \in Byte : z = e.size
  BY EntryFields
<1>4. r = s \o ((<<Len(p)>> \o p \o <<z>>) \o c)
  BY <1>1, <1>2, <1>3 DEF Piece, Framing
<1>5. /\ r \in Seq(Byte) /\ Len(r) = Len(s) + 2 + Len(p) + Len(c)
      /\ \A i \in 1 .. Len(s) : r[i] = s[i]
      /\ Lies(p, z, c, r, Len(s))
  <2>1. Len(p) \in Byte
    BY <1>1
  <2> QED BY <1>4, <2>1, LiesWhereAppended, Zenon
<1>6. Len(s) <= Len(r)
  <2>1. Len(p) \in Nat /\ Len(c) \in Nat /\ Len(s) \in Nat
    OBVIOUS
  <2> QED BY <1>5, <2>1
<1> QED
  BY <1>1, <1>2, <1>3, <1>5, <1>6, Zenon DEF LiesAt

LEMMA StillLiesAt ==
  ASSUME NEW e \in EntryOk, NEW s \in Seq(Byte), NEW r \in Seq(Byte), NEW b \in Nat,
         Len(s) <= Len(r), \A i \in 1 .. Len(s) : r[i] = s[i], LiesAt(e, s, b)
  PROVE  LiesAt(e, r, b)
<1>1. e.path \in Seq(Byte) /\ e.bytes \in Seq(Byte)
  BY EntryFields
<1> QED
  BY <1>1, StillLies DEF LiesAt

LEMMA StreamLaidOut ==
  ASSUME NEW F \in FileSetOk
  PROVE  /\ Stream(F) \in Seq(Byte)
         /\ \E B \in [0 .. Len(F) -> Nat] : LaidOut(F, Stream(F), B, Len(F))
<1>1. PICK N \in Nat : N = Len(F)
  BY DEF FileSetOk
<1>2. F \in Seq(EntryOk) /\ N \in Byte /\ \A n \in 1 .. N : F[n] \in EntryOk
  BY <1>1 DEF FileSetOk
<1>0. PICK base \in Seq(Byte) : base = <<Header, Version, N>> /\ Len(base) = 3 /\ base[3] = N
  <2>1. <<Header, Version, N>> \in Seq(Byte)
    BY <1>2, Widths
  <2> QED BY <2>1
<1> DEFINE Turn(n, a) == a \o Piece(F[n])
           G == [n \in 1 .. N |-> [a \in Seq(Byte) |-> Turn(n, a)]]
           Upto(f) == f = [n \in 0 .. N |-> IF n = 0 THEN base ELSE Turn(n, f[n - 1])]
<1>3. \A n \in 1 .. N : \A a \in Seq(Byte) :
        /\ Turn(n, a) \in Seq(Byte)
        /\ Len(Turn(n, a)) = Len(a) + 2 + Len(F[n].path) + Len(F[n].bytes)
        /\ Len(a) <= Len(Turn(n, a)) /\ \A i \in 1 .. Len(a) : Turn(n, a)[i] = a[i]
        /\ LiesAt(F[n], Turn(n, a), Len(a))
  <2> TAKE n \in 1 .. N
  <2> TAKE a \in Seq(Byte)
  <2>1. PICK e \in EntryOk : e = F[n]
    BY <1>2
  <2>2. PICK r : r = a \o Piece(e)
    OBVIOUS
  <2>3. /\ r \in Seq(Byte) /\ Len(r) = Len(a) + 2 + Len(e.path) + Len(e.bytes)
        /\ Len(a) <= Len(r) /\ \A i \in 1 .. Len(a) : r[i] = a[i]
        /\ LiesAt(e, r, Len(a))
    BY <2>2, PieceLies
  <2> QED BY <2>1, <2>2, <2>3
<1>4. Stream(F) = Append((CHOOSE f : Upto(f))[N], Trailer)
  BY <1>0, <1>1, Zenon DEF Stream, Piece
<1> HIDE DEF Turn
<1>5. PICK g : Run(g, Seq(Byte), N, base, G)
  <2>1. G \in [1 .. N -> [Seq(Byte) -> Seq(Byte)]]
    BY <1>3
  <2> HIDE DEF G
  <2> QED BY <2>1, LoopRuns
<1>6. /\ g \in [0 .. N -> Seq(Byte)] /\ g[0] = base
      /\ \A n \in 1 .. N : g[n] = Turn(n, g[n - 1])
  <2>1. \A n \in 1 .. N : \A a \in Seq(Byte) : G[n][a] = Turn(n, a)
    OBVIOUS
  <2> HIDE DEF G
  <2>2. /\ g \in [0 .. N -> Seq(Byte)] /\ g[0] = base
        /\ \A n \in 1 .. N : g[n] = G[n][g[n - 1]]
    BY <1>5, Zenon DEF Run
  <2>3. \A n \in 1 .. N : g[n - 1] \in Seq(Byte)
    BY <2>2
  <2> QED BY <2>1, <2>2, <2>3
<1>7. Upto(g)
  BY <1>6
<1>8. ASSUME NEW f, Upto(f)
      PROVE  f[N] = g[N]
  <2>1. f[0] = g[0] /\ \A n \in 1 .. N : f[n] = Turn(n, f[n - 1])
    <3>1. f[0] = base /\ \A n \in 1 .. N : f[n] = Turn(n, f[n - 1])
      BY <1>8
    <3> QED BY <1>6, <3>1
  <2>2. KeepAgreeing(f, g, N)
    BY <1>6, <2>1, Zenon DEF KeepAgreeing
  <2>3. \A n \in 0 .. N : f[n] = g[n]
    BY <2>2, LoopsAgree, Zenon
  <2> QED BY <2>3
<1>9. Stream(F) = Append(g[N], Trailer)
  <2> HIDE DEF Upto
  <2> QED BY <1>4, <1>7, <1>8
<1>10. PICK B \in [0 .. N -> Nat] : \A n \in 0 .. N : B[n] = Len(g[n])
  <2>1. [n \in 0 .. N |-> Len(g[n])] \in [0 .. N -> Nat]
    BY <1>6
  <2> QED BY <2>1
<1> DEFINE T == {k \in 0 .. N : LaidOut(F, g[k], B, k)}
<1>11. 0 \in T
  <2>1. Len(g[0]) = 3 /\ g[0][3] = N
    BY <1>0, <1>6
  <2>2. B[0] = 3
    <3>1. 0 \in 0 .. N
      OBVIOUS
    <3>2. B[0] = Len(g[0])
      BY <1>10, <3>1, Zenon
    <3> QED BY <2>1, <3>2, Zenon
  <2>3. 3 <= Len(g[0]) /\ g[0][3] = Len(F)
    BY <1>1, <2>1
  <2>4. LaidOut(F, g[0], B, 0)
    BY <2>2, <2>3 DEF LaidOut
  <2> QED BY <2>4
<1>12. ASSUME NEW n \in 1 .. N, n - 1 \in T PROVE n \in T
  <2>1. PICK s \in Seq(Byte) : s = g[n - 1]
    BY <1>6
  <2>2. PICK r \in Seq(Byte) : r = g[n]
    BY <1>6
  <2>3. F[n] \in EntryOk
    BY <1>2
  <2>4. /\ Len(r) = Len(s) + 2 + Len(F[n].path) + Len(F[n].bytes)
        /\ Len(s) <= Len(r) /\ \A i \in 1 .. Len(s) : r[i] = s[i]
        /\ LiesAt(F[n], r, Len(s))
    <3>1. r = Turn(n, s)
      BY <1>6, <2>1, <2>2
    <3> QED BY <1>3, <3>1
  <2>5. B[n - 1] = Len(s) /\ B[n] = Len(r) /\ n \in 0 .. N /\ Len(s) \in Nat /\ Len(r) \in Nat
    BY <1>10, <2>1, <2>2
  <2>6. LaidOut(F, s, B, n - 1)
    BY <1>12, <2>1
  <2>7. Len(s) <= Len(r)
    BY <2>4, Zenon
  <2>8. 3 <= Len(r) /\ r[3] = Len(F) /\ B[0] = 3
    <3>1. 3 <= Len(s) /\ s[3] = Len(F) /\ B[0] = 3
      BY <2>6 DEF LaidOut
    <3>2. r[3] = s[3]
      <4>1. \A i \in 1 .. Len(s) : r[i] = s[i]
        BY <2>4
      <4>2. 3 \in 1 .. Len(s)
        BY <2>5, <3>1
      <4> QED BY <4>1, <4>2
    <3> QED BY <2>5, <2>7, <3>1, <3>2
  <2>9. ASSUME NEW j \in 1 .. n
        PROVE  /\ LiesAt(F[j], r, B[j - 1])
               /\ B[j] = B[j - 1] + 2 + Len(F[j].path) + Len(F[j].bytes)
    <3>1. CASE j \in 1 .. n - 1
      <4>1. /\ LiesAt(F[j], s, B[j - 1])
            /\ B[j] = B[j - 1] + 2 + Len(F[j].path) + Len(F[j].bytes)
        BY <2>6, <3>1 DEF LaidOut
      <4>2. F[j] \in EntryOk /\ B[j - 1] \in Nat
        BY <1>2, <3>1
      <4>3. LiesAt(F[j], r, B[j - 1])
        BY <2>4, <2>7, <4>1, <4>2, StillLiesAt
      <4> QED BY <4>1, <4>3
    <3>2. CASE j = n
      BY <2>4, <2>5, <3>2
    <3> QED BY <3>1, <3>2
  <2>10. LaidOut(F, r, B, n)
    BY <2>8, <2>9 DEF LaidOut
  <2> QED BY <2>2, <2>5, <2>10
<1>13. N \in T
  <2>1. 0 .. N \subseteq T
    <3> HIDE DEF T
    <3> QED BY <1>11, <1>12, InductionUpTo
  <2> QED BY <2>1
<1>14. PICK s \in Seq(Byte) : s = g[N]
  BY <1>6
<1>15. PICK r : r = Append(s, Trailer)
  OBVIOUS
<1>16. /\ r \in Seq(Byte) /\ Len(r) = Len(s) + 1 /\ Len(s) \in Nat
       /\ \A i \in 1 .. Len(s) : r[i] = s[i]
  BY <1>15, Widths, AppendProperties
<1>17. LaidOut(F, r, B, N)
  <2>1. LaidOut(F, s, B, N)
    BY <1>13, <1>14
  <2>2. ASSUME NEW j \in 1 .. N PROVE LiesAt(F[j], r, B[j - 1])
    <3>1. F[j] \in EntryOk /\ B[j - 1] \in Nat /\ LiesAt(F[j], s, B[j - 1])
      BY <1>2, <2>1 DEF LaidOut
    <3>2. Len(s) <= Len(r)
      BY <1>16
    <3> QED BY <1>16, <3>1, <3>2, StillLiesAt
  <2>3. 3 <= Len(r) /\ r[3] = Len(F) /\ B[0] = 3
    BY <1>16, <2>1 DEF LaidOut
  <2> QED BY <2>1, <2>2, <2>3 DEF LaidOut
<1> QED
  BY <1>1, <1>9, <1>14, <1>15, <1>16, <1>17

-----------------------------------------------------------------------------
(* The parser, one byte at a time.                                         *)

HeaderWant == {"magic", "version", "count"}
FrameWant  == {"pathlen", "path", "bytelen", "bytes"}
Want       == HeaderWant \cup FrameWant \cup {"trailer", "done", "error"}

ParserRecord ==
  [want : Want, left : 0 .. CountLimit, size : Byte, path : Seq(Utf8), part : Seq(Byte),
   frames : Seq(Frame)]

\* Within a frame, that frame is still to come.
Parser == {p \in ParserRecord : p.want \in FrameWant => p.left # 0}

LEMMA ParserFields ==
  ASSUME NEW p \in ParserRecord
  PROVE  /\ p.want \in Want /\ p.left \in 0 .. CountLimit /\ p.size \in Byte
         /\ p.path \in Seq(Utf8) /\ p.part \in Seq(Byte) /\ p.frames \in Seq(Frame)
         /\ p.left \in Nat /\ Len(p.part) \in Nat /\ Len(p.frames) \in Nat
BY Widths DEF ParserRecord

LEMMA StartTyped == Start \in Parser
<1>1. 0 \in 0 .. CountLimit /\ 0 \in Byte
  BY Widths
<1>2. <<>> \in Seq(Utf8) /\ <<>> \in Seq(Byte) /\ <<>> \in Seq(Frame)
  OBVIOUS
<1>3. "magic" \in Want /\ "magic" \notin FrameWant
  BY DEF Want, HeaderWant, FrameWant
<1> QED
  BY <1>1, <1>2, <1>3 DEF Start, Parser, ParserRecord

LEMMA BrokenIs ==
  ASSUME NEW p \in ParserRecord, NEW q, q = Broken(p)
  PROVE  q \in Parser /\ q.want = "error" /\ q.frames = p.frames /\ q.left = p.left
<1>1. "error" \in Want /\ "error" \notin FrameWant
  BY DEF Want, FrameWant
<1> QED
  BY <1>1 DEF Broken, Parser, ParserRecord

LEMMA NextFrameIs ==
  ASSUME NEW p \in ParserRecord, NEW q, q = NextFrame(p)
  PROVE  /\ q \in Parser /\ q.frames = p.frames /\ q.left = p.left /\ q.part = <<>>
         /\ p.left = 0 => q.want = "trailer"
         /\ p.left # 0 => q.want = "pathlen"
<1>1. {"trailer", "pathlen"} \subseteq Want /\ "trailer" \notin FrameWant
  BY DEF Want, FrameWant
<1>2. <<>> \in Seq(Utf8) /\ <<>> \in Seq(Byte) /\ 0 \in Byte
  BY Widths
<1> QED
  BY <1>1, <1>2 DEF NextFrame, Parser, ParserRecord

LEMMA FrameDoneIs ==
  ASSUME NEW p \in ParserRecord, p.left # 0, NEW q, q = FrameDone(p)
  PROVE  /\ q \in Parser /\ q.left = p.left - 1 /\ q.part = <<>>
         /\ q.frames = Append(p.frames, [path |-> p.path, bytes |-> p.part])
         /\ q.left = 0 => q.want = "trailer"
         /\ q.left # 0 => q.want = "pathlen"
<1>1. PICK f : f = [path |-> p.path, bytes |-> p.part]
  OBVIOUS
<1>2. f \in Frame
  BY <1>1 DEF ParserRecord, Frame
<1>3. PICK fs : fs = Append(p.frames, f)
  OBVIOUS
<1>4. fs \in Seq(Frame)
  BY <1>2, <1>3, ParserFields, AppendProperties
<1>5. PICK l \in Nat : l = p.left - 1 /\ l \in 0 .. CountLimit
  BY ParserFields, Widths
<1>6. PICK r : r = [p EXCEPT !.frames = fs, !.left = l]
  OBVIOUS
<1>7. r \in ParserRecord /\ r.frames = fs /\ r.left = l
  BY <1>4, <1>5, <1>6 DEF ParserRecord
<1>8. q = NextFrame(r)
  BY <1>1, <1>3, <1>5, <1>6 DEF FrameDone, ParserRecord
<1> QED
  BY <1>1, <1>3, <1>5, <1>7, <1>8, NextFrameIs

LEMMA PathPartIs ==
  ASSUME NEW p \in Parser, p.want = "path", NEW q, q = PathPart(p)
  PROVE  /\ q \in Parser /\ q.frames = p.frames /\ q.left = p.left
         /\ \/ q = p /\ Len(p.part) # p.size
            \/ q.want = "error"
            \/ /\ q.want = "bytelen" /\ q.path = p.part /\ q.part = <<>>
               /\ Len(p.part) = p.size
<1>0. p \in ParserRecord /\ p.left # 0 /\ {"bytelen"} \subseteq Want
  BY DEF Parser, FrameWant, Want
<1>1. CASE Len(p.part) # p.size
  BY <1>1 DEF PathPart
<1>2. CASE Len(p.part) = p.size /\ \A i \in DOMAIN p.part : p.part[i] \in Utf8
  <2>1. p.part \in Seq(Utf8)
    <3>1. p.part \in Seq(Byte)
      BY <1>0, ParserFields
    <3> QED BY <1>2, <3>1
  <2>2. q = [p EXCEPT !.want = "bytelen", !.path = p.part, !.part = <<>>]
    BY <1>2 DEF PathPart, PathDone
  <2>3. <<>> \in Seq(Byte)
    OBVIOUS
  <2>4. q \in ParserRecord /\ q.want = "bytelen" /\ q.path = p.part /\ q.part = <<>>
        /\ q.frames = p.frames /\ q.left = p.left
    BY <1>0, <2>1, <2>2, <2>3 DEF ParserRecord
  <2> QED BY <1>0, <1>2, <2>4 DEF Parser
<1>3. CASE Len(p.part) = p.size /\ ~ \A i \in DOMAIN p.part : p.part[i] \in Utf8
  <2>1. q = Broken(p)
    BY <1>3 DEF PathPart, PathDone
  <2> QED BY <1>0, <2>1, BrokenIs
<1> QED
  BY <1>1, <1>2, <1>3

LEMMA BytesPartIs ==
  ASSUME NEW p \in Parser, p.want = "bytes", NEW q, q = BytesPart(p)
  PROVE  /\ q \in Parser
         /\ \/ q = p /\ Len(p.part) # p.size
            \/ q = FrameDone(p) /\ Len(p.part) = p.size
<1>1. p \in ParserRecord /\ p.left # 0
  BY DEF Parser, FrameWant
<1> QED
  BY <1>1, FrameDoneIs DEF BytesPart

\* What one byte does, by the field that awaits it.
LEMMA HeaderStep ==
  ASSUME NEW p \in Parser, NEW b \in Byte, p.want \in {"magic", "version", "trailer"},
         NEW q, q = Step(p, b)
  PROVE  /\ q \in Parser /\ q.frames = p.frames /\ q.left = p.left
         /\ \/ q.want = "error"
            \/ p.want = "magic" /\ q.want = "version"
            \/ p.want = "version" /\ q.want = "count"
            \/ p.want = "trailer" /\ q.want = "done"
<1>0. p \in ParserRecord
  BY DEF Parser
<1>1. CASE q = Broken(p)
  BY <1>0, <1>1, BrokenIs
<1>2. ASSUME NEW w \in {"version", "count", "done"}, q = [p EXCEPT !.want = w]
      PROVE  q \in Parser /\ q.frames = p.frames /\ q.left = p.left /\ q.want = w
  <2>1. w \in Want \ FrameWant
    BY DEF Want, HeaderWant, FrameWant
  <2> QED BY <1>0, <1>2, <2>1 DEF Parser, ParserRecord
<1>3. CASE p.want = "magic"
  <2>1. Step(p, b) = IF b = Header THEN [p EXCEPT !.want = "version"] ELSE Broken(p)
    BY <1>3 DEF Step
  <2> QED BY <1>1, <1>2, <1>3, <2>1
<1>4. CASE p.want = "version"
  <2>1. Step(p, b) = IF b = Version THEN [p EXCEPT !.want = "count"] ELSE Broken(p)
    BY <1>4 DEF Step
  <2> QED BY <1>1, <1>2, <1>4, <2>1
<1>5. CASE p.want = "trailer"
  <2>1. Step(p, b) = IF b = Trailer THEN [p EXCEPT !.want = "done"] ELSE Broken(p)
    BY <1>5 DEF Step
  <2> QED BY <1>1, <1>2, <1>5, <2>1
<1> QED
  BY <1>3, <1>4, <1>5

LEMMA CountStep ==
  ASSUME NEW p \in Parser, NEW b \in Byte, p.want = "count", NEW q, q = Step(p, b)
  PROVE  /\ q \in Parser /\ q.frames = p.frames
         /\ \/ q.want = "error"
            \/ /\ q.left = b /\ q.part = <<>>
               /\ b = 0 => q.want = "trailer"
               /\ b # 0 => q.want = "pathlen"
<1>0. p \in ParserRecord
  BY DEF Parser
<1>1. Step(p, b) = IF WithinLimit(b, CountLimit) THEN NextFrame([p EXCEPT !.left = b])
                   ELSE Broken(p)
  BY DEF Step
<1>2. CASE ~WithinLimit(b, CountLimit)
  BY <1>0, <1>1, <1>2, BrokenIs
<1>3. CASE WithinLimit(b, CountLimit)
  <2>1. b \in 0 .. CountLimit
    BY <1>3, Widths DEF WithinLimit
  <2>2. PICK r : r = [p EXCEPT !.left = b]
    OBVIOUS
  <2>3. r \in ParserRecord /\ r.frames = p.frames /\ r.left = b
    BY <1>0, <2>1, <2>2 DEF ParserRecord
  <2> QED BY <1>1, <1>3, <2>2, <2>3, NextFrameIs
<1> QED
  BY <1>2, <1>3

\* The parser after a length or a byte of the path, before it looks whether the path is
\* complete; and the same for the content.
Measured(p, w, b) == [p EXCEPT !.want = w, !.size = b]
Fed(p, b)         == [p EXCEPT !.part = Append(@, b)]

LEMMA MeasuredIs ==
  ASSUME NEW p \in Parser, p.want \in FrameWant, NEW w \in FrameWant, NEW b \in Byte,
         NEW r, r = Measured(p, w, b)
  PROVE  /\ r \in Parser /\ r.want = w /\ r.size = b /\ r.left = p.left
         /\ r.frames = p.frames /\ r.path = p.path /\ r.part = p.part
BY DEF Measured, Parser, ParserRecord, Want

LEMMA FedIs ==
  ASSUME NEW p \in Parser, NEW b \in Byte, NEW r, r = Fed(p, b)
  PROVE  /\ r \in Parser /\ r.want = p.want /\ r.size = p.size /\ r.left = p.left
         /\ r.frames = p.frames /\ r.path = p.path /\ r.part = Append(p.part, b)
<1>0. p \in ParserRecord
  BY DEF Parser
<1>1. Append(p.part, b) \in Seq(Byte)
  BY <1>0, ParserFields, AppendProperties
<1>2. r = [p EXCEPT !.part = Append(p.part, b)]
  BY <1>0 DEF Fed, ParserRecord
<1>3. PICK u \in Seq(Byte) : u = Append(p.part, b)
  BY <1>1
<1>4. r = [p EXCEPT !.part = u]
  BY <1>2, <1>3
<1> QED
  BY <1>0, <1>3, <1>4 DEF Parser, ParserRecord

LEMMA FrameStep ==
  ASSUME NEW p \in Parser, NEW b \in Byte, p.want \in FrameWant
  PROVE  /\ p.want = "pathlen" =>
              Step(p, b) = IF b <= PathLimit THEN PathPart(Measured(p, "path", b)) ELSE Broken(p)
         /\ p.want = "path" => Step(p, b) = PathPart(Fed(p, b))
         /\ p.want = "bytelen" =>
              Step(p, b) = IF b <= EntryLimit THEN BytesPart(Measured(p, "bytes", b)) ELSE Broken(p)
         /\ p.want = "bytes" => Step(p, b) = BytesPart(Fed(p, b))
<1>1. p.want = "pathlen" =>
        Step(p, b) = IF b <= PathLimit THEN PathPart(Measured(p, "path", b)) ELSE Broken(p)
  BY DEF Step, WithinLimit, Measured
<1>2. p.want = "path" => Step(p, b) = PathPart(Fed(p, b))
  BY DEF Step, Fed
<1>3. p.want = "bytelen" =>
        Step(p, b) = IF b <= EntryLimit THEN BytesPart(Measured(p, "bytes", b)) ELSE Broken(p)
  BY DEF Step, WithinLimit, Measured
<1>4. p.want = "bytes" => Step(p, b) = BytesPart(Fed(p, b))
  BY DEF Step, Fed
<1> QED
  BY <1>1, <1>2, <1>3, <1>4

LEMMA RestStep ==
  ASSUME NEW p \in Parser, NEW b \in Byte, p.want \in {"done", "error"}
  PROVE  Step(p, b) = p
BY DEF Step

\* One byte makes a parser state of a parser state.
LEMMA StepTyped ==
  ASSUME NEW p \in Parser, NEW b \in Byte
  PROVE  Step(p, b) \in Parser
<1>0. p \in ParserRecord /\ p.want \in Want
  BY ParserFields DEF Parser
<1>1. CASE p.want \in {"magic", "version", "trailer"}
  BY <1>1, HeaderStep
<1>2. CASE p.want = "count"
  BY <1>2, CountStep
<1>3. CASE p.want \in {"done", "error"}
  BY <1>3, RestStep
<1>4. CASE p.want = "pathlen"
  <2>1. PICK r : r = Measured(p, "path", b)
    OBVIOUS
  <2>2. r \in Parser /\ r.want = "path"
    BY <1>4, <2>1, MeasuredIs DEF FrameWant
  <2>3. PathPart(r) \in Parser
    BY <2>2, PathPartIs
  <2>4. Broken(p) \in Parser
    BY <1>0, BrokenIs
  <2>5. Step(p, b) = PathPart(r) \/ Step(p, b) = Broken(p)
    BY <1>4, <2>1, FrameStep DEF FrameWant
  <2> QED BY <2>3, <2>4, <2>5
<1>5. CASE p.want = "path"
  <2>1. PICK r : r = Fed(p, b)
    OBVIOUS
  <2>2. r \in Parser /\ r.want = "path"
    BY <1>5, <2>1, FedIs
  <2>3. Step(p, b) = PathPart(r)
    BY <1>5, <2>1, FrameStep DEF FrameWant
  <2> QED BY <2>2, <2>3, PathPartIs
<1>6. CASE p.want = "bytelen"
  <2>1. PICK r : r = Measured(p, "bytes", b)
    OBVIOUS
  <2>2. r \in Parser /\ r.want = "bytes"
    BY <1>6, <2>1, MeasuredIs DEF FrameWant
  <2>3. BytesPart(r) \in Parser
    BY <2>2, BytesPartIs
  <2>4. Broken(p) \in Parser
    BY <1>0, BrokenIs
  <2>5. Step(p, b) = BytesPart(r) \/ Step(p, b) = Broken(p)
    BY <1>6, <2>1, FrameStep DEF FrameWant
  <2> QED BY <2>3, <2>4, <2>5
<1>7. CASE p.want = "bytes"
  <2>1. PICK r : r = Fed(p, b)
    OBVIOUS
  <2>2. r \in Parser /\ r.want = "bytes"
    BY <1>7, <2>1, FedIs
  <2>3. Step(p, b) = BytesPart(r)
    BY <1>7, <2>1, FrameStep DEF FrameWant
  <2> QED BY <2>2, <2>3, BytesPartIs
<1> QED
  BY <1>0, <1>1, <1>2, <1>3, <1>4, <1>5, <1>6, <1>7 DEF Want, HeaderWant, FrameWant

\* Parse is the loop of Step over the bytes.
Parses(f, p, bytes) ==
  /\ f[0] = p
  /\ \A n \in 1 .. Len(bytes) : f[n] = Step(f[n - 1], bytes[n])

LEMMA ParseRuns ==
  ASSUME NEW p \in Parser, NEW bytes \in Seq(Byte)
  PROVE  \E f \in [0 .. Len(bytes) -> Parser] :
           Parses(f, p, bytes) /\ f[Len(bytes)] = Parse(p, bytes)
<1>1. PICK N \in Nat : N = Len(bytes)
  OBVIOUS
<1>2. \A n \in 1 .. N : bytes[n] \in Byte
  BY <1>1
<1> DEFINE Turn(n, a) == Step(a, bytes[n])
           G == [n \in 1 .. N |-> [a \in Parser |-> Turn(n, a)]]
           Upto(f) == f = [n \in 0 .. N |-> IF n = 0 THEN p ELSE Turn(n, f[n - 1])]
<1>3. \A n \in 1 .. N : \A a \in Parser : Turn(n, a) \in Parser
  BY <1>2, StepTyped
<1>4. Parse(p, bytes) = (CHOOSE f : Upto(f))[N]
  BY <1>1, Zenon DEF Parse
<1>5. \A n \in 1 .. N : \A a : Turn(n, a) = Step(a, bytes[n])
  OBVIOUS
<1> HIDE DEF Turn
<1>6. PICK g : Run(g, Parser, N, p, G)
  <2>1. G \in [1 .. N -> [Parser -> Parser]]
    BY <1>3
  <2> HIDE DEF G
  <2> QED BY <2>1, LoopRuns
<1>7. g \in [0 .. N -> Parser] /\ g[0] = p /\ \A n \in 1 .. N : g[n] = Turn(n, g[n - 1])
  <2>1. \A n \in 1 .. N : \A a \in Parser : G[n][a] = Turn(n, a)
    OBVIOUS
  <2> HIDE DEF G
  <2>2. g \in [0 .. N -> Parser] /\ g[0] = p /\ \A n \in 1 .. N : g[n] = G[n][g[n - 1]]
    BY <1>6, Zenon DEF Run
  <2>3. \A n \in 1 .. N : g[n - 1] \in Parser
    BY <2>2
  <2> QED BY <2>1, <2>2, <2>3
<1>8. Upto(g)
  BY <1>7
<1>9. ASSUME NEW f, Upto(f)
      PROVE  f[N] = g[N]
  <2>1. f[0] = p /\ \A n \in 1 .. N : f[n] = Turn(n, f[n - 1])
    BY <1>9
  <2>2. KeepAgreeing(f, g, N)
    BY <1>7, <2>1, Zenon DEF KeepAgreeing
  <2>3. \A n \in 0 .. N : f[n] = g[n]
    BY <2>2, LoopsAgree, Zenon
  <2> QED BY <2>3
<1>10. g[N] = Parse(p, bytes)
  <2> HIDE DEF Upto
  <2> QED BY <1>4, <1>8, <1>9
<1> QED
  BY <1>1, <1>5, <1>7, <1>10 DEF Parses

-----------------------------------------------------------------------------
(* What the parser has made of the stream of F after t bytes, if no entry  *)
(* of F shrank: where in the entry at base b it is.                        *)

Begins(u, v) == Len(u) <= Len(v) /\ \A i \in 1 .. Len(u) : u[i] = v[i]

InPath(e, p, b, t) ==
  /\ t = b + 1 + Len(p.part)
  /\ p.size = Len(e.path) /\ Len(e.path) <= PathLimit
  /\ Begins(p.part, e.path)

InBytes(e, p, b, t) ==
  /\ t = b + 2 + Len(e.path) + Len(p.part)
  /\ p.path = e.path /\ Len(e.path) <= PathLimit
  /\ p.size = e.size /\ e.size <= EntryLimit
  /\ Begins(p.part, e.bytes)

InEntry(e, p, b, t) ==
  /\ p.want = "pathlen" => t = b /\ p.part = <<>>
  /\ p.want = "path" => InPath(e, p, b, t) /\ Len(p.part) # p.size
  /\ p.want = "bytelen" => /\ t = b + 1 + Len(e.path) /\ p.part = <<>>
                           /\ p.path = e.path /\ Len(e.path) <= PathLimit
  /\ p.want = "bytes" => InBytes(e, p, b, t) /\ Len(p.part) # p.size

LEMMA BeginsAll ==
  ASSUME NEW E, NEW u \in Seq(E), NEW v \in Seq(E), Begins(u, v), Len(u) = Len(v)
  PROVE  u = v
BY SeqEqual DEF Begins

LEMMA BeginsLonger ==
  ASSUME NEW u \in Seq(Byte), NEW v \in Seq(Byte), Begins(u, v), Len(u) # Len(v),
         NEW w, w = Append(u, v[Len(u) + 1])
  PROVE  w \in Seq(Byte) /\ Len(w) = Len(u) + 1 /\ Begins(w, v)
<1>1. PICK m \in Nat : m = Len(u)
  OBVIOUS
<1>2. PICK n \in Nat : n = Len(v)
  OBVIOUS
<1>3. m + 1 <= n /\ \A i \in 1 .. m : u[i] = v[i]
  BY <1>1, <1>2 DEF Begins
<1>4. PICK x \in Byte : x = v[m + 1]
  <2>1. m + 1 \in 1 .. n
    BY <1>3
  <2> QED BY <1>2, <2>1
<1>5. /\ w \in Seq(Byte) /\ Len(w) = m + 1 /\ w[m + 1] = x
      /\ \A i \in 1 .. m : w[i] = u[i]
  <2>1. w = Append(u, x)
    BY <1>1, <1>4
  <2> QED BY <1>1, <2>1, AppendProperties
<1>6. \A i \in 1 .. m + 1 : w[i] = v[i]
  <2> TAKE i \in 1 .. m + 1
  <2>1. CASE i \in 1 .. m
    BY <1>3, <1>5, <2>1
  <2>2. CASE i = m + 1
    BY <1>4, <1>5, <2>2
  <2>3. i \in 1 .. m \/ i = m + 1
    OBVIOUS
  <2> QED BY <2>1, <2>2, <2>3
<1> QED
  BY <1>1, <1>2, <1>3, <1>5, <1>6 DEF Begins

LEMMA PathGoesOn ==
  ASSUME NEW e \in EntryOk, NEW r \in Parser, r.want = "path",
         NEW b \in Nat, NEW t \in Nat, InPath(e, r, b, t), NEW q, q = PathPart(r)
  PROVE  InEntry(e, q, b, t)
<1>1. r.part \in Seq(Byte) /\ e.path \in Seq(Byte)
  BY EntryFields, ParserFields DEF Parser
<1>2. CASE q = r /\ Len(r.part) # r.size
  BY <1>2 DEF InEntry
<1>3. CASE q.want = "error"
  BY <1>3 DEF InEntry
<1>4. CASE q.want = "bytelen" /\ q.path = r.part /\ q.part = <<>> /\ Len(r.part) = r.size
  <2>1. r.part = e.path
    BY <1>1, <1>4, BeginsAll DEF InPath
  <2>2. t = b + 1 + Len(e.path) /\ Len(e.path) <= PathLimit
    BY <2>1 DEF InPath
  <2> QED BY <1>4, <2>1, <2>2 DEF InEntry
<1> QED
  BY <1>2, <1>3, <1>4, PathPartIs

LEMMA BytesGoOn ==
  ASSUME NEW e \in EntryOk, ~Shrank(e), NEW r \in Parser, r.want = "bytes",
         NEW b \in Nat, NEW t \in Nat, InBytes(e, r, b, t), NEW q, q = BytesPart(r)
  PROVE  \/ q = r /\ InEntry(e, q, b, t)
         \/ /\ q = FrameDone(r) /\ r.path = e.path /\ r.part = e.bytes /\ ~Refusable(e)
            /\ t = b + 2 + Len(e.path) + Len(e.bytes)
<1>1. /\ r.part \in Seq(Byte) /\ e.bytes \in Seq(Byte) /\ Len(e.bytes) \in Nat /\ e.size \in Nat
      /\ Len(e.path) \in Nat /\ Len(e.bytes) <= e.size
  BY EntryFields, ParserFields DEF Parser
<1>2. CASE q = r /\ Len(r.part) # r.size
  BY <1>2 DEF InEntry
<1>3. CASE q = FrameDone(r) /\ Len(r.part) = r.size
  <2>1. Len(e.bytes) = e.size
    BY <1>1 DEF Shrank
  <2>2. r.part = e.bytes
    BY <1>1, <1>3, <2>1, BeginsAll DEF InBytes
  <2>3. ~Refusable(e)
    BY <1>1, LimitsAssumption DEF Refusable, InBytes
  <2>4. t = b + 2 + Len(e.path) + Len(e.bytes) /\ r.path = e.path
    BY <2>2 DEF InBytes
  <2> QED BY <1>3, <2>2, <2>3, <2>4
<1> QED
  BY <1>2, <1>3, BytesPartIs

\* How a byte ends or does not end a frame, whatever it is.
SameFrame(p, q) ==
  q.frames = p.frames /\ q.left = p.left /\ q.want \in FrameWant \cup {"error"}
EndsFrame(p, q, r) == r \in Parser /\ r.frames = p.frames /\ r.left = p.left /\ q = FrameDone(r)

LEMMA FrameStepShape ==
  ASSUME NEW p \in Parser, p.want \in FrameWant, NEW c \in Byte, NEW q, q = Step(p, c)
  PROVE  SameFrame(p, q) \/ \E r \in Parser : EndsFrame(p, q, r)
<1>0. p \in ParserRecord
  BY DEF Parser
<1>1. CASE q = Broken(p)
  BY <1>0, <1>1, BrokenIs DEF SameFrame
<1>2. ASSUME NEW r \in Parser, r.want = "path", r.frames = p.frames, r.left = p.left,
             q = PathPart(r)
      PROVE  SameFrame(p, q)
  <2>1. q.frames = p.frames /\ q.left = p.left /\ q.want \in {"path", "error", "bytelen"}
    BY <1>2, PathPartIs
  <2> QED BY <2>1 DEF SameFrame, FrameWant
<1>3. ASSUME NEW r \in Parser, r.want = "bytes", r.frames = p.frames, r.left = p.left,
             q = BytesPart(r)
      PROVE  SameFrame(p, q) \/ EndsFrame(p, q, r)
  <2>1. q = r \/ q = FrameDone(r)
    BY <1>3, BytesPartIs
  <2> QED BY <1>3, <2>1 DEF SameFrame, EndsFrame, FrameWant
<1>4. CASE p.want = "pathlen"
  <2>1. PICK r : r = Measured(p, "path", c)
    OBVIOUS
  <2>2. r \in Parser /\ r.want = "path" /\ r.frames = p.frames /\ r.left = p.left
    BY <2>1, MeasuredIs DEF FrameWant
  <2>3. q = PathPart(r) \/ q = Broken(p)
    BY <1>4, <2>1, FrameStep
  <2> QED BY <1>1, <1>2, <2>2, <2>3
<1>5. CASE p.want = "path"
  <2>1. PICK r : r = Fed(p, c)
    OBVIOUS
  <2>2. r \in Parser /\ r.want = "path" /\ r.frames = p.frames /\ r.left = p.left
    BY <1>5, <2>1, FedIs
  <2>3. q = PathPart(r)
    BY <1>5, <2>1, FrameStep
  <2> QED BY <1>2, <2>2, <2>3
<1>6. CASE p.want = "bytelen"
  <2>1. PICK r : r = Measured(p, "bytes", c)
    OBVIOUS
  <2>2. r \in Parser /\ r.want = "bytes" /\ r.frames = p.frames /\ r.left = p.left
    BY <2>1, MeasuredIs DEF FrameWant
  <2>3. q = BytesPart(r) \/ q = Broken(p)
    BY <1>6, <2>1, FrameStep
  <2> QED BY <1>1, <1>3, <2>2, <2>3
<1>7. CASE p.want = "bytes"
  <2>1. PICK r : r = Fed(p, c)
    OBVIOUS
  <2>2. r \in Parser /\ r.want = "bytes" /\ r.frames = p.frames /\ r.left = p.left
    BY <1>7, <2>1, FedIs
  <2>3. q = BytesPart(r)
    BY <1>7, <2>1, FrameStep
  <2> QED BY <1>3, <2>2, <2>3
<1> QED
  BY <1>4, <1>5, <1>6, <1>7 DEF FrameWant

\* The same for the next byte of an entry that did not shrink.
EndsEntry(e, p, q, r, b, t) ==
  /\ EndsFrame(p, q, r)
  /\ r.path = e.path /\ r.part = e.bytes /\ ~Refusable(e)
  /\ t = b + 2 + Len(e.path) + Len(e.bytes)

LEMMA EntryStep ==
  ASSUME NEW e \in EntryOk, ~Shrank(e), NEW s \in Seq(Byte), NEW b \in Nat, LiesAt(e, s, b),
         NEW p \in Parser, p.want \in FrameWant, NEW t \in Nat, InEntry(e, p, b, t),
         t < Len(s), NEW q, q = Step(p, s[t + 1])
  PROVE  \/ SameFrame(p, q) /\ InEntry(e, q, b, t + 1)
         \/ \E r \in Parser : EndsEntry(e, p, q, r, b, t + 1)
<1>0. p \in ParserRecord /\ p.part \in Seq(Byte)
  BY ParserFields DEF Parser
<1>1. PICK c \in Byte : c = s[t + 1] /\ q = Step(p, c)
  OBVIOUS
<1>2. /\ e.path \in Seq(Byte) /\ e.bytes \in Seq(Byte) /\ Len(e.path) \in Nat /\ Len(e.bytes) \in Nat
      /\ e.size \in Nat /\ Len(e.path) \in Byte /\ e.size \in Byte /\ Len(e.bytes) <= e.size
  BY EntryFields
<1>3. Len(e.bytes) = e.size
  BY <1>2 DEF Shrank
<1>11. PICK l \in Nat : l = Len(e.path)
  BY <1>2
<1>4. CASE q = Broken(p)
  <2>1. q.want = "error" /\ SameFrame(p, q)
    BY <1>0, <1>4, BrokenIs DEF SameFrame
  <2> QED BY <2>1 DEF InEntry
<1>5. ASSUME NEW r \in Parser, r.want = "path", r.frames = p.frames, r.left = p.left,
             q = PathPart(r), InPath(e, r, b, t + 1)
      PROVE  SameFrame(p, q) /\ InEntry(e, q, b, t + 1)
  <2>1. q.frames = p.frames /\ q.left = p.left /\ q.want \in {"path", "error", "bytelen"}
    BY <1>5, PathPartIs
  <2>2. SameFrame(p, q)
    BY <2>1 DEF SameFrame, FrameWant
  <2>3. InEntry(e, q, b, t + 1)
    <3>1. t + 1 \in Nat
      OBVIOUS
    <3> QED BY <1>5, <3>1, PathGoesOn
  <2> QED BY <2>2, <2>3
<1>6. ASSUME NEW r \in Parser, r.want = "bytes", r.frames = p.frames, r.left = p.left,
             q = BytesPart(r), InBytes(e, r, b, t + 1)
      PROVE  \/ SameFrame(p, q) /\ InEntry(e, q, b, t + 1)
             \/ EndsEntry(e, p, q, r, b, t + 1)
  <2>0. t + 1 \in Nat
    OBVIOUS
  <2>1. \/ q = r /\ InEntry(e, q, b, t + 1)
        \/ /\ q = FrameDone(r) /\ r.path = e.path /\ r.part = e.bytes /\ ~Refusable(e)
           /\ t + 1 = b + 2 + Len(e.path) + Len(e.bytes)
    BY <1>6, <2>0, BytesGoOn
  <2>2. q = r => SameFrame(p, q)
    BY <1>6 DEF SameFrame, FrameWant
  <2>3. q = FrameDone(r) => EndsFrame(p, q, r)
    BY <1>6 DEF EndsFrame
  <2> QED BY <2>1, <2>2, <2>3, Zenon DEF EndsEntry
<1>7. CASE p.want = "pathlen"
  <2>1. t = b /\ p.part = <<>>
    BY <1>7 DEF InEntry
  <2>2. c = Len(e.path)
    BY <1>1, <2>1 DEF LiesAt, Lies
  <2>3. PICK r : r = Measured(p, "path", c)
    OBVIOUS
  <2>4. r \in Parser /\ r.want = "path" /\ r.frames = p.frames /\ r.left = p.left
        /\ r.size = c /\ r.part = p.part
    BY <2>3, MeasuredIs DEF FrameWant
  <2>5. CASE c <= PathLimit
    <3>1. q = PathPart(r)
      BY <1>1, <1>7, <2>3, <2>5, FrameStep
    <3>2. InPath(e, r, b, t + 1)
      <4>1. Len(r.part) = 0
        BY <2>1, <2>4
      <4>2. Begins(r.part, e.path)
        BY <1>2, <4>1 DEF Begins
      <4>3. t + 1 = b + 1 + Len(r.part)
        BY <2>1, <4>1
      <4> QED BY <2>2, <2>4, <2>5, <4>2, <4>3 DEF InPath
    <3> QED BY <1>5, <2>4, <3>1, <3>2
  <2>6. CASE ~(c <= PathLimit)
    BY <1>1, <1>4, <1>7, <2>6, FrameStep
  <2> QED BY <2>5, <2>6
<1>8. CASE p.want = "path"
  <2>1. InPath(e, p, b, t) /\ Len(p.part) # p.size
    BY <1>8 DEF InEntry
  <2>2. PICK d \in Nat : d = Len(p.part)
    BY <1>0
  <2>3. t = b + 1 + d /\ d < Len(e.path) /\ p.size = Len(e.path) /\ Len(e.path) <= PathLimit
        /\ Begins(p.part, e.path)
    BY <1>2, <2>1, <2>2 DEF InPath, Begins
  <2>4. c = e.path[d + 1]
    <3>1. d + 1 \in 1 .. Len(e.path)
      BY <1>2, <2>3
    <3>2. s[b + 1 + (d + 1)] = e.path[d + 1]
      BY <3>1 DEF LiesAt, Lies
    <3>3. b + 1 + (d + 1) = t + 1
      BY <2>3
    <3> QED BY <1>1, <3>2, <3>3
  <2>5. PICK r : r = Fed(p, c)
    OBVIOUS
  <2>6. r \in Parser /\ r.want = "path" /\ r.frames = p.frames /\ r.left = p.left
        /\ r.size = p.size /\ r.part = Append(p.part, c)
    BY <1>8, <2>5, FedIs
  <2>7. PICK w : w = r.part
    OBVIOUS
  <2>8. Len(w) = d + 1 /\ Begins(w, e.path)
    <3>1. w = Append(p.part, e.path[Len(p.part) + 1])
      BY <2>2, <2>4, <2>6, <2>7
    <3>2. Len(p.part) # Len(e.path)
      BY <1>2, <2>2, <2>3
    <3> QED BY <1>0, <1>2, <2>2, <2>3, <3>1, <3>2, BeginsLonger
  <2>9. InPath(e, r, b, t + 1)
    <3>1. t + 1 = b + 1 + Len(r.part)
      BY <2>3, <2>7, <2>8
    <3> QED BY <2>3, <2>6, <2>7, <2>8, <3>1 DEF InPath
  <2>10. q = PathPart(r)
    BY <1>1, <1>8, <2>5, FrameStep
  <2> QED BY <1>5, <2>6, <2>9, <2>10
<1>9. CASE p.want = "bytelen"
  <2>1. t = b + 1 + Len(e.path) /\ p.part = <<>> /\ p.path = e.path /\ Len(e.path) <= PathLimit
    BY <1>9 DEF InEntry
  <2>2. c = e.size
    <3>1. t + 1 = b + 2 + Len(e.path)
      <4>1. t = b + 1 + l
        BY <1>11, <2>1
      <4>2. t + 1 = b + 2 + l
        BY <4>1
      <4> QED BY <1>11, <4>2, Zenon
    <3>2. s[b + 2 + Len(e.path)] = e.size
      BY DEF LiesAt, Lies
    <3> QED BY <1>1, <3>1, <3>2
  <2>3. PICK r : r = Measured(p, "bytes", c)
    OBVIOUS
  <2>4. r \in Parser /\ r.want = "bytes" /\ r.frames = p.frames /\ r.left = p.left
        /\ r.size = c /\ r.part = p.part /\ r.path = p.path
    BY <2>3, MeasuredIs DEF FrameWant
  <2>5. CASE c <= EntryLimit
    <3>1. q = BytesPart(r)
      BY <1>1, <1>9, <2>3, <2>5, FrameStep
    <3>2. InBytes(e, r, b, t + 1)
      <4>1. Len(r.part) = 0
        BY <2>1, <2>4
      <4>2. Begins(r.part, e.bytes)
        BY <1>2, <4>1 DEF Begins
      <4>3. t + 1 = b + 2 + Len(e.path) + Len(r.part)
        <5>1. t = b + 1 + l
          BY <1>11, <2>1
        <5>2. t + 1 = b + 2 + l + 0
          BY <5>1
        <5> QED BY <1>11, <4>1, <5>2, Zenon
      <4> QED BY <2>1, <2>2, <2>4, <2>5, <4>2, <4>3 DEF InBytes
    <3> QED BY <1>6, <2>4, <3>1, <3>2
  <2>6. CASE ~(c <= EntryLimit)
    BY <1>1, <1>4, <1>9, <2>6, FrameStep
  <2> QED BY <2>5, <2>6
<1>10. CASE p.want = "bytes"
  <2>1. InBytes(e, p, b, t) /\ Len(p.part) # p.size
    BY <1>10 DEF InEntry
  <2>2. PICK d \in Nat : d = Len(p.part)
    BY <1>0
  <2>3. t = b + 2 + Len(e.path) + d /\ d < Len(e.bytes) /\ Begins(p.part, e.bytes)
    BY <1>2, <1>3, <2>1, <2>2 DEF InBytes, Begins
  <2>4. c = e.bytes[d + 1]
    <3>1. d + 1 \in 1 .. Len(e.bytes)
      BY <1>2, <2>3
    <3>2. s[b + 2 + Len(e.path) + (d + 1)] = e.bytes[d + 1]
      BY <3>1 DEF LiesAt, Lies
    <3>3. b + 2 + Len(e.path) + (d + 1) = t + 1
      <4>1. t = b + 2 + l + d
        BY <1>11, <2>3
      <4>2. b + 2 + l + (d + 1) = t + 1
        BY <4>1
      <4> QED BY <1>11, <4>2, Zenon
    <3> QED BY <1>1, <3>2, <3>3
  <2>5. PICK r : r = Fed(p, c)
    OBVIOUS
  <2>6. r \in Parser /\ r.want = "bytes" /\ r.frames = p.frames /\ r.left = p.left
        /\ r.size = p.size /\ r.part = Append(p.part, c) /\ r.path = p.path
    BY <1>10, <2>5, FedIs
  <2>7. PICK w : w = r.part
    OBVIOUS
  <2>8. Len(w) = d + 1 /\ Begins(w, e.bytes)
    <3>1. w = Append(p.part, e.bytes[Len(p.part) + 1])
      BY <2>2, <2>4, <2>6, <2>7
    <3>2. Len(p.part) # Len(e.bytes)
      BY <1>2, <2>2, <2>3
    <3> QED BY <1>0, <1>2, <2>2, <2>3, <3>1, <3>2, BeginsLonger
  <2>9. InBytes(e, r, b, t + 1)
    <3>1. t + 1 = b + 2 + Len(e.path) + Len(r.part)
      <4>1. Len(r.part) = d + 1 /\ t = b + 2 + l + d
        BY <1>11, <2>3, <2>7, <2>8
      <4>2. t + 1 = b + 2 + l + (d + 1)
        BY <4>1
      <4> QED BY <1>11, <4>1, <4>2, Zenon
    <3> QED BY <2>1, <2>6, <2>7, <2>8, <3>1 DEF InBytes
  <2>10. q = BytesPart(r)
    BY <1>1, <1>10, <2>5, FrameStep
  <2> QED BY <1>6, <2>6, <2>9, <2>10
<1> QED
  BY <1>7, <1>8, <1>9, <1>10 DEF FrameWant

-----------------------------------------------------------------------------
(* What the parser has made of the stream of F after t bytes, when the     *)
(* first K entries did not shrink: their frames are theirs, and from the   *)
(* first byte that is misread on it still counts its frames.               *)

Matched(F, K, fs) ==
  \A i \in 1 .. K : i <= Len(fs) => fs[i] = AsFrame(F[i]) /\ ~Refusable(F[i])

Accounted(F, p) ==
  /\ Len(p.frames) <= Len(F)
  /\ p.want \in HeaderWant => Len(p.frames) = 0
  /\ p.want \in FrameWant => Len(p.frames) + p.left = Len(F)
  /\ p.want \in {"trailer", "done"} => Len(p.frames) = Len(F)

InHeader(p, t) ==
  /\ p.want = "magic" => t = 0
  /\ p.want = "version" => t = 1
  /\ p.want = "count" => t = 2

OnTrack(F, K, B, p, t) ==
  p.want \in FrameWant /\ Len(p.frames) < K =>
    InEntry(F[Len(p.frames) + 1], p, B[Len(p.frames)], t)

Follows(F, K, B, p, t) ==
  Matched(F, K, p.frames) /\ Accounted(F, p) /\ InHeader(p, t) /\ OnTrack(F, K, B, p, t)

LEMMA FollowsFromStart ==
  ASSUME NEW F, Len(F) \in Nat, NEW K \in Nat, NEW B
  PROVE  Follows(F, K, B, Start, 0)
<1>1. PICK p : p = Start
  OBVIOUS
<1>2. p.want = "magic" /\ p.frames = <<>>
  BY <1>1 DEF Start
<1>3. Len(p.frames) = 0
  BY <1>2
<1>4. p.want \notin FrameWant /\ p.want \notin {"trailer", "done"}
  BY <1>2 DEF FrameWant
<1>5. Matched(F, K, p.frames)
  BY <1>3 DEF Matched
<1>6. Accounted(F, p) /\ InHeader(p, 0) /\ OnTrack(F, K, B, p, 0)
  BY <1>2, <1>3, <1>4 DEF Accounted, InHeader, OnTrack
<1> QED
  BY <1>1, <1>5, <1>6, Zenon DEF Follows

LEMMA SameFrameFollows ==
  ASSUME NEW F, NEW K, NEW B, NEW p \in Parser, NEW q, NEW t, NEW u,
         Follows(F, K, B, p, t), p.want \in FrameWant, SameFrame(p, q),
         Len(p.frames) < K => InEntry(F[Len(p.frames) + 1], q, B[Len(p.frames)], u)
  PROVE  Follows(F, K, B, q, u)
<1>1. q.frames = p.frames /\ q.left = p.left /\ q.want \in FrameWant \cup {"error"}
  BY DEF SameFrame
<1>2. q.want \notin HeaderWant \cup {"trailer", "done"}
  BY <1>1 DEF FrameWant, HeaderWant
<1>3. Matched(F, K, q.frames)
  BY <1>1 DEF Follows
<1>4. Accounted(F, q)
  BY <1>1, <1>2 DEF Follows, Accounted
<1>5. InHeader(q, u)
  BY <1>2 DEF InHeader, HeaderWant
<1>6. OnTrack(F, K, B, q, u)
  BY <1>1 DEF OnTrack
<1> QED
  BY <1>3, <1>4, <1>5, <1>6 DEF Follows

LEMMA EndedFrameFollows ==
  ASSUME NEW F \in FileSetOk, NEW K \in 0 .. Len(F), NEW B \in [0 .. Len(F) -> Nat], NEW s,
         LaidOut(F, s, B, Len(F)),
         NEW p \in Parser, NEW q, NEW r \in Parser, NEW t \in Nat, NEW u \in Nat,
         Follows(F, K, B, p, t), p.want \in FrameWant, EndsFrame(p, q, r),
         Len(p.frames) < K => EndsEntry(F[Len(p.frames) + 1], p, q, r, B[Len(p.frames)], u)
  PROVE  Follows(F, K, B, q, u)
<1>1. PICK N \in Nat : N = Len(F)
  BY DEF FileSetOk
<1>2. p \in ParserRecord /\ r \in ParserRecord /\ p.left # 0 /\ p.left \in Nat
      /\ p.frames \in Seq(Frame) /\ K \in Nat /\ K <= N
  BY <1>1, ParserFields DEF Parser
<1>3. PICK n \in Nat : n = Len(p.frames)
  BY <1>2
<1>4. n + p.left = N /\ Matched(F, K, p.frames)
  BY <1>1, <1>3 DEF Follows, Accounted
<1>5. r.frames = p.frames /\ r.left = p.left /\ q = FrameDone(r)
  BY DEF EndsFrame
<1>6. PICK f : f = [path |-> r.path, bytes |-> r.part]
  OBVIOUS
<1>7. f \in Frame
  BY <1>2, <1>6 DEF ParserRecord, Frame
<1>8. /\ q \in Parser /\ q.left = p.left - 1 /\ q.part = <<>>
      /\ q.frames = Append(p.frames, f)
      /\ q.left = 0 => q.want = "trailer"
      /\ q.left # 0 => q.want = "pathlen"
  BY <1>2, <1>5, <1>6, FrameDoneIs
<1>9. PICK fs : fs = q.frames
  OBVIOUS
<1>10. /\ Len(fs) = n + 1 /\ fs[n + 1] = f
       /\ \A i \in 1 .. n : fs[i] = p.frames[i]
  BY <1>2, <1>3, <1>7, <1>8, <1>9, AppendProperties
<1>11. ASSUME n < K
       PROVE  /\ f = AsFrame(F[n + 1]) /\ ~Refusable(F[n + 1])
              /\ u = B[n + 1]
  <2>1. EndsEntry(F[n + 1], p, q, r, B[n], u)
    BY <1>3, <1>11
  <2>2. /\ r.path = F[n + 1].path /\ r.part = F[n + 1].bytes /\ ~Refusable(F[n + 1])
        /\ u = B[n] + 2 + Len(F[n + 1].path) + Len(F[n + 1].bytes)
    BY <2>1 DEF EndsEntry
  <2>3. f = AsFrame(F[n + 1])
    BY <1>6, <2>2 DEF AsFrame
  <2>4. n + 1 \in 1 .. Len(F) /\ (n + 1) - 1 = n
    BY <1>1, <1>2, <1>11
  <2>5. B[n + 1] = B[n] + 2 + Len(F[n + 1].path) + Len(F[n + 1].bytes)
    BY <2>4 DEF LaidOut
  <2> QED BY <2>2, <2>3, <2>5
<1>12. Matched(F, K, fs)
  <2> SUFFICES ASSUME NEW i \in 1 .. K, i <= Len(fs)
               PROVE  fs[i] = AsFrame(F[i]) /\ ~Refusable(F[i])
    BY DEF Matched
  <2>1. CASE i \in 1 .. n
    BY <1>3, <1>4, <1>10, <2>1 DEF Matched
  <2>2. CASE i = n + 1
    BY <1>2, <1>10, <1>11, <2>2
  <2> QED BY <1>10, <2>1, <2>2
<1>13. n + 1 <= N /\ q.left \in Nat /\ (n + 1) + q.left = N
  BY <1>2, <1>4, <1>8
<1>14. q.want \notin HeaderWant \cup {"done"} /\ q.want \in {"trailer", "pathlen"}
       /\ "trailer" \notin FrameWant
  BY <1>8 DEF HeaderWant, FrameWant
<1>15. Accounted(F, q)
  <2>1. q.want = "trailer" => n + 1 = N
    BY <1>8, <1>13
  <2> QED BY <1>1, <1>9, <1>10, <1>13, <1>14, <2>1 DEF Accounted
<1>16. InHeader(q, u)
  BY <1>14 DEF InHeader, HeaderWant
<1>17. OnTrack(F, K, B, q, u)
  <2> SUFFICES ASSUME q.want \in FrameWant, Len(q.frames) < K
               PROVE  InEntry(F[Len(q.frames) + 1], q, B[Len(q.frames)], u)
    BY DEF OnTrack
  <2>1. q.want = "pathlen" /\ n < K /\ Len(q.frames) = n + 1
    BY <1>2, <1>9, <1>10, <1>14
  <2>2. u = B[Len(q.frames)]
    BY <1>11, <2>1
  <2> QED BY <1>8, <2>1, <2>2 DEF InEntry
<1> QED
  BY <1>9, <1>12, <1>15, <1>16, <1>17 DEF Follows

LEMMA FollowStep ==
  ASSUME NEW F \in FileSetOk, NEW K \in 0 .. Len(F), \A i \in 1 .. K : ~Shrank(F[i]),
         NEW B \in [0 .. Len(F) -> Nat], NEW s \in Seq(Byte), LaidOut(F, s, B, Len(F)),
         NEW p \in Parser, NEW t \in Nat, t < Len(s), Follows(F, K, B, p, t),
         NEW q, q = Step(p, s[t + 1])
  PROVE  Follows(F, K, B, q, t + 1)
<1>1. PICK N \in Nat : N = Len(F)
  BY DEF FileSetOk
<1>2. PICK c \in Byte : c = s[t + 1] /\ q = Step(p, c)
  OBVIOUS
<1>3. p \in ParserRecord /\ p.want \in Want /\ Len(p.frames) \in Nat /\ t + 1 \in Nat /\ K \in Nat
  BY <1>1, ParserFields DEF Parser
<1>4. ASSUME q.want \in {"error", "version", "count", "done"}, q.frames = p.frames,
             InHeader(q, t + 1), q.want = "done" => Len(p.frames) = Len(F),
             q.want \in {"version", "count"} => Len(p.frames) = 0
      PROVE  Follows(F, K, B, q, t + 1)
  <2>1. q.want \notin FrameWant \cup {"trailer"}
    BY <1>4 DEF FrameWant
  <2>2. Matched(F, K, q.frames) /\ Len(p.frames) <= Len(F)
    BY <1>4 DEF Follows, Accounted
  <2>3. Accounted(F, q)
    BY <1>4, <2>1, <2>2 DEF Accounted, HeaderWant
  <2>4. OnTrack(F, K, B, q, t + 1)
    BY <2>1 DEF OnTrack
  <2> QED BY <1>4, <2>2, <2>3, <2>4 DEF Follows
<1>5. CASE p.want \in {"magic", "version", "trailer"}
  <2>1. /\ q.frames = p.frames
        /\ \/ q.want = "error"
           \/ p.want = "magic" /\ q.want = "version"
           \/ p.want = "version" /\ q.want = "count"
           \/ p.want = "trailer" /\ q.want = "done"
    BY <1>2, <1>5, HeaderStep
  <2>2. /\ p.want = "trailer" => Len(p.frames) = Len(F)
        /\ p.want \in HeaderWant => Len(p.frames) = 0
        /\ p.want = "magic" => t = 0
        /\ p.want = "version" => t = 1
    BY DEF Follows, Accounted, InHeader
  <2>3. InHeader(q, t + 1)
    BY <2>1, <2>2 DEF InHeader
  <2> QED BY <1>4, <2>1, <2>2, <2>3 DEF HeaderWant
<1>6. CASE p.want = "count"
  <2>1. /\ q.frames = p.frames
        /\ \/ q.want = "error"
           \/ /\ q.left = c /\ q.part = <<>>
              /\ c = 0 => q.want = "trailer"
              /\ c # 0 => q.want = "pathlen"
    BY <1>2, <1>6, CountStep
  <2>2. t = 2 /\ Len(p.frames) = 0
    BY <1>6 DEF Follows, Accounted, InHeader, HeaderWant
  <2>3. c = N /\ B[0] = 3
    BY <1>1, <1>2, <2>2 DEF LaidOut
  <2>4. CASE q.want = "error"
    <3>1. InHeader(q, t + 1)
      BY <2>4 DEF InHeader
    <3> QED BY <1>4, <2>1, <2>4, <3>1
  <2>5. CASE q.want # "error"
    <3>1. q.left = N /\ q.part = <<>> /\ (N = 0 => q.want = "trailer") /\ (N # 0 => q.want = "pathlen")
      BY <2>1, <2>3, <2>5
    <3>2. q.want \in {"trailer", "pathlen"} /\ q.want \notin HeaderWant \cup {"done"}
          /\ "trailer" \notin FrameWant
      BY <3>1 DEF HeaderWant, FrameWant
    <3>3. Matched(F, K, q.frames)
      BY <2>1 DEF Follows
    <3>4. Accounted(F, q)
      BY <1>1, <2>1, <2>2, <3>1, <3>2 DEF Accounted
    <3>5. InHeader(q, t + 1)
      BY <3>2 DEF InHeader, HeaderWant
    <3>6. OnTrack(F, K, B, q, t + 1)
      BY <2>1, <2>2, <2>3, <3>1, <3>2 DEF OnTrack, InEntry
    <3> QED BY <3>3, <3>4, <3>5, <3>6 DEF Follows
  <2> QED BY <2>4, <2>5
<1>7. CASE p.want \in FrameWant
  <2>1. PICK n \in Nat : n = Len(p.frames)
    BY <1>3
  <2>2. CASE n < K
    <3>1. PICK e \in EntryOk : e = F[n + 1] /\ ~Shrank(e) /\ LiesAt(e, s, B[n])
      <4>1. n + 1 \in 1 .. K /\ n + 1 \in 1 .. N /\ (n + 1) - 1 = n
        BY <1>1, <2>2
      <4>2. F[n + 1] \in EntryOk
        BY <1>1, <4>1 DEF FileSetOk
      <4>3. LiesAt(F[n + 1], s, B[(n + 1) - 1])
        BY <1>1, <4>1, Zenon DEF LaidOut
      <4> QED BY <4>1, <4>2, <4>3
    <3>2. PICK b \in Nat : b = B[n]
      <4>1. n \in 0 .. Len(F)
        BY <1>1, <2>2
      <4> QED BY <4>1
    <3>3. InEntry(e, p, b, t)
      BY <1>7, <2>1, <2>2, <3>1, <3>2 DEF Follows, OnTrack
    <3>4. \/ SameFrame(p, q) /\ InEntry(e, q, b, t + 1)
          \/ \E r \in Parser : EndsEntry(e, p, q, r, b, t + 1)
      <4>1. LiesAt(e, s, b)
        BY <3>1, <3>2
      <4> QED BY <1>7, <3>1, <3>3, <4>1, EntryStep
    <3>5. CASE SameFrame(p, q) /\ InEntry(e, q, b, t + 1)
      BY <1>7, <2>1, <3>1, <3>2, <3>5, SameFrameFollows, Zenon
    <3>6. CASE \E r \in Parser : EndsEntry(e, p, q, r, b, t + 1)
      <4>1. PICK r \in Parser : EndsEntry(e, p, q, r, b, t + 1)
        BY <3>6
      <4>2. EndsFrame(p, q, r)
        BY <4>1 DEF EndsEntry
      <4>3. EndsEntry(F[Len(p.frames) + 1], p, q, r, B[Len(p.frames)], t + 1)
        BY <2>1, <3>1, <3>2, <4>1
      <4> QED BY <1>3, <1>7, <4>2, <4>3, EndedFrameFollows
    <3> QED BY <3>4, <3>5, <3>6
  <2>3. CASE ~(n < K)
    <3>0. ~(Len(p.frames) < K)
      BY <2>1, <2>3
    <3>1. SameFrame(p, q) \/ \E r \in Parser : EndsFrame(p, q, r)
      BY <1>2, <1>7, FrameStepShape
    <3>2. CASE SameFrame(p, q)
      BY <1>7, <3>0, <3>2, SameFrameFollows
    <3>3. CASE \E r \in Parser : EndsFrame(p, q, r)
      BY <1>3, <1>7, <3>0, <3>3, EndedFrameFollows
    <3> QED BY <3>1, <3>2, <3>3
  <2> QED BY <2>2, <2>3
<1>8. CASE p.want \in {"done", "error"}
  <2>1. q = p
    BY <1>2, <1>8, RestStep
  <2>2. p.want \notin FrameWant /\ p.want \notin HeaderWant
    BY <1>8 DEF FrameWant, HeaderWant
  <2>3. InHeader(p, t + 1) /\ OnTrack(F, K, B, p, t + 1)
    BY <2>2 DEF InHeader, OnTrack, HeaderWant
  <2> QED BY <2>1, <2>3 DEF Follows
<1> QED
  BY <1>3, <1>5, <1>6, <1>7, <1>8 DEF Want, HeaderWant

\* Parsing the next k bytes of the stream.
LEMMA ParseFollows ==
  ASSUME NEW F \in FileSetOk, NEW K \in 0 .. Len(F), \A i \in 1 .. K : ~Shrank(F[i]),
         NEW B \in [0 .. Len(F) -> Nat], NEW s \in Seq(Byte), LaidOut(F, s, B, Len(F)),
         NEW p \in Parser, NEW t \in Nat, Follows(F, K, B, p, t),
         NEW bytes \in Seq(Byte), t + Len(bytes) <= Len(s),
         \A i \in 1 .. Len(bytes) : bytes[i] = s[t + i]
  PROVE  Parse(p, bytes) \in Parser /\ Follows(F, K, B, Parse(p, bytes), t + Len(bytes))
<1>1. PICK f \in [0 .. Len(bytes) -> Parser] :
        Parses(f, p, bytes) /\ f[Len(bytes)] = Parse(p, bytes)
  BY ParseRuns
<1>2. PICK M \in Nat : M = Len(bytes)
  OBVIOUS
<1> DEFINE T == {n \in 0 .. M : Follows(F, K, B, f[n], t + n)}
<1>3. 0 \in T
  BY <1>1 DEF Parses
<1>4. ASSUME NEW n \in 1 .. M, n - 1 \in T PROVE n \in T
  <2>1. f[n - 1] \in Parser /\ Follows(F, K, B, f[n - 1], t + (n - 1))
    BY <1>2, <1>4
  <2>2. f[n] = Step(f[n - 1], bytes[n]) /\ bytes[n] = s[t + n]
    BY <1>1, <1>2 DEF Parses
  <2>3. PICK v \in Nat : v = t + (n - 1) /\ v < Len(s) /\ v + 1 = t + n
    BY <1>2
  <2>4. f[n] = Step(f[n - 1], s[v + 1])
    BY <2>2, <2>3
  <2>5. Follows(F, K, B, f[n - 1], v)
    BY <2>1, <2>3
  <2>6. Follows(F, K, B, f[n], v + 1)
    BY <2>1, <2>3, <2>4, <2>5, FollowStep
  <2> QED BY <2>3, <2>6
<1>5. M \in T
  <2>1. 0 .. M \subseteq T
    <3> HIDE DEF T
    <3> QED BY <1>3, <1>4, InductionUpTo
  <2> QED BY <2>1
<1>6. f[M] \in Parser
  BY <1>2
<1> QED
  BY <1>1, <1>2, <1>5, <1>6

-----------------------------------------------------------------------------
(* The file sets of ModeA.                                                 *)

LEMMA EntriesOk == Acceptable \cup {TooLong, TooLarge} \subseteq EntryOk
<1>0. EntryLimit \in Nat /\ 0 .. EntryLimit \subseteq Byte /\ PathLimit \in Nat
  BY LimitsAssumption DEF Byte, Top
<1>1. <<0>> \in Seq(Utf8) /\ Len(<<0>>) = 1 /\ 1 \in Byte
  BY Widths, Single DEF Byte, Top
<1>2. ASSUME NEW e \in Acceptable PROVE e \in EntryOk
  <2>1. e \in Entries /\ Len(e.bytes) <= e.size
    BY DEF Acceptable
  <2>2. PICK n \in 0 .. EntryLimit, c \in UNION {[1 .. k -> Content] : k \in 0 .. EntryLimit} :
          e = [path |-> <<0>>, size |-> n, bytes |-> c]
    BY <2>1 DEF Entries
  <2>3. PICK k \in 0 .. EntryLimit : c \in [1 .. k -> Content]
    OBVIOUS
  <2>4. c \in Seq(Byte)
    BY <1>0, <2>3, ContentAssumption
  <2>5. PICK z \in Seq(Utf8) : z = <<0>> /\ Len(z) \in Byte
    BY <1>1
  <2>6. e = [path |-> z, size |-> n, bytes |-> c] /\ n \in Byte
    BY <1>0, <2>2, <2>5
  <2> QED BY <2>1, <2>4, <2>5, <2>6 DEF EntryOk
<1>3. TooLong \in EntryOk
  <2>1. PICK z : z = [i \in 1 .. PathLimit + 1 |-> 0]
    OBVIOUS
  <2>2. z \in Seq(Utf8) /\ Len(z) = PathLimit + 1
    BY <1>0, <2>1, Widths
  <2>3. <<>> \in Seq(Byte) /\ Len(<<>>) = 0 /\ 0 \in Byte
    BY Widths
  <2>4. TooLong = [path |-> z, size |-> 0, bytes |-> <<>>]
    BY <2>1 DEF TooLong
  <2> QED BY <2>2, <2>3, <2>4, Widths DEF EntryOk
<1>4. TooLarge \in EntryOk
  <2>1. PICK c : c = [i \in 1 .. EntryLimit + 1 |-> 0]
    OBVIOUS
  <2>2. c \in Seq(Byte) /\ Len(c) = EntryLimit + 1
    BY <1>0, <2>1, Widths
  <2>3. PICK z \in Seq(Utf8) : z = <<0>> /\ Len(z) \in Byte
    BY <1>1
  <2>4. TooLarge = [path |-> z, size |-> EntryLimit + 1, bytes |-> c]
    BY <2>1, <2>3 DEF TooLarge
  <2>5. EntryLimit + 1 <= EntryLimit + 1
    BY <1>0
  <2> QED BY <2>2, <2>3, <2>4, <2>5, Widths DEF EntryOk
<1> QED
  BY <1>2, <1>3, <1>4

LEMMA FileSetsOk == FileSet \subseteq FileSetOk
<1> DEFINE E == Acceptable \cup {TooLong, TooLarge}
<1>1. E \subseteq EntryOk
  BY EntriesOk
<1>2. ASSUME NEW F \in FileSet PROVE F \in FileSetOk
  <2>1. PICK n \in 0 .. MaxFiles : F \in [1 .. n -> E]
    BY DEF FileSet
  <2> HIDE DEF E
  <2>2. n \in Nat /\ n <= CountLimit /\ n \in Byte
    BY MaxFilesAssumption, LimitsAssumption DEF Byte, Top
  <2>3. F \in [1 .. n -> EntryOk]
    BY <1>1, <2>1
  <2>4. F \in Seq(EntryOk) /\ Len(F) = n
    BY <2>2, <2>3
  <2> QED BY <2>2, <2>4 DEF FileSetOk
<1> QED
  BY <1>2

LEMMA SoundIs ==
  ASSUME fileset \in FileSetOk
  PROVE  Sound \in 0 .. Len(fileset) /\ \A i \in 1 .. Sound : ~Shrank(fileset[i])
<1>1. PICK N \in Nat : N = Len(fileset) /\ DOMAIN fileset = 1 .. N
  BY DEF FileSetOk
<1>2. CASE ~ \E i \in DOMAIN fileset : Shrank(fileset[i])
  <2>1. Sound = N
    BY <1>1, <1>2 DEF Sound
  <2> QED BY <1>1, <1>2, <2>1
<1>3. CASE \E i \in DOMAIN fileset : Shrank(fileset[i])
  <2> DEFINE First(i) == Shrank(fileset[i]) /\ \A j \in 1 .. i - 1 : ~Shrank(fileset[j])
             T == {i \in 1 .. N : Shrank(fileset[i])}
  <2>1. PICK n \in T : \A m \in T : n <= m
    <3>1. T \in SUBSET Nat /\ T # {}
      BY <1>1, <1>3
    <3> HIDE DEF T
    <3> QED BY <3>1, LeastNat
  <2>2. n \in DOMAIN fileset /\ First(n)
    BY <1>1, <2>1
  <2>3. PICK c : c = CHOOSE i \in DOMAIN fileset : First(i)
    OBVIOUS
  <2>4. c \in DOMAIN fileset /\ First(c)
    <3> HIDE DEF First
    <3> QED BY <2>2, <2>3
  <2>5. Sound = c - 1
    BY <1>3, <2>3 DEF Sound
  <2> QED BY <1>1, <2>4, <2>5
<1> QED
  BY <1>2, <1>3

-----------------------------------------------------------------------------
(* The stream on its way: of the n bytes that were sent, c is still in the *)
(* pipe, and p is what the parser made of the rest.                        *)

StreamAt(F, K, c, n, p) ==
  /\ c \in Seq(Byte) /\ p \in Parser
  /\ n \in 0 .. Len(Stream(F)) /\ Len(c) <= n
  /\ \A i \in 1 .. Len(c) : c[i] = Stream(F)[n - Len(c) + i]
  /\ \E B \in [0 .. Len(F) -> Nat] :
       LaidOut(F, Stream(F), B, Len(F)) /\ Follows(F, K, B, p, n - Len(c))

LEMMA Taken ==
  ASSUME NEW E, NEW c \in Seq(E), NEW k \in 1 .. Len(c), NEW d, d = SubSeq(c, k + 1, Len(c))
  PROVE  /\ d \in Seq(E) /\ Len(d) = Len(c) - k
         /\ \A i \in 1 .. Len(d) : d[i] = c[k + i]
<1>1. k + 1 \in 1 .. Len(c) + 1 /\ Len(c) \in (k + 1) - 1 .. Len(c)
  OBVIOUS
<1>2. /\ d \in Seq(E) /\ Len(d) = Len(c) - (k + 1) + 1
      /\ \A i \in 1 .. Len(c) - (k + 1) + 1 : d[i] = c[(k + 1) + i - 1]
  BY <1>1, SubSeqProperties
<1>3. Len(d) = Len(c) - k
  BY <1>2
<1>4. \A i \in 1 .. Len(d) : d[i] = c[k + i]
  <2> TAKE i \in 1 .. Len(d)
  <2>1. d[i] = c[(k + 1) + i - 1]
    BY <1>2
  <2>2. (k + 1) + i - 1 = k + i
    BY <1>2
  <2> QED BY <2>1, <2>2
<1> QED
  BY <1>2, <1>3, <1>4

LEMMA StreamBegins ==
  ASSUME NEW F \in FileSetOk, NEW K \in Nat
  PROVE  StreamAt(F, K, <<>>, 0, Start)
<1>1. PICK s \in Seq(Byte) : s = Stream(F)
  BY StreamLaidOut
<1>2. PICK B \in [0 .. Len(F) -> Nat] : LaidOut(F, s, B, Len(F))
  BY <1>1, StreamLaidOut
<1>3. Follows(F, K, B, Start, 0)
  <2>1. Len(F) \in Nat
    BY DEF FileSetOk
  <2> QED BY <2>1, FollowsFromStart
<1>4. PICK c \in Seq(Byte) : c = <<>>
  OBVIOUS
<1>5. Len(c) = 0 /\ 0 \in 0 .. Len(s)
  BY <1>4
<1>6. 0 - Len(c) = 0
  BY <1>5
<1>7. Follows(F, K, B, Start, 0 - Len(c))
  BY <1>3, <1>6
<1>8. StreamAt(F, K, c, 0, Start)
  BY <1>1, <1>2, <1>5, <1>7, StartTyped DEF StreamAt
<1> QED
  BY <1>4, <1>8

LEMMA StreamWritten ==
  ASSUME NEW F \in FileSetOk, NEW K, NEW c, NEW n, NEW p, StreamAt(F, K, c, n, p),
         n < Len(Stream(F)), NEW d, d = Append(c, Stream(F)[n + 1])
  PROVE  StreamAt(F, K, d, n + 1, p)
<1>1. PICK s \in Seq(Byte) : s = Stream(F)
  BY StreamLaidOut
<1>2. PICK m \in Nat : m = Len(c)
  BY DEF StreamAt
<1>3. PICK N \in Nat : N = Len(s)
  OBVIOUS
<1>4. /\ c \in Seq(Byte) /\ p \in Parser /\ n \in 0 .. N /\ n \in Nat /\ m <= n /\ n < N
      /\ \A i \in 1 .. m : c[i] = s[n - m + i]
  BY <1>1, <1>2, <1>3 DEF StreamAt
<1>5. PICK x \in Byte : x = s[n + 1]
  BY <1>3, <1>4
<1>6. /\ d \in Seq(Byte) /\ Len(d) = m + 1 /\ d[m + 1] = x
      /\ \A i \in 1 .. m : d[i] = c[i]
  <2>1. d = Append(c, x)
    BY <1>1, <1>5
  <2> QED BY <1>2, <1>4, <2>1, AppendProperties
<1>7. n + 1 \in 0 .. N /\ m + 1 <= n + 1 /\ (n + 1) - (m + 1) = n - m
  BY <1>4
<1>8. \A i \in 1 .. m + 1 : d[i] = s[(n + 1) - (m + 1) + i]
  <2> TAKE i \in 1 .. m + 1
  <2>1. CASE i \in 1 .. m
    BY <1>4, <1>6, <1>7, <2>1
  <2>2. CASE i = m + 1
    <3>1. n - m + i = n + 1
      BY <1>4, <2>2
    <3> QED BY <1>5, <1>6, <1>7, <2>2, <3>1
  <2>3. i \in 1 .. m \/ i = m + 1
    OBVIOUS
  <2> QED BY <2>1, <2>2, <2>3
<1>9. PICK B \in [0 .. Len(F) -> Nat] :
        LaidOut(F, Stream(F), B, Len(F)) /\ Follows(F, K, B, p, n - Len(c))
  BY DEF StreamAt
<1>10. Follows(F, K, B, p, (n + 1) - Len(d))
  BY <1>2, <1>6, <1>7, <1>9
<1> QED
  BY <1>1, <1>3, <1>4, <1>6, <1>7, <1>8, <1>9, <1>10 DEF StreamAt

LEMMA StreamRead ==
  ASSUME NEW F \in FileSetOk, NEW K \in 0 .. Len(F), \A i \in 1 .. K : ~Shrank(F[i]),
         NEW c, NEW n, NEW p, StreamAt(F, K, c, n, p), NEW k \in 1 .. Len(c),
         NEW u, u = SubSeq(c, 1, k), NEW d, d = SubSeq(c, k + 1, Len(c))
  PROVE  StreamAt(F, K, d, n, Parse(p, u))
<1>1. PICK s \in Seq(Byte) : s = Stream(F)
  BY StreamLaidOut
<1>2. PICK m \in Nat : m = Len(c)
  BY DEF StreamAt
<1>3. PICK N \in Nat : N = Len(s)
  OBVIOUS
<1>4. /\ c \in Seq(Byte) /\ p \in Parser /\ n \in 0 .. N /\ n \in Nat /\ m <= n
      /\ \A i \in 1 .. m : c[i] = s[n - m + i]
  BY <1>1, <1>2, <1>3 DEF StreamAt
<1>5. k \in Nat /\ k <= m /\ k >= 1
  BY <1>2
<1>6. u \in Seq(Byte) /\ Len(u) = k /\ \A i \in 1 .. k : u[i] = c[i]
  BY <1>2, <1>4, <1>5
<1>7. d \in Seq(Byte) /\ Len(d) = m - k /\ \A i \in 1 .. m - k : d[i] = c[k + i]
  <2>1. d \in Seq(Byte) /\ Len(d) = Len(c) - k /\ \A i \in 1 .. Len(d) : d[i] = c[k + i]
    <3>1. c \in Seq(Byte)
      BY <1>4
    <3> QED BY <3>1, Taken
  <2> QED BY <1>2, <2>1
<1>8. PICK t \in Nat : t = n - m
  BY <1>4
<1>9. PICK B \in [0 .. Len(F) -> Nat] :
        LaidOut(F, Stream(F), B, Len(F)) /\ Follows(F, K, B, p, n - Len(c))
  BY DEF StreamAt
<1>10. Follows(F, K, B, p, t) /\ LaidOut(F, s, B, Len(F))
  BY <1>1, <1>2, <1>8, <1>9
<1>11. \A i \in 1 .. Len(u) : u[i] = s[t + i]
  <2> TAKE i \in 1 .. Len(u)
  <2>1. u[i] = c[i] /\ i \in 1 .. m
    BY <1>5, <1>6
  <2> QED BY <1>4, <1>8, <2>1
<1>12. t + Len(u) <= Len(s)
  BY <1>3, <1>4, <1>5, <1>6, <1>8
<1>13. Parse(p, u) \in Parser /\ Follows(F, K, B, Parse(p, u), t + Len(u))
  BY <1>4, <1>6, <1>10, <1>11, <1>12, ParseFollows
<1>14. t + Len(u) = n - Len(d) /\ Len(d) <= n
  <2>1. (n - m) + k = n - (m - k) /\ m - k <= n
    BY <1>4, <1>5
  <2> QED BY <1>6, <1>7, <1>8, <2>1, Zenon
<1>15. \A i \in 1 .. Len(d) : d[i] = s[n - Len(d) + i]
  <2> TAKE i \in 1 .. Len(d)
  <2>1. d[i] = c[k + i] /\ k + i \in 1 .. m
    BY <1>5, <1>7
  <2>2. c[k + i] = s[n - m + (k + i)]
    BY <1>4, <2>1
  <2>3. n - m + (k + i) = n - Len(d) + i
    <3>1. i \in Nat /\ n - m + (k + i) = n - (m - k) + i
      BY <1>4, <1>5, <1>7
    <3> QED BY <1>7, <3>1, Zenon
  <2> QED BY <2>1, <2>2, <2>3
<1>16. Follows(F, K, B, Parse(p, u), n - Len(d))
  BY <1>13, <1>14
<1> QED
  BY <1>1, <1>3, <1>4, <1>7, <1>9, <1>13, <1>14, <1>15, <1>16 DEF StreamAt

-----------------------------------------------------------------------------
(* The report on its way: of the g units that were given of U, the host    *)
(* has r, and b is still in the pipe.                                      *)

Units == {Input(f) : f \in Frame} \cup {Close}

ReportAt(U, r, b, g) ==
  /\ r \in Seq(Units) /\ b \in Seq(Units)
  /\ g \in 0 .. Len(U) /\ Len(r) + Len(b) = g
  /\ \A i \in 1 .. Len(r) : r[i] = U[i]
  /\ \A i \in 1 .. Len(b) : b[i] = U[Len(r) + i]

LEMMA ReportNothing ==
  ASSUME NEW U \in Seq(Units), NEW r, NEW b, r = <<>>, b = <<>>
  PROVE  ReportAt(U, r, b, 0)
<1>1. r \in Seq(Units) /\ b \in Seq(Units) /\ Len(r) = 0 /\ Len(b) = 0
  OBVIOUS
<1>2. 0 \in 0 .. Len(U)
  OBVIOUS
<1> QED
  BY <1>1, <1>2 DEF ReportAt

LEMMA ReportNothingYet ==
  ASSUME NEW U, NEW V \in Seq(Units), NEW r, NEW b, ReportAt(U, r, b, 0)
  PROVE  ReportAt(V, r, b, 0)
<1>1. r \in Seq(Units) /\ b \in Seq(Units) /\ Len(r) + Len(b) = 0
  BY DEF ReportAt
<1>2. Len(r) = 0 /\ Len(b) = 0
  BY <1>1
<1>3. 0 \in 0 .. Len(V)
  OBVIOUS
<1> QED
  BY <1>1, <1>2, <1>3 DEF ReportAt

LEMMA ReportGiven ==
  ASSUME NEW U \in Seq(Units), NEW r, NEW b, NEW g, ReportAt(U, r, b, g), g < Len(U),
         NEW c, c = Append(b, U[g + 1])
  PROVE  ReportAt(U, r, c, g + 1)
<1>1. PICK N \in Nat : N = Len(U)
  OBVIOUS
<1>2. r \in Seq(Units) /\ b \in Seq(Units)
  BY DEF ReportAt
<1>3. PICK m \in Nat : m = Len(b)
  BY <1>2
<1>4. PICK l \in Nat : l = Len(r)
  BY <1>2
<1>5. g \in 0 .. N /\ l + m = g /\ \A i \in 1 .. m : b[i] = U[l + i]
  BY <1>1, <1>3, <1>4 DEF ReportAt
<1>6. PICK x \in Units : x = U[g + 1]
  BY <1>1, <1>5
<1>7. /\ c \in Seq(Units) /\ Len(c) = m + 1 /\ c[m + 1] = x
      /\ \A i \in 1 .. m : c[i] = b[i]
  <2>1. c = Append(b, x)
    BY <1>6
  <2> QED BY <1>2, <1>3, <2>1, AppendProperties
<1>8. \A i \in 1 .. m + 1 : c[i] = U[l + i]
  <2> TAKE i \in 1 .. m + 1
  <2>1. CASE i \in 1 .. m
    BY <1>5, <1>7, <2>1
  <2>2. CASE i = m + 1
    <3>1. l + i = g + 1
      BY <1>5, <2>2
    <3> QED BY <1>6, <1>7, <2>2, <3>1
  <2>3. i \in 1 .. m \/ i = m + 1
    OBVIOUS
  <2> QED BY <2>1, <2>2, <2>3
<1>9. g + 1 \in 0 .. N /\ l + (m + 1) = g + 1
  BY <1>1, <1>5
<1>10. \A i \in 1 .. l : r[i] = U[i]
  BY <1>4 DEF ReportAt
<1> QED
  BY <1>1, <1>2, <1>4, <1>7, <1>8, <1>9, <1>10 DEF ReportAt

LEMMA ReportTaken ==
  ASSUME NEW U \in Seq(Units), NEW r, NEW b, NEW g, ReportAt(U, r, b, g), b # <<>>,
         NEW q, q = Append(r, Head(b)), NEW c, c = Tail(b)
  PROVE  ReportAt(U, q, c, g) /\ Len(c) <= Len(b)
<1>1. PICK N \in Nat : N = Len(U)
  OBVIOUS
<1>2. r \in Seq(Units) /\ b \in Seq(Units)
  BY DEF ReportAt
<1>3. PICK m \in Nat : m = Len(b)
  BY <1>2
<1>4. PICK l \in Nat : l = Len(r)
  BY <1>2
<1>5. /\ g \in 0 .. N /\ l + m = g /\ \A i \in 1 .. m : b[i] = U[l + i]
      /\ \A i \in 1 .. l : r[i] = U[i]
  BY <1>1, <1>3, <1>4 DEF ReportAt
<1>6. m # 0
  BY <1>2, <1>3, EmptySeq
<1>7. PICK x \in Units : x = Head(b) /\ x = b[1]
  BY <1>2, <1>3, <1>6, HeadTailProperties
<1>8. /\ q \in Seq(Units) /\ Len(q) = l + 1 /\ q[l + 1] = x
      /\ \A i \in 1 .. l : q[i] = r[i]
  <2>1. q = Append(r, x)
    BY <1>7
  <2> QED BY <1>2, <1>4, <2>1, AppendProperties
<1>9. c \in Seq(Units) /\ Len(c) = m - 1 /\ \A i \in 1 .. m - 1 : c[i] = b[i + 1]
  BY <1>2, <1>3, <1>6, HeadTailProperties
<1>10. x = U[l + 1]
  <2>1. 1 \in 1 .. m
    BY <1>6
  <2> QED BY <1>5, <1>7, <2>1
<1>11. \A i \in 1 .. l + 1 : q[i] = U[i]
  <2> TAKE i \in 1 .. l + 1
  <2>1. i \in 1 .. l \/ i = l + 1
    OBVIOUS
  <2> QED BY <1>5, <1>8, <1>10, <2>1
<1>12. \A i \in 1 .. m - 1 : c[i] = U[(l + 1) + i]
  <2> TAKE i \in 1 .. m - 1
  <2>1. i + 1 \in 1 .. m /\ l + (i + 1) = (l + 1) + i
    OBVIOUS
  <2>2. b[i + 1] = U[l + (i + 1)]
    BY <1>5, <2>1
  <2> QED BY <1>9, <2>1, <2>2
<1>13. (l + 1) + (m - 1) = g /\ m - 1 <= m
  BY <1>5
<1> QED
  BY <1>1, <1>3, <1>5, <1>8, <1>9, <1>11, <1>12, <1>13 DEF ReportAt

LEMMA ReportWhole ==
  ASSUME NEW U \in Seq(Units), NEW r, NEW b, ReportAt(U, r, b, Len(U)), b = <<>>
  PROVE  r = U
<1>1. r \in Seq(Units) /\ Len(b) = 0 /\ Len(r) + Len(b) = Len(U)
      /\ \A i \in 1 .. Len(r) : r[i] = U[i]
  BY DEF ReportAt
<1>2. Len(r) = Len(U)
  BY <1>1
<1> QED
  BY <1>1, <1>2, SeqEqual

UnitsOf(p) == [i \in 1 .. Len(p.frames) + 1 |->
                 IF i <= Len(p.frames) THEN Input(p.frames[i]) ELSE Close]

LEMMA UnitsAre ==
  ASSUME NEW p \in Parser
  PROVE  /\ UnitsOf(p) \in Seq(Units) /\ Len(UnitsOf(p)) = Len(p.frames) + 1
         /\ \A i \in 1 .. Len(p.frames) : UnitsOf(p)[i] = Input(p.frames[i])
<1>1. p.frames \in Seq(Frame)
  BY ParserFields DEF Parser
<1>2. PICK n \in Nat : n = Len(p.frames)
  BY <1>1
<1>3. \A i \in 1 .. n : p.frames[i] \in Frame
  BY <1>1, <1>2
<1>4. PICK U : U = UnitsOf(p)
  OBVIOUS
<1>5. U = [i \in 1 .. n + 1 |-> IF i <= n THEN Input(p.frames[i]) ELSE Close]
  BY <1>2, <1>4 DEF UnitsOf
<1>6. U \in [1 .. n + 1 -> Units] /\ \A i \in 1 .. n : U[i] = Input(p.frames[i])
  BY <1>3, <1>5 DEF Units
<1>7. U \in Seq(Units) /\ Len(U) = n + 1
  BY <1>6
<1> QED
  BY <1>2, <1>4, <1>6, <1>7

LEMMA ReportUnitsAre ==
  ASSUME parse \in Parser
  PROVE  /\ ReportUnits \in Seq(Units) /\ Len(ReportUnits) = Len(parse.frames) + 1
         /\ \A i \in 1 .. Len(parse.frames) : ReportUnits[i] = Input(parse.frames[i])
<1>1. ReportUnits = UnitsOf(parse)
  BY DEF ReportUnits, UnitsOf
<1> QED
  BY <1>1, UnitsAre

-----------------------------------------------------------------------------
(* The run: where the two processes are, what the pipes carry between them *)
(* and what came of it.                                                    *)

PipesTyped ==
  /\ buf \in [Pipe -> Seq(Byte) \cup Seq(Units)]
  /\ \A p \in Pipe : Len(buf[p]) <= PipeCap

Places ==
  /\ host \in {"pipe1", "pipe2", "spawn", "write", "read", "wait", "done"}
  /\ result \in {"none", "ok", "err"}
  /\ reader \in {"unborn", "reading", "writing", "ok", "failed"}
  /\ hit \subseteq Faults
  /\ host \in {"write", "read", "wait"} => reader # "unborn"

Progress ==
  /\ reader \in {"unborn", "reading"} => gave = 0
  /\ reader \in {"writing", "ok"} => parse.want = "done"
  /\ reader = "ok" => gave = Len(ReportUnits)

Endings ==
  /\ host = "wait" => buf["report"] = <<>> /\ reader \in {"ok", "failed"}
  /\ result # "none" => host = "done"
  /\ result = "ok" => reader = "ok" /\ buf["report"] = <<>>

StreamInv == StreamAt(fileset, Sound, buf["stdin"], sent, parse)
ReportInv == ReportAt(ReportUnits, report, buf["report"], gave)

FlowInv ==
  fileset \in FileSet /\ PipesTyped /\ Places /\ Progress /\ Endings /\ StreamInv /\ ReportInv

LEMMA FlowInit == Init => FlowInv
<1> SUFFICES ASSUME Init PROVE FlowInv
  OBVIOUS
<1>1. /\ fileset \in FileSet /\ buf = [p \in Pipe |-> <<>>] /\ host = "pipe1" /\ result = "none"
      /\ sent = 0 /\ report = <<>> /\ reader = "unborn" /\ parse = Start /\ gave = 0 /\ hit = {}
  BY DEF Init
<1>2. buf["stdin"] = <<>> /\ buf["report"] = <<>>
  BY <1>1 DEF Pipe
<1>3. PipesTyped
  <2>1. <<>> \in Seq(Byte) /\ Len(<<>>) = 0
    OBVIOUS
  <2> QED BY <1>1, <2>1, PipeCapAssumption DEF PipesTyped
<1>4. Places /\ Progress /\ Endings
  BY <1>1 DEF Places, Progress, Endings
<1>5. fileset \in FileSetOk
  BY <1>1, FileSetsOk
<1>6. StreamInv
  <2>1. Len(fileset) \in Nat
    BY <1>5 DEF FileSetOk
  <2>2. Sound \in Nat
    BY <1>5, <2>1, SoundIs
  <2>3. StreamAt(fileset, Sound, <<>>, 0, Start)
    BY <1>5, <2>2, StreamBegins
  <2> QED BY <1>1, <1>2, <2>3 DEF StreamInv
<1>7. ReportInv
  <2>1. ReportUnits \in Seq(Units)
    BY <1>1, StartTyped, ReportUnitsAre
  <2>2. ReportAt(ReportUnits, report, buf["report"], 0)
    BY <1>1, <1>2, <2>1, ReportNothing
  <2> QED BY <1>1, <2>2 DEF ReportInv
<1> QED
  BY <1>1, <1>3, <1>4, <1>6, <1>7 DEF FlowInv

\* A step that leaves the stream alone, and one that leaves the report alone.
LEMMA StreamStays ==
  ASSUME StreamInv, fileset' = fileset, buf'["stdin"] = buf["stdin"], sent' = sent, parse' = parse
  PROVE  StreamInv'
<1>1. Sound' = Sound
  BY DEF Sound
<1> QED
  BY <1>1, Zenon DEF StreamInv

LEMMA ReportStays ==
  ASSUME ReportInv, parse' = parse, report' = report, buf'["report"] = buf["report"], gave' = gave
  PROVE  ReportInv' /\ ReportUnits' = ReportUnits
<1>1. ReportUnits' = ReportUnits
  BY DEF ReportUnits
<1> QED
  BY <1>1, Zenon DEF ReportInv

\* One that moves nothing.
LEMMA NothingMoves ==
  ASSUME FlowInv, fileset' = fileset, buf' = buf, sent' = sent, parse' = parse,
         report' = report, gave' = gave, Places', Endings',
         \/ reader' = reader
         \/ reader' = "failed"
         \/ reader = "unborn" /\ reader' = "reading"
         \/ reader = "writing" /\ reader' = "ok" /\ gave = Len(ReportUnits)
  PROVE  FlowInv'
<1>1. StreamInv'
  BY StreamStays DEF FlowInv
<1>2. ReportInv' /\ ReportUnits' = ReportUnits
  BY ReportStays DEF FlowInv
<1>3. Progress'
  BY <1>2 DEF FlowInv, Progress
<1>4. PipesTyped'
  BY DEF FlowInv, PipesTyped
<1> QED
  BY <1>1, <1>2, <1>3, <1>4 DEF FlowInv

LEMMA HostMovesNothing ==
  ASSUME FlowInv, TableInv,
         \/ CreatePipe("pipe1", "stdin", "pipe2") \/ CreatePipe("pipe2", "report", "spawn")
         \/ PipeFails \/ Spawn \/ SpawnFails \/ WriteFails \/ DropStdin \/ Wait
  PROVE  FlowInv'
<1>0. Places /\ Endings /\ Born /\ "done" # "wait"
  BY DEF FlowInv, TableInv
<1>1. CASE CreatePipe("pipe1", "stdin", "pipe2") \/ CreatePipe("pipe2", "report", "spawn")
  <2>1. Places' /\ Endings'
    BY <1>0, <1>1 DEF CreatePipe, Places, Endings
  <2> QED BY <1>1, <2>1, NothingMoves DEF CreatePipe
<1>2. CASE PipeFails \/ SpawnFails \/ WriteFails
  <2>1. Places' /\ Endings'
    BY <1>0, <1>2 DEF PipeFails, SpawnFails, WriteFails, Return, Places, Endings
  <2> QED BY <1>2, <2>1, NothingMoves DEF PipeFails, SpawnFails, WriteFails
<1>3. CASE Spawn
  <2>1. reader = "unborn" /\ reader' = "reading"
    BY <1>0, <1>3 DEF Spawn, Born
  <2>2. Places' /\ Endings'
    BY <1>0, <1>3, <2>1 DEF Spawn, Places, Endings
  <2> QED BY <1>3, <2>1, <2>2, NothingMoves DEF Spawn
<1>4. CASE DropStdin
  <2>1. Places' /\ Endings'
    BY <1>0, <1>4 DEF DropStdin, Places, Endings
  <2> QED BY <1>4, <2>1, NothingMoves DEF DropStdin
<1>5. CASE Wait
  <2>1. Verdict \in {"ok", "err"} /\ (Verdict = "ok" => reader = "ok")
    BY DEF Verdict
  <2>2. host = "wait" /\ host' = "done" /\ result' = Verdict /\ buf' = buf /\ reader' = reader
        /\ hit' = hit
    BY <1>5 DEF Wait, Return
  <2>3. Places' /\ Endings'
    BY <1>0, <2>1, <2>2 DEF Places, Endings
  <2> QED BY <1>5, <2>3, NothingMoves DEF Wait
<1> QED
  BY <1>1, <1>2, <1>3, <1>4, <1>5

\* End-of-file on the report means that no reader holds it any more.
LEMMA StopReadingKeeps == ASSUME FlowInv, TableInv, StopReading PROVE FlowInv'
<1>0. Places /\ Endings /\ TableTyped /\ RolesCorrect
  BY DEF FlowInv, TableInv
<1>1. /\ host = "read" /\ host' = "wait" /\ buf["report"] = <<>>
      /\ ~Held(fd, WriteEnd("report"))
  BY DEF StopReading, AtEof, ReadEnd
<1>2. reader \notin {"reading", "writing"}
  <2> SUFFICES ASSUME reader \in {"reading", "writing"} PROVE FALSE
    OBVIOUS
  <2>1. fd["reader"][5] = WriteEnd("report")
    BY <1>0 DEF RolesCorrect, Out
  <2>2. "reader" \in DOMAIN fd /\ 5 \in Fd
    BY <1>0, MaxFdAssumption DEF TableTyped, Proc, Fd
  <2> QED BY <1>1, <2>1, <2>2 DEF Held
<1>3. UNCHANGED <<fileset, fd, buf, result, sent, report, reader, parse, gave, hit>>
  BY DEF StopReading
<1>4. Places' /\ Endings'
  BY <1>0, <1>1, <1>2, <1>3 DEF Places, Endings
<1> QED
  BY <1>3, <1>4, NothingMoves

LEMMA WriteByteKeeps == ASSUME FlowInv, WriteByte PROVE FlowInv'
<1>0. fileset \in FileSetOk /\ PipesTyped /\ StreamInv /\ ReportInv
  BY FileSetsOk DEF FlowInv
<1>1. PICK d : d = Append(buf["stdin"], Stream(fileset)[sent + 1])
  OBVIOUS
<1>2. /\ host = "write" /\ sent < Len(Stream(fileset)) /\ Len(buf["stdin"]) < PipeCap
      /\ buf' = [buf EXCEPT !["stdin"] = d] /\ sent' = sent + 1
      /\ UNCHANGED <<fileset, fd, host, result, report, reader, parse, gave, hit>>
  BY <1>1 DEF WriteByte, HasRoom, Put, WriteEnd
<1>3. StreamAt(fileset, Sound, d, sent + 1, parse)
  BY <1>0, <1>1, <1>2, StreamWritten DEF StreamInv
<1>4. d \in Seq(Byte) /\ Len(d) <= PipeCap
  <2>1. d \in Seq(Byte) /\ buf["stdin"] \in Seq(Byte)
    BY <1>0, <1>3 DEF StreamAt, StreamInv
  <2>2. PICK s \in Seq(Byte) : s = Stream(fileset) /\ sent + 1 \in 1 .. Len(s)
    <3>1. sent \in 0 .. Len(Stream(fileset))
      BY <1>0 DEF StreamInv, StreamAt
    <3>2. PICK s \in Seq(Byte) : s = Stream(fileset)
      BY <1>0, StreamLaidOut
    <3> QED BY <1>2, <3>1, <3>2
  <2>3. s[sent + 1] \in Byte
    BY <2>2
  <2>4. Len(d) = Len(buf["stdin"]) + 1
    BY <1>1, <2>1, <2>2, <2>3, AppendProperties
  <2> QED BY <1>2, <2>1, <2>4, PipeCapAssumption
<1>5. buf'["stdin"] = d /\ buf'["report"] = buf["report"]
  BY <1>0, <1>2 DEF PipesTyped, Pipe
<1>6. PipesTyped'
  <2>1. buf' \in [Pipe -> Seq(Byte) \cup Seq(Units)]
    BY <1>0, <1>2, <1>4 DEF PipesTyped
  <2>2. \A p \in Pipe : Len(buf'[p]) <= PipeCap
    BY <1>0, <1>4, <1>5 DEF PipesTyped, Pipe
  <2> QED BY <2>1, <2>2 DEF PipesTyped
<1>7. StreamInv'
  <2>1. Sound' = Sound
    BY <1>2 DEF Sound
  <2> QED BY <1>2, <1>3, <1>5, <2>1, Zenon DEF StreamInv
<1>8. ReportInv' /\ ReportUnits' = ReportUnits
  BY <1>0, <1>2, <1>5, ReportStays
<1>9. Places' /\ Progress' /\ Endings'
  BY <1>2, <1>5, <1>8 DEF FlowInv, Places, Progress, Endings
<1> QED
  BY <1>2, <1>6, <1>7, <1>8, <1>9 DEF FlowInv

LEMMA ReadReportKeeps == ASSUME FlowInv, ReadReport PROVE FlowInv'
<1>0. PipesTyped /\ StreamInv /\ ReportInv /\ parse \in Parser
  BY DEF FlowInv, StreamInv, StreamAt
<1>1. PICK d : d = Tail(buf["report"])
  OBVIOUS
<1>2. /\ host = "read" /\ buf["report"] # <<>> /\ report' = Append(report, Head(buf["report"]))
      /\ buf' = [buf EXCEPT !["report"] = d]
      /\ UNCHANGED <<fileset, fd, host, result, sent, reader, parse, gave, hit>>
  BY <1>1 DEF ReadReport, Readable, Pop, ReadEnd
<1>3. ReportUnits \in Seq(Units) /\ ReportUnits' = ReportUnits
  BY <1>0, <1>2, ReportUnitsAre DEF ReportUnits
<1>4. ReportAt(ReportUnits, report', d, gave) /\ Len(d) <= Len(buf["report"])
  BY <1>0, <1>1, <1>2, <1>3, ReportTaken DEF ReportInv
<1>5. buf'["stdin"] = buf["stdin"] /\ buf'["report"] = d
  BY <1>0, <1>2 DEF PipesTyped, Pipe
<1>6. PipesTyped'
  <2>1. d \in Seq(Units) /\ buf["report"] \in Seq(Units)
    BY <1>0, <1>4 DEF ReportAt, ReportInv
  <2>2. Len(buf["report"]) <= PipeCap /\ Len(buf["stdin"]) <= PipeCap
    BY <1>0 DEF PipesTyped, Pipe
  <2>3. buf' \in [Pipe -> Seq(Byte) \cup Seq(Units)]
    BY <1>0, <1>2, <2>1 DEF PipesTyped
  <2>4. Len(d) <= PipeCap
    BY <1>4, <2>1, <2>2, PipeCapAssumption
  <2>5. \A p \in Pipe : Len(buf'[p]) <= PipeCap
    BY <1>5, <2>2, <2>4 DEF Pipe
  <2> QED BY <2>3, <2>5 DEF PipesTyped
<1>7. StreamInv'
  BY <1>0, <1>2, <1>5, StreamStays
<1>8. ReportInv'
  BY <1>2, <1>3, <1>4, <1>5, Zenon DEF ReportInv
<1>9. Places' /\ Progress' /\ Endings'
  BY <1>2, <1>3 DEF FlowInv, Places, Progress, Endings
<1> QED
  BY <1>2, <1>6, <1>7, <1>8, <1>9 DEF FlowInv

LEMMA ReaderReadsKeeps == ASSUME FlowInv, TableInv, ReaderReads PROVE FlowInv'
<1>0. fileset \in FileSetOk /\ PipesTyped /\ StreamInv /\ ReportInv /\ buf["stdin"] \in Seq(Byte)
      /\ Progress /\ parse \in Parser
  BY FileSetsOk DEF FlowInv, StreamInv, StreamAt
<1>1. reader = "reading" /\ In = ReadEnd("stdin") /\ In[1] = "stdin"
  BY DEF ReaderReads, TableInv, RolesCorrect, ReadEnd
<1>2. PICK c \in Seq(Byte) : c = buf["stdin"]
  BY <1>0
<1>3. PICK k \in 1 .. Len(c) :
        /\ parse' = Parse(parse, SubSeq(c, 1, k))
        /\ buf' = [buf EXCEPT !["stdin"] = SubSeq(c, k + 1, Len(c))]
  BY <1>1, <1>2 DEF ReaderReads
<1>4. /\ reader' \in {"failed", "writing", "reading"}
      /\ reader' = "writing" => parse'.want = "done"
      /\ UNCHANGED <<fileset, host, result, sent, report, gave, hit>>
  BY DEF ReaderReads, HostUnchanged, Exit
<1>5. PICK u : u = SubSeq(c, 1, k)
  OBVIOUS
<1>6. PICK d : d = SubSeq(c, k + 1, Len(c))
  OBVIOUS
<1>7. StreamAt(fileset, Sound, d, sent, Parse(parse, u))
  BY <1>0, <1>2, <1>5, <1>6, SoundIs, StreamRead DEF StreamInv
<1>8. parse' = Parse(parse, u) /\ buf' = [buf EXCEPT !["stdin"] = d]
  BY <1>3, <1>5, <1>6
<1>9. buf'["stdin"] = d /\ buf'["report"] = buf["report"]
  BY <1>0, <1>8 DEF PipesTyped, Pipe
<1>10. StreamInv'
  <2>1. Sound' = Sound
    BY <1>4 DEF Sound
  <2> QED BY <1>4, <1>7, <1>8, <1>9, <2>1, Zenon DEF StreamInv
<1>11. parse' \in Parser
  BY <1>10 DEF StreamInv, StreamAt
<1>12. gave = 0 /\ gave' = 0
  BY <1>0, <1>1, <1>4 DEF Progress
<1>13. ReportInv'
  <2>1. ReportUnits' \in Seq(Units)
    <3>1. ReportUnits' = UnitsOf(parse')
      BY DEF ReportUnits, UnitsOf
    <3> QED BY <1>11, <3>1, UnitsAre
  <2>2. ReportAt(ReportUnits, report, buf["report"], 0)
    BY <1>0, <1>12 DEF ReportInv
  <2>3. ReportAt(ReportUnits', report, buf["report"], 0)
    BY <2>1, <2>2, ReportNothingYet
  <2> QED BY <1>4, <1>9, <1>12, <2>3, Zenon DEF ReportInv
<1>14. PipesTyped'
  <2>1. d \in Seq(Byte) /\ Len(d) <= Len(c)
    <3>1. d \in Seq(Byte) /\ Len(d) = Len(c) - k
      BY <1>6, Taken
    <3> QED BY <3>1
  <2>2. Len(c) <= PipeCap /\ Len(buf["report"]) <= PipeCap
    BY <1>0, <1>2 DEF PipesTyped, Pipe
  <2>3. buf' \in [Pipe -> Seq(Byte) \cup Seq(Units)]
    BY <1>0, <1>8, <2>1 DEF PipesTyped
  <2>4. Len(d) <= PipeCap
    BY <2>1, <2>2, PipeCapAssumption
  <2>5. \A p \in Pipe : Len(buf'[p]) <= PipeCap
    BY <1>9, <2>2, <2>4 DEF Pipe
  <2> QED BY <2>3, <2>5 DEF PipesTyped
<1>15. Progress'
  BY <1>4, <1>12 DEF Progress
<1>16. Places' /\ Endings'
  BY <1>1, <1>4, <1>9 DEF FlowInv, Places, Endings
<1> QED
  BY <1>4, <1>10, <1>13, <1>14, <1>15, <1>16 DEF FlowInv

\* A reader that ends, one way or the other.
LEMMA ReaderEndsKeeps ==
  ASSUME FlowInv, UNCHANGED <<fileset, host, result, sent, report, buf, parse, gave>>,
         reader \in {"reading", "writing"}, hit' \subseteq Faults,
         \/ reader' = "failed"
         \/ reader = "writing" /\ reader' = "ok" /\ gave = Len(ReportUnits)
  PROVE  FlowInv'
<1>1. Places' /\ Endings'
  BY DEF FlowInv, Places, Endings
<1> QED
  BY <1>1, NothingMoves

LEMMA ReaderWritesKeeps == ASSUME FlowInv, TableInv, ReaderWrites PROVE FlowInv'
<1>0. PipesTyped /\ StreamInv /\ ReportInv /\ Progress /\ parse \in Parser /\ hit \subseteq Faults
  BY DEF FlowInv, StreamInv, StreamAt, Places
<1>1. reader = "writing" /\ Out = WriteEnd("report") /\ Out[1] = "report"
  BY DEF ReaderWrites, TableInv, RolesCorrect, WriteEnd
<1>2. CASE ~HasReader(fd, Out)
  <2>1. /\ reader' = "failed"
        /\ UNCHANGED <<fileset, host, result, sent, report, buf, parse, gave, hit>>
    BY <1>2 DEF ReaderWrites, Exit, HostUnchanged
  <2> QED BY <1>0, <1>1, <2>1, ReaderEndsKeeps
<1>3. CASE HasReader(fd, Out)
  <2>1. PICK d : d = Append(buf["report"], ReportUnits[gave + 1])
    OBVIOUS
  <2>2. /\ gave < Len(ReportUnits) /\ Len(buf["report"]) < PipeCap
        /\ buf' = [buf EXCEPT !["report"] = d] /\ gave' = gave + 1
        /\ UNCHANGED <<fileset, host, result, sent, report, parse, reader, hit>>
    BY <1>1, <1>3, <2>1 DEF ReaderWrites, HasRoom, Put, HostUnchanged
  <2>3. ReportUnits \in Seq(Units) /\ ReportUnits' = ReportUnits
    BY <1>0, <2>2, ReportUnitsAre DEF ReportUnits
  <2>4. ReportAt(ReportUnits, report, d, gave + 1)
    BY <1>0, <2>1, <2>2, <2>3, ReportGiven DEF ReportInv
  <2>5. buf'["stdin"] = buf["stdin"] /\ buf'["report"] = d
    BY <1>0, <2>2 DEF PipesTyped, Pipe
  <2>6. ReportInv'
    BY <2>2, <2>3, <2>4, <2>5, Zenon DEF ReportInv
  <2>7. StreamInv'
    BY <1>0, <2>2, <2>5, StreamStays
  <2>8. PipesTyped'
    <3>1. d \in Seq(Units) /\ buf["report"] \in Seq(Units) /\ gave \in 0 .. Len(ReportUnits)
      BY <1>0, <2>4 DEF ReportAt, ReportInv
    <3>2. ReportUnits[gave + 1] \in Units
      BY <2>2, <2>3, <3>1
    <3>3. Len(d) = Len(buf["report"]) + 1
      BY <2>1, <3>1, <3>2, AppendProperties
    <3>4. Len(d) <= PipeCap
      BY <2>2, <3>1, <3>3, PipeCapAssumption
    <3>5. Len(buf["stdin"]) <= PipeCap
      BY <1>0 DEF PipesTyped, Pipe
    <3>6. buf' \in [Pipe -> Seq(Byte) \cup Seq(Units)]
      BY <1>0, <2>2, <3>1 DEF PipesTyped
    <3>7. \A p \in Pipe : Len(buf'[p]) <= PipeCap
      BY <2>5, <3>4, <3>5 DEF Pipe
    <3> QED BY <3>6, <3>7 DEF PipesTyped
  <2>9. Places' /\ Progress' /\ Endings'
    BY <1>1, <2>2, <2>3 DEF FlowInv, Places, Progress, Endings
  <2> QED BY <2>2, <2>6, <2>7, <2>8, <2>9 DEF FlowInv
<1> QED
  BY <1>2, <1>3

LEMMA ReaderStopsKeeps ==
  ASSUME FlowInv, ReaderCutShort \/ ReaderFinishes \/ ReaderKilled
  PROVE  FlowInv'
<1>0. hit \subseteq Faults
  BY DEF FlowInv, Places
<1>1. CASE ReaderCutShort
  BY <1>0, <1>1, ReaderEndsKeeps DEF ReaderCutShort, Exit, HostUnchanged
<1>2. CASE ReaderFinishes
  BY <1>0, <1>2, ReaderEndsKeeps DEF ReaderFinishes, Exit, HostUnchanged
<1>3. CASE ReaderKilled
  <2>1. hit' \subseteq Faults
    BY <1>0, <1>3 DEF ReaderKilled
  <2> QED BY <1>3, <2>1, ReaderEndsKeeps DEF ReaderKilled, Exit, HostUnchanged
<1> QED
  BY <1>1, <1>2, <1>3

\* What the pipes carry is what was sent, and what was parsed and reported is what was
\* carried, whoever stops when.
THEOREM Flows == Spec => []FlowInv
<1>1. ASSUME FlowInv, TableInv, [Next]_vars PROVE FlowInv'
  <2>1. CASE UNCHANGED vars
    <3>1. Places' /\ Endings'
      BY <1>1, <2>1 DEF FlowInv, vars, Places, Endings
    <3> QED BY <1>1, <2>1, <3>1, NothingMoves DEF vars
  <2>2. CASE HostNext
    BY <1>1, <2>2, HostMovesNothing, StopReadingKeeps, WriteByteKeeps, ReadReportKeeps DEF HostNext
  <2>3. CASE ReaderNext
    BY <1>1, <2>3, ReaderReadsKeeps, ReaderWritesKeeps, ReaderStopsKeeps DEF ReaderNext
  <2>4. CASE ReaderKilled
    BY <1>1, <2>4, ReaderStopsKeeps
  <2> QED BY <1>1, <2>1, <2>2, <2>3, <2>4 DEF Next
<1> QED
  BY <1>1, FlowInit, Tables, PTL DEF Spec

\* In mode A every variable keeps its type and no pipe holds more than it can.
THEOREM AnalysesTyped == Spec => []TypeOK
<1>1. FlowInv /\ TableInv => TypeOK
  <2> SUFFICES ASSUME FlowInv, TableInv PROVE TypeOK
    OBVIOUS
  <2>1. DOMAIN fd = Proc /\ \A p \in Proc, n \in Fd : fd[p][n] \in PipeEnds \cup {Closed, Foreign}
    BY DEF TableInv, TableTyped, Handle
  <2>2. fileset \in FileSet /\ PipesTyped /\ Places
    BY DEF FlowInv
  <2>3. buf["stdin"] \in Seq(Byte) /\ sent \in 0 .. Len(Stream(fileset)) /\ parse \in ParserRecord
    BY DEF FlowInv, StreamInv, StreamAt, Parser
  <2>4. parse.want \in {"magic", "version", "count", "pathlen", "path", "bytelen", "bytes",
                        "trailer", "done", "error"}
    BY <2>3, ParserFields DEF Want, HeaderWant, FrameWant
  <2>5. parse.left \in 0 .. CountLimit /\ parse.frames \in Seq(Frame) /\ parse.path \in Seq(Utf8)
    BY <2>3, ParserFields
  <2>6. /\ \A i \in DOMAIN parse.frames : parse.frames[i] \in Frame
        /\ \A i \in DOMAIN parse.path : parse.path[i] \in Utf8
    BY <2>5
  <2> QED BY <2>1, <2>2, <2>3, <2>4, <2>5, <2>6 DEF TypeOK, PipesTyped, Places
<1> QED
  BY <1>1, Flows, Tables, PTL

LEMMA FlowMatches ==
  ASSUME FlowInv
  PROVE  /\ Matched(fileset, Sound, parse.frames) /\ Accounted(fileset, parse)
         /\ Len(parse.frames) \in Nat /\ parse \in Parser
         /\ fileset \in FileSetOk /\ Len(fileset) \in Nat /\ Sound \in 0 .. Len(fileset)
<1>1. parse \in Parser /\ Matched(fileset, Sound, parse.frames) /\ Accounted(fileset, parse)
  BY DEF FlowInv, StreamInv, StreamAt, Follows
<1>2. fileset \in FileSetOk
  BY FileSetsOk DEF FlowInv
<1>3. Len(parse.frames) \in Nat
  BY <1>1, ParserFields DEF Parser
<1> QED
  BY <1>1, <1>2, <1>3, SoundIs DEF FileSetOk

\* Whatever the size of its reads and whatever the misread bytes of a file that shrank, the
\* reader decodes the files before it as they were submitted, and never more files.
THEOREM FramesAreFaithful == Spec => []FramesFaithful
<1>1. FlowInv => FramesFaithful
  <2> SUFFICES ASSUME FlowInv PROVE FramesFaithful
    OBVIOUS
  <2>1. Matched(fileset, Sound, parse.frames) /\ Accounted(fileset, parse)
    BY FlowMatches
  <2> QED BY <2>1 DEF FramesFaithful, Matched, Accounted
<1> QED
  BY <1>1, Flows, PTL

LEMMA FlowWhole == FlowInv => OkMeansWhole
<1> SUFFICES ASSUME FlowInv, result = "ok"
             PROVE  /\ reader = "ok" /\ report = ReportUnits
                    /\ Len(report) = Len(fileset) + 1
                    /\ Sound = Len(fileset) =>
                         \A i \in DOMAIN fileset : report[i] = Input(AsFrame(fileset[i]))
  BY DEF OkMeansWhole
<1>1. reader = "ok" /\ buf["report"] = <<>>
  BY DEF FlowInv, Endings
<1>2. gave = Len(ReportUnits) /\ parse.want = "done"
  BY <1>1 DEF FlowInv, Progress
<1>3. /\ Matched(fileset, Sound, parse.frames) /\ Accounted(fileset, parse)
      /\ parse \in Parser /\ fileset \in FileSetOk
  BY FlowMatches
<1>4. /\ ReportUnits \in Seq(Units) /\ Len(ReportUnits) = Len(parse.frames) + 1
      /\ \A i \in 1 .. Len(parse.frames) : ReportUnits[i] = Input(parse.frames[i])
  BY <1>3, ReportUnitsAre
<1>5. report = ReportUnits
  <2>1. ReportAt(ReportUnits, report, buf["report"], Len(ReportUnits))
    BY <1>2 DEF FlowInv, ReportInv
  <2> QED BY <1>1, <1>4, <2>1, ReportWhole
<1>6. Len(parse.frames) = Len(fileset)
  BY <1>2, <1>3 DEF Accounted
<1>7. DOMAIN fileset = 1 .. Len(fileset)
  BY <1>3 DEF FileSetOk
<1>8. ASSUME Sound = Len(fileset), NEW i \in DOMAIN fileset
      PROVE  report[i] = Input(AsFrame(fileset[i]))
  <2>1. i \in 1 .. Sound /\ i <= Len(parse.frames) /\ i \in 1 .. Len(parse.frames)
    BY <1>6, <1>7, <1>8
  <2>2. parse.frames[i] = AsFrame(fileset[i])
    BY <1>3, <2>1 DEF Matched
  <2> QED BY <1>4, <1>5, <2>1, <2>2
<1> QED BY <1>1, <1>4, <1>5, <1>6, <1>8

\* run_sandboxed returns Ok only with the whole report of a reader that parsed the whole
\* stream, one input per file; and with the submitted files when none of them shrank.
THEOREM OkIsWhole == Spec => []OkMeansWhole
  BY FlowWhole, Flows, PTL

\* No file set with a path or a content above its limit gets an Ok, unless an earlier file
\* shrank.
THEOREM OverLimitIsRefused == Spec => []OverLimitRefused
<1>1. FlowInv => OverLimitRefused
  <2> SUFFICES ASSUME FlowInv, result = "ok", NEW i \in 1 .. Sound
               PROVE  ~Refusable(fileset[i])
    BY DEF OverLimitRefused
  <2>1. reader = "ok"
    BY DEF FlowInv, Endings
  <2>2. parse.want = "done"
    BY <2>1 DEF FlowInv, Progress
  <2>3. /\ Matched(fileset, Sound, parse.frames) /\ Accounted(fileset, parse)
        /\ Sound \in 0 .. Len(fileset) /\ Len(fileset) \in Nat
    BY FlowMatches
  <2>4. i <= Len(parse.frames)
    BY <2>2, <2>3 DEF Accounted
  <2> QED BY <2>3, <2>4 DEF Matched
<1> QED
  BY <1>1, Flows, PTL

-----------------------------------------------------------------------------
(* Refinement.                                                             *)

LEMMA AnswersOnce ==
  ASSUME FlowInv, [Next]_vars
  PROVE  /\ UNCHANGED fileset
         /\ result # "none" => UNCHANGED <<result, report>>
<1>1. UNCHANGED fileset
  BY DEF Next, HostNext, ReaderNext, vars, CreatePipe, PipeFails, Spawn, SpawnFails, WriteByte,
         WriteFails, DropStdin, ReadReport, StopReading, Wait, ReaderReads, ReaderCutShort,
         ReaderWrites, ReaderFinishes, ReaderKilled, HostUnchanged
<1>2. ASSUME host = "done" PROVE UNCHANGED <<result, report>>
  BY <1>2
  DEF Next, HostNext, ReaderNext, vars, CreatePipe, PipeFails, Spawn, SpawnFails, WriteByte,
      WriteFails, DropStdin, ReadReport, StopReading, Wait, ReaderReads, ReaderCutShort,
      ReaderWrites, ReaderFinishes, ReaderKilled, HostUnchanged
<1>3. result # "none" => host = "done"
  BY DEF FlowInv, Endings
<1> QED
  BY <1>1, <1>2, <1>3

ToldWhole == result = "ok" => Told = Abs!CompleteReport(Len(fileset))

LEMMA OkTellsAll ==
  ASSUME FlowInv, NoneShrank
  PROVE  ToldWhole
<1> SUFFICES ASSUME result = "ok" PROVE Told = Abs!CompleteReport(Len(fileset))
  BY DEF ToldWhole
<1>1. Len(fileset) \in Nat /\ DOMAIN fileset = 1 .. Len(fileset) /\ parse \in Parser
  BY FlowMatches DEF FileSetOk
<1>2. Sound = Len(fileset)
  BY DEF NoneShrank, Sound
<1>3. /\ report = ReportUnits /\ Len(report) = Len(fileset) + 1
      /\ \A i \in 1 .. Len(fileset) : report[i] = Input(AsFrame(fileset[i]))
  BY <1>1, <1>2, FlowWhole DEF OkMeansWhole
<1>4. Len(parse.frames) = Len(fileset)
  BY <1>1, <1>3, ReportUnitsAre, FlowMatches
<1>5. report[Len(fileset) + 1] = <<"close", 0>>
  BY <1>1, <1>3, <1>4 DEF ReportUnits, Close
<1>6. \A i \in 1 .. Len(fileset) + 1 :
        Told[i] = IF i <= Len(fileset) THEN <<"input", i>> ELSE <<"close", 0>>
  BY <1>1, <1>3, <1>5 DEF Told
<1> QED
  BY <1>3, <1>6 DEF Told, Abs!CompleteReport

LEMMA AbsInit == Init => Abs!Init
BY DEF Init, Abs!Init, Abs!Pending

LEMMA AbsStep ==
  ASSUME FlowInv, [Next]_vars, FlowInv', ToldWhole'
  PROVE  [Abs!Next]_(Abs!vars)
<1>1. /\ UNCHANGED fileset
      /\ result # "none" => UNCHANGED <<result, report>>
  BY AnswersOnce
<1>2. result \in {"none", "ok", "err"} /\ result' \in {"none", "ok", "err"}
  BY DEF FlowInv, Places
<1>3. CASE result = "none" /\ result' = "none"
  BY <1>1, <1>3 DEF Abs!vars
<1>4. CASE result # "none"
  BY <1>1, <1>4 DEF Abs!vars, Told
<1>5. CASE result = "none" /\ result' = "err"
  BY <1>1, <1>5 DEF Abs!Next, Abs!Answer, Abs!Pending, Abs!Failed
<1>6. CASE result = "none" /\ result' = "ok"
  <2>1. Told' = Abs!CompleteReport(Len(fileset'))
    BY <1>6 DEF ToldWhole
  <2> QED
    BY <1>1, <1>6, <2>1 DEF Abs!Next, Abs!Answer, Abs!Pending, Abs!Ok
<1> QED
  BY <1>2, <1>3, <1>4, <1>5, <1>6

\* run_sandboxed implements AnalyzeSpec for the file sets of which no file shrank: one
\* answer, and no partial Ok.
THEOREM Refinement == Spec /\ NoneShrank => Abs!Spec
<1>1. FlowInv /\ NoneShrank /\ [Next]_vars => NoneShrank'
  BY AnswersOnce DEF NoneShrank
<1>2. FlowInv /\ NoneShrank => ToldWhole
  BY OkTellsAll
<1>3. FlowInv /\ [Next]_vars /\ FlowInv' /\ ToldWhole' => [Abs!Next]_(Abs!vars)
  BY AbsStep
<1> QED
  BY <1>1, <1>2, <1>3, AbsInit, Flows, PTL DEF Spec, Abs!Spec
=============================================================================
