---------------------------- MODULE ModeB_proofs ----------------------------
(***************************************************************************)
(* Proofs about ModeB, for every MaxFd, PipeCap, MaxFiles, MayInherit and  *)
(* Faults that satisfy the assumptions of ModeB.                           *)
(***************************************************************************)
EXTENDS ModeB, SequenceTheorems, TLAPS

-----------------------------------------------------------------------------
(* The shape of the host's table while it hands out pipe ends: the ends    *)
(* sit at increasing numbers, nowhere else, and everything free is above.  *)

Layout2(t, a, b) ==
  /\ a < b
  /\ t[a] = ReadEnd("h2b") /\ t[b] = WriteEnd("h2b")
  /\ \A n \in Fd : t[n] \in PipeEnds => n \in {a, b}
  /\ \A n \in Free(t) : b < n

Layout4(t, a, b, c, d) ==
  /\ a < b /\ b < c /\ c < d
  /\ t[a] = ReadEnd("h2b") /\ t[b] = WriteEnd("h2b")
  /\ t[c] = ReadEnd("b2p") /\ t[d] = WriteEnd("b2p")
  /\ \A n \in Fd : t[n] \in PipeEnds => n \in {a, b, c, d}
  /\ \A n \in Free(t) : d < n

Layout6(t, a, b, c, d, e, f) ==
  /\ a < b /\ b < c /\ c < d /\ d < e /\ e < f
  /\ t[a] = ReadEnd("h2b") /\ t[b] = WriteEnd("h2b")
  /\ t[c] = ReadEnd("b2p") /\ t[d] = WriteEnd("b2p")
  /\ t[e] = ReadEnd("p2h") /\ t[f] = WriteEnd("p2h")
  /\ \A n \in Fd : t[n] \in PipeEnds => n \in {a, b, c, d, e, f}

HostWiring ==
  /\ host = "pipe1" => \A n \in Fd : fd["host"][n] \notin PipeEnds
  /\ host = "pipe2" => \E a, b \in Fd : Layout2(fd["host"], a, b)
  /\ host = "pipe3" => \E a, b, c, d \in Fd : Layout4(fd["host"], a, b, c, d)
  /\ host \in {"spawn_bytes", "spawn_priv"} =>
       \E a, b, c, d, e, f \in Fd : Layout6(fd["host"], a, b, c, d, e, f)

PrivKeepsWriteEnd ==
  child["priv"] \in {"reading", "writing"} =>
    \E n \in Fd : fd["priv"][n] = WriteEnd("b2p")

WireInv == TypeOK /\ HostWiring /\ RolesCorrect /\ PrivKeepsWriteEnd

LEMMA HandleFacts ==
  /\ PipeEnds = { ReadEnd("h2b"), WriteEnd("h2b"), ReadEnd("b2p"),
                  WriteEnd("b2p"), ReadEnd("p2h"), WriteEnd("p2h") }
  /\ Closed \notin PipeEnds
  /\ Foreign \notin PipeEnds
  /\ Closed # Foreign
  /\ \A p, q : ReadEnd(p) # WriteEnd(q)
  /\ \A p, q \in Pipe : ReadEnd(p) = ReadEnd(q) => p = q
  /\ \A p, q \in Pipe : WriteEnd(p) = WriteEnd(q) => p = q
BY DEF PipeEnds, Pipe, ReadEnd, WriteEnd, Closed, Foreign

\* pipe() keeps the layout: the new ends go above every end already there.
LEMMA FirstPipe ==
  ASSUME NEW t \in [Fd -> Handle], NEW r \in Fd, NEW w \in Fd,
         TwoLowest(t, r, w), \A n \in Fd : t[n] \notin PipeEnds
  PROVE  Layout2(WithPipe(t, "h2b", r, w), r, w)
<1> DEFINE u == WithPipe(t, "h2b", r, w)
<1>1. u = [t EXCEPT ![r] = ReadEnd("h2b"), ![w] = WriteEnd("h2b")]
  BY DEF WithPipe
<1>2. r < w
  BY DEF TwoLowest
<1>3. r # w
  BY <1>2 DEF Fd
<1>4. u[r] = ReadEnd("h2b") /\ u[w] = WriteEnd("h2b") /\ \A n \in Fd \ {r, w} : u[n] = t[n]
  BY <1>1, <1>3
<1>5. \A n \in Free(u) : n \in Free(t) \ {r, w}
  BY <1>4, HandleFacts DEF Free
<1>6. \A n \in Free(u) : w < n
  BY <1>5 DEF TwoLowest, Free, Fd
<1> QED
  BY <1>2, <1>4, <1>6 DEF Layout2

LEMMA SecondPipe ==
  ASSUME NEW t \in [Fd -> Handle], NEW a \in Fd, NEW b \in Fd, Layout2(t, a, b),
         NEW r \in Fd, NEW w \in Fd, TwoLowest(t, r, w)
  PROVE  Layout4(WithPipe(t, "b2p", r, w), a, b, r, w)
<1> DEFINE u == WithPipe(t, "b2p", r, w)
<1>1. u = [t EXCEPT ![r] = ReadEnd("b2p"), ![w] = WriteEnd("b2p")]
  BY DEF WithPipe
<1>2. a < b /\ b < r /\ r < w
  BY DEF TwoLowest, Layout2, Free
<1>3. r # w /\ a \notin {r, w} /\ b \notin {r, w}
  BY <1>2 DEF Fd
<1>4. u[r] = ReadEnd("b2p") /\ u[w] = WriteEnd("b2p") /\ \A n \in Fd \ {r, w} : u[n] = t[n]
  BY <1>1, <1>3
<1>5. \A n \in Free(u) : n \in Free(t) \ {r, w}
  BY <1>4, HandleFacts DEF Free
<1>6. \A n \in Free(u) : w < n
  BY <1>5 DEF TwoLowest, Free, Fd
<1>7. \A n \in Fd : u[n] \in PipeEnds => n \in {a, b, r, w}
  BY <1>4 DEF Layout2
<1>8. u[a] = ReadEnd("h2b") /\ u[b] = WriteEnd("h2b")
  BY <1>3, <1>4 DEF Layout2
<1> QED
  BY <1>2, <1>4, <1>6, <1>7, <1>8 DEF Layout4

LEMMA ThirdPipe ==
  ASSUME NEW t \in [Fd -> Handle], NEW a \in Fd, NEW b \in Fd, NEW c \in Fd, NEW d \in Fd,
         Layout4(t, a, b, c, d), NEW r \in Fd, NEW w \in Fd, TwoLowest(t, r, w)
  PROVE  Layout6(WithPipe(t, "p2h", r, w), a, b, c, d, r, w)
<1> DEFINE u == WithPipe(t, "p2h", r, w)
<1>1. u = [t EXCEPT ![r] = ReadEnd("p2h"), ![w] = WriteEnd("p2h")]
  BY DEF WithPipe
<1>2. a < b /\ b < c /\ c < d /\ d < r /\ r < w
  BY DEF TwoLowest, Layout4, Free
<1>3. r # w /\ a \notin {r, w} /\ b \notin {r, w} /\ c \notin {r, w} /\ d \notin {r, w}
  BY <1>2 DEF Fd
<1>4. u[r] = ReadEnd("p2h") /\ u[w] = WriteEnd("p2h") /\ \A n \in Fd \ {r, w} : u[n] = t[n]
  BY <1>1, <1>3
<1>5. \A n \in Fd : u[n] \in PipeEnds => n \in {a, b, c, d, r, w}
  BY <1>4 DEF Layout4
<1>6. /\ u[a] = ReadEnd("h2b") /\ u[b] = WriteEnd("h2b")
      /\ u[c] = ReadEnd("b2p") /\ u[d] = WriteEnd("b2p")
  BY <1>3, <1>4 DEF Layout4
<1> QED
  BY <1>2, <1>4, <1>5, <1>6 DEF Layout6

\* as_raw_fd() finds each end where pipe() put it.
LEMMA Numbers ==
  ASSUME NEW t \in [Fd -> Handle], NEW a \in Fd, NEW b \in Fd, NEW c \in Fd,
         NEW d \in Fd, NEW e \in Fd, NEW f \in Fd, Layout6(t, a, b, c, d, e, f)
  PROVE  /\ NumberOf(t, ReadEnd("h2b")) = a
         /\ NumberOf(t, WriteEnd("b2p")) = d
         /\ NumberOf(t, ReadEnd("b2p")) = c
         /\ NumberOf(t, WriteEnd("p2h")) = f
         /\ 6 <= d
         /\ 8 <= f
<1>1. \A n \in Fd : /\ t[n] = ReadEnd("h2b") => n = a
                    /\ t[n] = WriteEnd("b2p") => n = d
                    /\ t[n] = ReadEnd("b2p") => n = c
                    /\ t[n] = WriteEnd("p2h") => n = f
  <2> TAKE n \in Fd
  <2>1. t[n] \in PipeEnds => n \in {a, b, c, d, e, f}
    BY DEF Layout6
  <2>2. /\ t[a] = ReadEnd("h2b") /\ t[b] = WriteEnd("h2b")
        /\ t[c] = ReadEnd("b2p") /\ t[d] = WriteEnd("b2p")
        /\ t[e] = ReadEnd("p2h") /\ t[f] = WriteEnd("p2h")
    BY DEF Layout6
  <2> QED
    BY <2>1, <2>2, HandleFacts DEF Pipe
<1>2. t[a] = ReadEnd("h2b") /\ t[d] = WriteEnd("b2p") /\ t[c] = ReadEnd("b2p")
      /\ t[f] = WriteEnd("p2h")
  BY DEF Layout6
<1>3. 6 <= d /\ 8 <= f
  BY MaxFdAssumption DEF Layout6, Fd
<1> QED
  BY <1>1, <1>2, <1>3 DEF NumberOf

\* pre_exec wires the bytes reader: FD 3 and FD 7 are its two pipes.
LEMMA BytesWired ==
  ASSUME NEW t \in [Fd -> Handle], NEW a \in Fd, NEW b \in Fd, NEW c \in Fd,
         NEW d \in Fd, NEW e \in Fd, NEW f \in Fd, Layout6(t, a, b, c, d, e, f)
  PROVE  /\ BytesTable(t) \in [Fd -> Handle]
         /\ BytesTable(t)[3] = ReadEnd("h2b")
         /\ BytesTable(t)[7] = WriteEnd("b2p")
<1>1. NumberOf(t, ReadEnd("h2b")) = a /\ NumberOf(t, WriteEnd("b2p")) = d /\ 6 <= d
  BY Numbers
<1>2. 3 \in Fd /\ 7 \in Fd
  BY MaxFdAssumption DEF Fd
<1> DEFINE u == Dup2(t, a, 3)
<1>3. BytesTable(t) = Dup2(u, d, 7)
  BY <1>1 DEF BytesTable
<1>4. u \in [Fd -> Handle] /\ u[3] = ReadEnd("h2b") /\ u[d] = WriteEnd("b2p")
  BY <1>1, <1>2 DEF Dup2, Layout6, Fd
<1> QED
  BY <1>2, <1>3, <1>4 DEF Dup2

\* pre_exec wires the priv reader: FD 3 and FD 5; the end it must not have
\* stays where the host's table had it, above both.
LEMMA PrivWired ==
  ASSUME NEW t \in [Fd -> Handle], NEW a \in Fd, NEW b \in Fd, NEW c \in Fd,
         NEW d \in Fd, NEW e \in Fd, NEW f \in Fd, Layout6(t, a, b, c, d, e, f)
  PROVE  /\ PrivTable(t) \in [Fd -> Handle]
         /\ PrivTable(t)[3] = ReadEnd("b2p")
         /\ PrivTable(t)[5] = WriteEnd("p2h")
         /\ \E n \in Fd : PrivTable(t)[n] = WriteEnd("b2p")
<1>1. /\ NumberOf(t, ReadEnd("b2p")) = c /\ NumberOf(t, WriteEnd("p2h")) = f
      /\ 6 <= d /\ 8 <= f
  BY Numbers
<1>2. 3 \in Fd /\ 5 \in Fd
  BY MaxFdAssumption DEF Fd
<1> DEFINE u == Dup2(t, c, 3)
<1>3. PrivTable(t) = Dup2(u, f, 5)
  BY <1>1 DEF PrivTable
<1>4. /\ u \in [Fd -> Handle] /\ u[3] = ReadEnd("b2p")
      /\ u[f] = WriteEnd("p2h") /\ u[d] = WriteEnd("b2p")
  BY <1>1, <1>2 DEF Dup2, Layout6, Fd
<1>5. Dup2(u, f, 5)[d] = WriteEnd("b2p")
  BY <1>1, <1>2, <1>4 DEF Dup2, Fd
<1> QED
  BY <1>2, <1>3, <1>4, <1>5 DEF Dup2

-----------------------------------------------------------------------------
(* Types and wiring.                                                       *)

LEMMA FileSetFacts ==
  ASSUME fileset \in FileSet
  PROVE  /\ N \in Nat
         /\ N <= MaxFiles
         /\ fileset \in [1 .. N -> {"exact", "refused"}]
<1>1. PICK n \in 0 .. MaxFiles : fileset \in [1 .. n -> {"exact", "refused"}]
  BY DEF FileSet
<1>2. fileset \in Seq({"exact", "refused"}) /\ Len(fileset) = n
  BY <1>1, MaxFilesAssumption
<1> QED
  BY <1>1, <1>2, MaxFilesAssumption DEF N

\* The values the streams are made of.
LEMMA UnitTypes ==
  ASSUME TypeOK
  PROVE  /\ \A i \in 1 .. N + 2 : FrameUnit(i) \in Unit
         /\ \A c \in Children : OutLen(c) \in Nat
         /\ \A c \in Children : \A i \in 1 .. OutLen(c) : OutUnit(c, i) \in Unit
<1>1. N \in Nat /\ N <= MaxFiles
  BY FileSetFacts DEF TypeOK
<1>2. \A i \in 1 .. N + 2 : FrameUnit(i) \in Unit
  BY <1>1, MaxFilesAssumption DEF FrameUnit, Unit, Entry
<1>3. \A c \in Children : got[c] \in Seq(Entry) /\ Len(got[c]) \in Nat
  BY DEF TypeOK
<1>4. \A c \in Children : OutLen(c) \in Nat
  BY <1>3 DEF OutLen
<1>5. \A i \in 1 .. OutLen("bytes") : IpcUnit(i) \in Unit
  BY <1>3 DEF OutLen, IpcUnit, Unit, Children
<1>6. \A i \in 1 .. OutLen("priv") : ReportUnit(i) \in Unit
  BY <1>3 DEF OutLen, ReportUnit, Unit, Children
<1> QED
  BY <1>2, <1>4, <1>5, <1>6 DEF OutUnit, Children

LEMMA TableTypes ==
  ASSUME NEW t \in [Fd -> Handle]
  PROVE  /\ \A H : Dropping(t, H) \in [Fd -> Handle]
         /\ \A n \in Fd : Dropping(t, PipeEnds)[n] \notin PipeEnds
         /\ NoFds \in [Fd -> Handle]
         /\ \A p \in Pipe : \A r, w \in Fd : WithPipe(t, p, r, w) \in [Fd -> Handle]
BY HandleFacts DEF Dropping, NoFds, Handle, WithPipe, PipeEnds, ReadEnd, WriteEnd

\* Appending to, and taking from, a pipe.
LEMMA PutTypes ==
  ASSUME TypeOK, NEW p \in Pipe, NEW u \in Unit, Len(buf[p]) < PipeCap,
         NEW b, b = [buf EXCEPT ![p] = Append(@, u)]
  PROVE  b \in [Pipe -> Seq(Unit)] /\ \A q \in Pipe : Len(b[q]) <= PipeCap
<1>1. buf[p] \in Seq(Unit) /\ Append(buf[p], u) \in Seq(Unit)
      /\ Len(Append(buf[p], u)) = Len(buf[p]) + 1
  BY DEF TypeOK
<1>2. b \in [Pipe -> Seq(Unit)] /\ b[p] = Append(buf[p], u) /\ \A q \in Pipe \ {p} : b[q] = buf[q]
  BY <1>1 DEF TypeOK
<1>3. Len(b[p]) <= PipeCap
  BY <1>1, <1>2, PipeCapAssumption
<1> QED
  BY <1>2, <1>3 DEF TypeOK

LEMMA PopTypes ==
  ASSUME TypeOK, NEW p \in Pipe, buf[p] # <<>>,
         NEW b, b = [buf EXCEPT ![p] = Tail(@)]
  PROVE  /\ Head(buf[p]) \in Unit
         /\ b \in [Pipe -> Seq(Unit)]
         /\ \A q \in Pipe : Len(b[q]) <= PipeCap
<1>1. buf[p] \in Seq(Unit) /\ Head(buf[p]) \in Unit /\ Tail(buf[p]) \in Seq(Unit)
      /\ Len(Tail(buf[p])) = Len(buf[p]) - 1 /\ Len(buf[p]) \in Nat /\ Len(buf[p]) <= PipeCap
  BY DEF TypeOK
<1>2. b \in [Pipe -> Seq(Unit)] /\ b[p] = Tail(buf[p]) /\ \A q \in Pipe \ {p} : b[q] = buf[q]
  BY <1>1 DEF TypeOK
<1>3. Len(b[p]) <= PipeCap
  BY <1>1, <1>2, PipeCapAssumption
<1> QED
  BY <1>1, <1>2, <1>3 DEF TypeOK

LEMMA WireInit == Init => WireInv
<1> SUFFICES ASSUME Init PROVE WireInv
  OBVIOUS
<1>1. PICK inherited \in SUBSET MayInherit :
        fd = [p \in Proc |->
                IF p = "host"
                THEN [n \in Fd |-> IF n \in inherited THEN Foreign ELSE Closed]
                ELSE NoFds]
  BY DEF Init
<1>2. fd \in [Proc -> [Fd -> Handle]]
  BY <1>1 DEF Handle, NoFds
<1>3. \A n \in Fd : fd["host"][n] \notin PipeEnds
  BY <1>1, HandleFacts DEF Proc
<1>4. N \in Nat
  BY FileSetFacts DEF Init
<1>5. TypeOK
  BY <1>2, <1>4, PipeCapAssumption DEF Init, TypeOK
<1> QED
  BY <1>3, <1>5 DEF Init, WireInv, HostWiring, RolesCorrect, PrivKeepsWriteEnd, Children

LEMMA WireCreatePipe ==
  ASSUME WireInv,
         \/ CreatePipe("pipe1", "h2b", "pipe2")
         \/ CreatePipe("pipe2", "b2p", "pipe3")
         \/ CreatePipe("pipe3", "p2h", "spawn_bytes")
  PROVE  WireInv'
<1> DEFINE t == fd["host"]
<1>0. t \in [Fd -> Handle] /\ N' = N
  BY DEF WireInv, TypeOK, Proc, CreatePipe, N
<1>1. PICK p \in Pipe, r \in Fd, w \in Fd :
        TwoLowest(t, r, w) /\ fd' = [fd EXCEPT !["host"] = WithPipe(@, p, r, w)]
  BY DEF CreatePipe, Pipe
<1>2. fd' \in [Proc -> [Fd -> Handle]] /\ \A c \in Children : fd'[c] = fd[c]
  BY <1>0, <1>1, TableTypes DEF WireInv, TypeOK, Proc, Children
<1>3. TypeOK'
  BY <1>0, <1>2 DEF WireInv, TypeOK, CreatePipe, FileSet
<1>4. HostWiring'
  <2>1. CASE CreatePipe("pipe1", "h2b", "pipe2")
    <3>1. PICK x \in Fd, y \in Fd :
            TwoLowest(t, x, y) /\ fd' = [fd EXCEPT !["host"] = WithPipe(@, "h2b", x, y)]
      BY <2>1 DEF CreatePipe
    <3>2. Layout2(fd'["host"], x, y)
      BY <1>0, <2>1, <3>1, FirstPipe DEF WireInv, HostWiring, CreatePipe, TypeOK, Proc
    <3> QED
      BY <2>1, <3>2 DEF HostWiring, CreatePipe
  <2>2. CASE CreatePipe("pipe2", "b2p", "pipe3")
    <3>1. PICK x \in Fd, y \in Fd :
            TwoLowest(t, x, y) /\ fd' = [fd EXCEPT !["host"] = WithPipe(@, "b2p", x, y)]
      BY <2>2 DEF CreatePipe
    <3>2. PICK a \in Fd, b \in Fd : Layout2(t, a, b)
      BY <2>2 DEF WireInv, HostWiring, CreatePipe
    <3>3. Layout4(fd'["host"], a, b, x, y)
      BY <1>0, <3>1, <3>2, SecondPipe DEF WireInv, TypeOK, Proc
    <3> QED
      BY <2>2, <3>3 DEF HostWiring, CreatePipe
  <2>3. CASE CreatePipe("pipe3", "p2h", "spawn_bytes")
    <3>1. PICK x \in Fd, y \in Fd :
            TwoLowest(t, x, y) /\ fd' = [fd EXCEPT !["host"] = WithPipe(@, "p2h", x, y)]
      BY <2>3 DEF CreatePipe
    <3>2. PICK a \in Fd, b \in Fd, c \in Fd, d \in Fd : Layout4(t, a, b, c, d)
      BY <2>3 DEF WireInv, HostWiring, CreatePipe
    <3>3. Layout6(fd'["host"], a, b, c, d, x, y)
      BY <1>0, <3>1, <3>2, ThirdPipe DEF WireInv, TypeOK, Proc
    <3> QED
      BY <2>3, <3>3 DEF HostWiring, CreatePipe
  <2> QED
    BY <2>1, <2>2, <2>3
<1>5. RolesCorrect' /\ PrivKeepsWriteEnd'
  BY <1>2 DEF WireInv, RolesCorrect, PrivKeepsWriteEnd, CreatePipe, In, Out, OutFd, Children
<1> QED
  BY <1>3, <1>4, <1>5 DEF WireInv

LEMMA WireSpawnBytes == ASSUME WireInv, SpawnBytes PROVE WireInv'
<1>0. fd["host"] \in [Fd -> Handle] /\ fd \in [Proc -> [Fd -> Handle]] /\ N' = N
  BY DEF WireInv, TypeOK, Proc, SpawnBytes, N
<1>1. PICK a \in Fd, b \in Fd, c \in Fd, d \in Fd, e \in Fd, f \in Fd :
        Layout6(fd["host"], a, b, c, d, e, f)
  BY DEF WireInv, HostWiring, SpawnBytes
<1>2. /\ BytesTable(fd["host"]) \in [Fd -> Handle]
      /\ BytesTable(fd["host"])[3] = ReadEnd("h2b")
      /\ BytesTable(fd["host"])[7] = WriteEnd("b2p")
  BY <1>0, <1>1, BytesWired
<1>3. /\ fd' \in [Proc -> [Fd -> Handle]]
      /\ fd'["host"] = fd["host"] /\ fd'["priv"] = fd["priv"]
      /\ fd'["bytes"] = BytesTable(fd["host"])
  BY <1>0, <1>2 DEF SpawnBytes, Proc, Children
<1>4. TypeOK'
  BY <1>0, <1>3 DEF WireInv, TypeOK, SpawnBytes, FileSet, Children
<1>5. HostWiring'
  BY <1>3 DEF WireInv, HostWiring, SpawnBytes
<1>6. child'["priv"] = child["priv"]
  BY DEF WireInv, TypeOK, SpawnBytes, Children
<1>7. RolesCorrect'
  BY <1>2, <1>3, <1>6 DEF WireInv, RolesCorrect, In, Out, OutFd
<1>8. PrivKeepsWriteEnd'
  BY <1>3, <1>6 DEF WireInv, PrivKeepsWriteEnd
<1> QED
  BY <1>4, <1>5, <1>7, <1>8 DEF WireInv

LEMMA WireSpawnPriv == ASSUME WireInv, SpawnPriv PROVE WireInv'
<1>0. fd["host"] \in [Fd -> Handle] /\ fd \in [Proc -> [Fd -> Handle]] /\ N' = N
  BY DEF WireInv, TypeOK, Proc, SpawnPriv, N
<1>1. PICK a \in Fd, b \in Fd, c \in Fd, d \in Fd, e \in Fd, f \in Fd :
        Layout6(fd["host"], a, b, c, d, e, f)
  BY DEF WireInv, HostWiring, SpawnPriv
<1>2. /\ PrivTable(fd["host"]) \in [Fd -> Handle]
      /\ PrivTable(fd["host"])[3] = ReadEnd("b2p")
      /\ PrivTable(fd["host"])[5] = WriteEnd("p2h")
      /\ \E n \in Fd : PrivTable(fd["host"])[n] = WriteEnd("b2p")
  BY <1>0, <1>1, PrivWired
<1>3. /\ fd' \in [Proc -> [Fd -> Handle]]
      /\ fd'["host"] = fd["host"] /\ fd'["bytes"] = fd["bytes"]
      /\ fd'["priv"] = PrivTable(fd["host"])
  BY <1>0, <1>2 DEF SpawnPriv, Proc, Children
<1>4. TypeOK'
  BY <1>0, <1>3 DEF WireInv, TypeOK, SpawnPriv, FileSet, Children
<1>5. HostWiring'
  BY DEF HostWiring, SpawnPriv
<1>6. child'["bytes"] = child["bytes"]
  BY DEF WireInv, TypeOK, SpawnPriv, Children
<1>7. RolesCorrect'
  BY <1>2, <1>3, <1>6 DEF WireInv, RolesCorrect, In, Out, OutFd
<1>8. PrivKeepsWriteEnd'
  BY <1>2, <1>3 DEF PrivKeepsWriteEnd
<1> QED
  BY <1>4, <1>5, <1>7, <1>8 DEF WireInv

\* A host step that only drops descriptors of its own, or none, and touches
\* no child: the children keep their tables, and the layout is past use.
LEMMA WireHostDrops ==
  ASSUME WireInv, NEW H, UNCHANGED <<fileset, child, got, gave>>,
         fd' = [fd EXCEPT !["host"] = Dropping(@, H)],
         host' \in {"write", "read", "done"}, result' \in {"none", "ok", "err"},
         hit' \subseteq Faults, UNCHANGED <<buf, sent, report>>
  PROVE  WireInv'
<1>1. /\ fd' \in [Proc -> [Fd -> Handle]]
      /\ fd'["bytes"] = fd["bytes"] /\ fd'["priv"] = fd["priv"]
  BY TableTypes DEF WireInv, TypeOK, Proc, Children
<1>2. N' = N
  BY DEF N
<1>3. TypeOK'
  BY <1>1, <1>2 DEF WireInv, TypeOK, FileSet
<1>4. HostWiring'
  BY DEF HostWiring
<1>5. RolesCorrect' /\ PrivKeepsWriteEnd'
  BY <1>1 DEF WireInv, RolesCorrect, PrivKeepsWriteEnd, In, Out, OutFd
<1> QED
  BY <1>3, <1>4, <1>5 DEF WireInv

\* A host step that leaves every descriptor table alone.
LEMMA WireHostIo ==
  ASSUME WireInv, WriteFrame \/ ReadReport \/ StopReading \/ WaitBytes
  PROVE  WireInv'
<1>1. UNCHANGED <<fileset, fd, child, got, gave, hit, result>> /\ N' = N
  BY DEF WriteFrame, ReadReport, StopReading, WaitBytes, N
<1>2. N \in Nat /\ buf \in [Pipe -> Seq(Unit)] /\ report \in Seq(Unit)
  BY FileSetFacts DEF WireInv, TypeOK
<1>3. /\ buf' \in [Pipe -> Seq(Unit)]
      /\ \A p \in Pipe : Len(buf'[p]) <= PipeCap
      /\ sent' \in 0 .. N + 2
      /\ report' \in Seq(Unit)
  <2>1. CASE WriteFrame
    <3>1. FrameUnit(sent + 1) \in Unit
      BY <1>2, <2>1, UnitTypes DEF WireInv, TypeOK, WriteFrame
    <3>2. buf' = [buf EXCEPT !["h2b"] = Append(@, FrameUnit(sent + 1))]
      BY <2>1 DEF WriteFrame, Put, WriteEnd
    <3>3. Len(buf["h2b"]) < PipeCap
      BY <2>1 DEF WriteFrame, HasRoom, WriteEnd
    <3>4. buf' \in [Pipe -> Seq(Unit)] /\ \A p \in Pipe : Len(buf'[p]) <= PipeCap
      BY <3>1, <3>2, <3>3, PutTypes DEF WireInv, Pipe
    <3> QED
      BY <1>2, <2>1, <3>4 DEF WireInv, TypeOK, WriteFrame
  <2>2. CASE ReadReport
    <3>1. buf["p2h"] # <<>> /\ buf' = [buf EXCEPT !["p2h"] = Tail(@)]
      BY <2>2 DEF ReadReport, Readable, Pop, ReadEnd
    <3>2. /\ Head(buf["p2h"]) \in Unit
          /\ buf' \in [Pipe -> Seq(Unit)] /\ \A p \in Pipe : Len(buf'[p]) <= PipeCap
      BY <3>1, PopTypes DEF WireInv, Pipe
    <3> QED
      BY <1>2, <2>2, <3>2 DEF WireInv, TypeOK, ReadReport
  <2>3. CASE StopReading \/ WaitBytes
    BY <1>2, <2>3 DEF WireInv, TypeOK, StopReading, WaitBytes
  <2> QED
    BY <2>1, <2>2, <2>3
<1>4. host' \in {"write", "read", "wait_bytes", "wait_priv"}
  BY DEF WriteFrame, ReadReport, StopReading, WaitBytes
<1>5. TypeOK'
  BY <1>1, <1>3, <1>4 DEF WireInv, TypeOK, FileSet
<1>6. HostWiring' /\ RolesCorrect' /\ PrivKeepsWriteEnd'
  BY <1>1, <1>4 DEF WireInv, HostWiring, RolesCorrect, PrivKeepsWriteEnd, In, Out, OutFd
<1> QED
  BY <1>5, <1>6 DEF WireInv

LEMMA WireHost == ASSUME WireInv, HostNext PROVE WireInv'
<1>1. CASE \/ CreatePipe("pipe1", "h2b", "pipe2")
           \/ CreatePipe("pipe2", "b2p", "pipe3")
           \/ CreatePipe("pipe3", "p2h", "spawn_bytes")
  BY <1>1, WireCreatePipe
<1>2. CASE SpawnBytes
  BY <1>2, WireSpawnBytes
<1>3. CASE SpawnPriv
  BY <1>3, WireSpawnPriv
<1>4. CASE PipeFails \/ SpawnFails \/ WriteFails \/ WaitPriv
  <2>1. /\ UNCHANGED <<fileset, child, got, gave, buf, sent, report>>
        /\ fd' = [fd EXCEPT !["host"] = Dropping(@, PipeEnds)]
        /\ host' = "done" /\ result' \in {"ok", "err"} /\ hit' \subseteq Faults
    BY <1>4 DEF PipeFails, SpawnFails, WriteFails, WaitPriv, Return, Verdict, WireInv, TypeOK
  <2> QED
    BY <2>1, WireHostDrops
<1>5. CASE DropHandedOut
  <2>1. result' \in {"none", "ok", "err"} /\ hit' \subseteq Faults
    BY <1>5 DEF DropHandedOut, WireInv, TypeOK
  <2> QED
    BY <1>5, <2>1, WireHostDrops DEF DropHandedOut
<1>6. CASE DropStdin
  <2>1. result' \in {"none", "ok", "err"} /\ hit' \subseteq Faults
    BY <1>6 DEF DropStdin, WireInv, TypeOK
  <2> QED
    BY <1>6, <2>1, WireHostDrops DEF DropStdin
<1>7. CASE WriteFrame \/ ReadReport \/ StopReading \/ WaitBytes
  BY <1>7, WireHostIo
<1> QED
  BY <1>1, <1>2, <1>3, <1>4, <1>5, <1>6, <1>7 DEF HostNext

\* A child that exits gives up every descriptor, and its roles with them.
LEMMA WireExit ==
  ASSUME WireInv, NEW c \in Children, NEW s \in {"ok", "failed"}, Exit(c, s),
         HostUnchanged, UNCHANGED <<got, gave>>, hit' \subseteq Faults,
         buf' \in [Pipe -> Seq(Unit)], \A p \in Pipe : Len(buf'[p]) <= PipeCap
  PROVE  WireInv'
<1>1. /\ fd' \in [Proc -> [Fd -> Handle]]
      /\ child' = [child EXCEPT ![c] = s]
      /\ \A p \in Proc \ {c} : fd'[p] = fd[p]
  BY TableTypes DEF WireInv, TypeOK, Exit, Proc, Children, NoFds, Handle
<1>2. N' = N
  BY DEF HostUnchanged, N
<1>3. TypeOK'
  BY <1>1, <1>2 DEF WireInv, TypeOK, HostUnchanged, FileSet
<1>4. HostWiring'
  BY <1>1 DEF WireInv, HostWiring, HostUnchanged, Proc, Children
<1>5. RolesCorrect' /\ PrivKeepsWriteEnd'
  BY <1>1 DEF WireInv, TypeOK, RolesCorrect, PrivKeepsWriteEnd, In, Out, OutFd, Proc, Children
<1> QED
  BY <1>3, <1>4, <1>5 DEF WireInv

\* A child step that keeps every table.
LEMMA WireChildIo ==
  ASSUME WireInv, HostUnchanged, UNCHANGED <<fd, hit>>,
         buf' \in [Pipe -> Seq(Unit)], \A p \in Pipe : Len(buf'[p]) <= PipeCap,
         got' \in [Children -> Seq(Entry)], gave' \in [Children -> Nat],
         \/ UNCHANGED child
         \/ \E c \in Children : child[c] = "reading" /\ child' = [child EXCEPT ![c] = "writing"]
  PROVE  WireInv'
<1>1. N' = N
  BY DEF HostUnchanged, N
<1>2. /\ child' \in [Children -> {"unborn", "reading", "writing", "ok", "failed"}]
      /\ \A c \in Children : child'[c] \in {"reading", "writing"} =>
                              child[c] \in {"reading", "writing"}
  BY DEF WireInv, TypeOK
<1>3. TypeOK'
  BY <1>1, <1>2 DEF WireInv, TypeOK, HostUnchanged, FileSet
<1>4. HostWiring'
  BY DEF WireInv, HostWiring, HostUnchanged
<1>5. RolesCorrect' /\ PrivKeepsWriteEnd'
  BY <1>2 DEF WireInv, RolesCorrect, PrivKeepsWriteEnd, In, Out, OutFd, Children
<1> QED
  BY <1>3, <1>4, <1>5 DEF WireInv

LEMMA WireChildWrites ==
  ASSUME WireInv, NEW c \in Children, ChildWrites(c)
  PROVE  WireInv'
<1>0. TypeOK
  BY DEF WireInv
<1>1. PICK p \in Pipe : Out(c) = WriteEnd(p) /\ Out(c)[1] = p
  BY DEF WireInv, RolesCorrect, ChildWrites, Children, Pipe, WriteEnd
<1>2. CASE HasReader(fd, Out(c))
  <2>1. gave[c] + 1 \in 1 .. OutLen(c)
    BY <1>0, UnitTypes DEF ChildWrites, TypeOK
  <2>2. OutUnit(c, gave[c] + 1) \in Unit
    BY <1>0, <2>1, UnitTypes
  <2>3. buf' = [buf EXCEPT ![p] = Append(@, OutUnit(c, gave[c] + 1))] /\ Len(buf[p]) < PipeCap
    BY <1>1, <1>2 DEF ChildWrites, Put, HasRoom
  <2>4. buf' \in [Pipe -> Seq(Unit)] /\ \A q \in Pipe : Len(buf'[q]) <= PipeCap
    BY <1>0, <2>2, <2>3, PutTypes
  <2>5. got' \in [Children -> Seq(Entry)] /\ gave' \in [Children -> Nat]
    BY <1>0, <1>2 DEF ChildWrites, TypeOK
  <2> QED
    BY <1>2, <2>4, <2>5, WireChildIo DEF ChildWrites
<1>3. CASE ~HasReader(fd, Out(c))
  <2>1. /\ hit' \subseteq Faults
        /\ buf' \in [Pipe -> Seq(Unit)] /\ \A q \in Pipe : Len(buf'[q]) <= PipeCap
    BY <1>0, <1>3 DEF ChildWrites, TypeOK
  <2> QED
    BY <1>3, <2>1, WireExit DEF ChildWrites
<1> QED
  BY <1>2, <1>3

LEMMA WireChildFinishes ==
  ASSUME WireInv, NEW c \in Children, ChildFinishes(c)
  PROVE  WireInv'
<1>1. /\ hit' \subseteq Faults
      /\ buf' \in [Pipe -> Seq(Unit)] /\ \A q \in Pipe : Len(buf'[q]) <= PipeCap
  BY DEF ChildFinishes, WireInv, TypeOK
<1> QED
  BY <1>1, WireExit DEF ChildFinishes

LEMMA WireBytes == ASSUME WireInv, BytesNext PROVE WireInv'
<1> USE DEF Children
<1>0. TypeOK
  BY DEF WireInv
<1>1. CASE BytesDecodes \/ BytesRefuses \/ BytesSeesTrailer
  <2>1. In("bytes") = ReadEnd("h2b") /\ In("bytes")[1] = "h2b"
    BY <1>1 DEF WireInv, RolesCorrect, BytesDecodes, BytesRefuses, BytesSeesTrailer, ReadEnd
  <2>2. buf["h2b"] # <<>> /\ buf' = [buf EXCEPT !["h2b"] = Tail(@)]
    BY <1>1, <2>1 DEF BytesDecodes, BytesRefuses, BytesSeesTrailer, Readable, Pop
  <2>3. /\ Head(buf["h2b"]) \in Unit
        /\ buf' \in [Pipe -> Seq(Unit)] /\ \A p \in Pipe : Len(buf'[p]) <= PipeCap
    BY <1>0, <2>2, PopTypes DEF Pipe
  <2>4. CASE BytesDecodes
    <3>1. Head(buf["h2b"])[1] = "entry" => Head(buf["h2b"])[2] \in Entry
      BY <2>3 DEF Unit
    <3>2. got' \in [Children -> Seq(Entry)]
      BY <2>1, <2>4, <3>1 DEF BytesDecodes, WireInv, TypeOK
    <3> QED
      BY <2>3, <2>4, <3>2, WireChildIo DEF BytesDecodes, WireInv, TypeOK
  <2>5. CASE BytesRefuses
    <3>1. hit' \subseteq Faults
      BY <1>0, <2>5 DEF BytesRefuses, TypeOK
    <3> QED
      BY <2>3, <2>5, <3>1, WireExit DEF BytesRefuses
  <2>6. CASE BytesSeesTrailer
    BY <2>3, <2>6, WireChildIo DEF BytesSeesTrailer, WireInv, TypeOK
  <2> QED
    BY <1>1, <2>4, <2>5, <2>6
<1>2. CASE BytesCutShort
  <2>1. hit' \subseteq Faults /\ buf' \in [Pipe -> Seq(Unit)] /\ \A p \in Pipe : Len(buf'[p]) <= PipeCap
    BY <1>0, <1>2 DEF BytesCutShort, TypeOK
  <2> QED
    BY <1>2, <2>1, WireExit DEF BytesCutShort
<1> QED
  BY <1>1, <1>2, WireChildWrites, WireChildFinishes DEF BytesNext

LEMMA WirePriv == ASSUME WireInv, PrivNext PROVE WireInv'
<1> USE DEF Children
<1>0. TypeOK
  BY DEF WireInv
<1>1. CASE PrivTakes
  <2>1. In("priv") = ReadEnd("b2p") /\ In("priv")[1] = "b2p"
    BY <1>1 DEF WireInv, RolesCorrect, PrivTakes, ReadEnd
  <2>2. buf["b2p"] # <<>> /\ buf' = [buf EXCEPT !["b2p"] = Tail(@)]
    BY <1>1, <2>1 DEF PrivTakes, Readable, Pop
  <2>3. /\ Head(buf["b2p"]) \in Unit
        /\ buf' \in [Pipe -> Seq(Unit)] /\ \A p \in Pipe : Len(buf'[p]) <= PipeCap
    BY <1>0, <2>2, PopTypes DEF Pipe
  <2>4. IsFile(Head(buf["b2p"])) => Head(buf["b2p"])[2] \in Entry
    BY <2>3 DEF Unit, IsFile
  <2>5. got' \in [Children -> Seq(Entry)]
    BY <1>1, <2>1, <2>4 DEF PrivTakes, WireInv, TypeOK
  <2> QED
    BY <1>1, <2>3, <2>5, WireChildIo DEF PrivTakes, WireInv, TypeOK
<1>2. CASE PrivStopsReading
  <2>1. In("priv") = ReadEnd("b2p") /\ In("priv")[1] = "b2p"
    BY <1>2 DEF WireInv, RolesCorrect, PrivStopsReading, ReadEnd
  <2>2. \/ buf["b2p"] # <<>> /\ buf' = [buf EXCEPT !["b2p"] = Tail(@)]
        \/ buf' = buf
    BY <1>2, <2>1 DEF PrivStopsReading, Readable, Pop
  <2>3. buf' \in [Pipe -> Seq(Unit)] /\ \A p \in Pipe : Len(buf'[p]) <= PipeCap
    BY <1>0, <2>2, PopTypes DEF Pipe, TypeOK
  <2> QED
    BY <1>2, <2>3, WireChildIo DEF PrivStopsReading, WireInv, TypeOK
<1> QED
  BY <1>1, <1>2, WireChildWrites, WireChildFinishes DEF PrivNext

LEMMA WireKilled == ASSUME WireInv, NEW c \in Children, Killed(c) PROVE WireInv'
<1>1. /\ hit' \subseteq Faults
      /\ buf' \in [Pipe -> Seq(Unit)] /\ \A p \in Pipe : Len(buf'[p]) <= PipeCap
  BY DEF Killed, WireInv, TypeOK
<1> QED
  BY <1>1, WireExit DEF Killed

LEMMA WireNext == WireInv /\ [Next]_vars => WireInv'
<1>1. ASSUME WireInv, UNCHANGED vars PROVE WireInv'
  BY <1>1 DEF vars, WireInv, TypeOK, HostWiring, RolesCorrect, PrivKeepsWriteEnd,
              In, Out, OutFd, N, FileSet
<1> QED
  BY <1>1, WireHost, WireBytes, WirePriv, WireKilled DEF Next

THEOREM Wiring == Spec => []WireInv
<1> QED
  BY WireInit, WireNext, PTL DEF Spec

\* Every variable keeps its type.
THEOREM TypeCorrect == Spec => []TypeOK
<1>1. WireInv => TypeOK
  BY DEF WireInv
<1> QED
  BY <1>1, Wiring, PTL

\* For every set of numbers the host's parent left occupied, the children's
\* hard-coded descriptors are their own pipes.
THEOREM RolesAlwaysCorrect == Spec => []RolesCorrect
<1>1. WireInv => RolesCorrect
  BY DEF WireInv
<1> QED
  BY <1>1, Wiring, PTL

\* For every such set, the priv reader holds the write end of its own input.
THEOREM PrivIsNeverAtEof == Spec => []PrivNeverSeesEof
<1>1. WireInv => PrivNeverSeesEof
  BY DEF WireInv, PrivKeepsWriteEnd, PrivNeverSeesEof, Held
<1> QED
  BY <1>1, Wiring, PTL

-----------------------------------------------------------------------------
(* An Ok answer carries the complete report: what flows through the three  *)
(* pipes, step by step, on top of the wiring invariant.  From it follows   *)
(* that ModeB implements AnalyzeSpec.                                      *)
(*                                                                         *)
(* What flows: each pipe buffers the next stretch of a stream that the     *)
(* file set determines, and each reader has decoded exactly what it took.  *)

TakenByBytes == sent - Len(buf["h2b"])
TakenByPriv  == gave["bytes"] - Len(buf["b2p"])
TakenByHost  == gave["priv"] - Len(buf["p2h"])

InOrder(s) == \A i \in 1 .. Len(s) : s[i] = i

H2bFlow ==
  /\ TakenByBytes >= 0
  /\ \A j \in 1 .. Len(buf["h2b"]) : buf["h2b"][j] = FrameUnit(TakenByBytes + j)

BytesFlow ==
  /\ InOrder(got["bytes"])
  /\ gave["bytes"] <= N + 2
  /\ gave["bytes"] > 0 => Len(got["bytes"]) = N
  /\ child["bytes"] = "unborn" => TakenByBytes = 0
  /\ child["bytes"] \in {"unborn", "reading"} =>
       /\ TakenByBytes <= N + 1
       /\ Len(got["bytes"]) = IF TakenByBytes = 0 THEN 0 ELSE TakenByBytes - 1
       /\ gave["bytes"] = 0
  /\ child["bytes"] \in {"writing", "ok"} => TakenByBytes = N + 2 /\ Len(got["bytes"]) = N
  /\ child["bytes"] = "ok" => gave["bytes"] = N + 2

B2pFlow ==
  /\ TakenByPriv >= 0
  /\ \A j \in 1 .. Len(buf["b2p"]) : buf["b2p"][j] = IpcUnit(TakenByPriv + j)

PrivFlow ==
  /\ InOrder(got["priv"])
  /\ gave["priv"] > 0 => Len(got["priv"]) = N
  /\ child["priv"] = "unborn" => TakenByPriv = 0
  /\ child["priv"] \in {"unborn", "reading"} =>
       /\ TakenByPriv <= N + 1
       /\ Len(got["priv"]) = IF TakenByPriv = 0 THEN 0 ELSE TakenByPriv - 1
       /\ gave["priv"] = 0
  /\ child["priv"] \in {"writing", "ok"} => TakenByPriv = N + 2 /\ Len(got["priv"]) = N
  /\ child["priv"] = "ok" => gave["priv"] = N + 1

P2hFlow ==
  /\ TakenByHost = Len(report)
  /\ \A j \in 1 .. Len(buf["p2h"]) : buf["p2h"][j] = ReportUnit(TakenByHost + j)
  /\ \A j \in 1 .. Len(report) : report[j] = ReportUnit(j)

HostFlow ==
  /\ result = "none" <=> host # "done"
  /\ host \in {"pipe1", "pipe2", "pipe3", "spawn_bytes"} => child["bytes"] = "unborn"
  /\ host = "spawn_priv" => child["bytes"] # "unborn"
  /\ host \in {"pipe1", "pipe2", "pipe3", "spawn_bytes", "spawn_priv"} => child["priv"] = "unborn"
  /\ host \in {"drop", "write", "read", "wait_bytes", "wait_priv"} =>
       \A c \in Children : child[c] # "unborn"
  /\ host \in {"read", "wait_bytes", "wait_priv"} => sent = N + 2
  /\ host \in {"wait_bytes", "wait_priv"} => buf["p2h"] = <<>> /\ Exited("priv")
  /\ host = "wait_priv" => Exited("bytes")

FlowInv ==
  H2bFlow /\ BytesFlow /\ B2pFlow /\ PrivFlow /\ P2hFlow /\ HostFlow /\ OkMeansComplete

\* Plain facts about lengths, for the steps below.
LengthFacts ==
  /\ N \in Nat /\ sent \in Nat /\ sent <= N + 2
  /\ Len(buf["h2b"]) \in Nat /\ Len(buf["b2p"]) \in Nat /\ Len(buf["p2h"]) \in Nat
  /\ Len(got["bytes"]) \in Nat /\ Len(got["priv"]) \in Nat
  /\ gave["bytes"] \in Nat /\ gave["priv"] \in Nat
  /\ Len(report) \in Nat
  /\ TakenByBytes \in Int /\ TakenByPriv \in Int /\ TakenByHost \in Int

StreamFacts ==
  /\ buf["h2b"] \in Seq(Unit) /\ buf["b2p"] \in Seq(Unit) /\ buf["p2h"] \in Seq(Unit)
  /\ got["bytes"] \in Seq(Entry) /\ got["priv"] \in Seq(Entry)
  /\ report \in Seq(Unit)

LEMMA Lengths == TypeOK => LengthFacts /\ StreamFacts
<1> SUFFICES ASSUME TypeOK PROVE LengthFacts /\ StreamFacts
  OBVIOUS
<1>1. N \in Nat /\ sent \in Nat /\ sent <= N + 2
  BY FileSetFacts DEF TypeOK
<1>2. /\ buf["h2b"] \in Seq(Unit) /\ buf["b2p"] \in Seq(Unit) /\ buf["p2h"] \in Seq(Unit)
      /\ got["bytes"] \in Seq(Entry) /\ got["priv"] \in Seq(Entry)
      /\ gave["bytes"] \in Nat /\ gave["priv"] \in Nat
      /\ report \in Seq(Unit)
  BY DEF TypeOK, Pipe, Children
<1>3. /\ Len(buf["h2b"]) \in Nat /\ Len(buf["b2p"]) \in Nat /\ Len(buf["p2h"]) \in Nat
      /\ Len(got["bytes"]) \in Nat /\ Len(got["priv"]) \in Nat /\ Len(report) \in Nat
  BY <1>2
<1> QED
  BY <1>1, <1>2, <1>3 DEF LengthFacts, StreamFacts, TakenByBytes, TakenByPriv, TakenByHost

\* What Append and Tail do, at each index.
LEMMA AppendFacts ==
  ASSUME NEW S, NEW s \in Seq(S), NEW u \in S, NEW r, r = Append(s, u)
  PROVE  /\ r \in Seq(S) /\ Len(r) = Len(s) + 1
         /\ \A j \in 1 .. Len(s) : r[j] = s[j]
         /\ r[Len(s) + 1] = u
BY AppendProperties

LEMMA TailFacts ==
  ASSUME NEW S, NEW s \in Seq(S), s # <<>>, NEW r, r = Tail(s)
  PROVE  /\ r \in Seq(S) /\ Len(r) = Len(s) - 1 /\ Len(s) >= 1
         /\ \A j \in 1 .. Len(r) : r[j] = s[j + 1]
         /\ Head(s) = s[1] /\ Head(s) \in S
BY HeadTailProperties

LEMMA SumOfDifference ==
  ASSUME NEW a \in Nat, NEW b \in Nat
  PROVE  (a - b) + (b + 1) = a + 1
OBVIOUS

LEMMA NothingLeft ==
  ASSUME NEW a \in Nat, NEW b \in Nat, NEW n \in Nat, a <= n + 2, a - b = n + 2
  PROVE  b = 0
OBVIOUS

LEMMA FlowInit == Init => FlowInv
<1> SUFFICES ASSUME Init PROVE FlowInv
  OBVIOUS
<1>1. N \in Nat
  BY FileSetFacts DEF Init
<1>2. TakenByBytes = 0 /\ TakenByPriv = 0 /\ TakenByHost = 0
  <2>1. buf["h2b"] = <<>> /\ buf["b2p"] = <<>> /\ buf["p2h"] = <<>>
    BY DEF Init, Pipe
  <2>2. sent = 0 /\ gave["bytes"] = 0 /\ gave["priv"] = 0
    BY DEF Init, Children
  <2>3. \A s : s = <<>> => Len(s) = 0
    BY EmptySeq
  <2>4. Len(buf["h2b"]) = 0 /\ Len(buf["b2p"]) = 0 /\ Len(buf["p2h"]) = 0
    BY <2>1, <2>3
  <2> QED
    BY <2>2, <2>4 DEF TakenByBytes, TakenByPriv, TakenByHost
<1>3. H2bFlow /\ B2pFlow /\ P2hFlow
  BY <1>2 DEF Init, H2bFlow, B2pFlow, P2hFlow, Pipe
<1>4. BytesFlow /\ PrivFlow
  BY <1>1, <1>2 DEF Init, BytesFlow, PrivFlow, InOrder, Children
<1>5. HostFlow /\ OkMeansComplete
  BY DEF Init, HostFlow, OkMeansComplete, Children
<1> QED
  BY <1>3, <1>4, <1>5 DEF FlowInv

\* Which parts of the invariant a step can disturb.
LEMMA H2bStable ==
  ASSUME H2bFlow, UNCHANGED <<fileset, sent>>, buf'["h2b"] = buf["h2b"]
  PROVE  H2bFlow' /\ TakenByBytes' = TakenByBytes
BY DEF H2bFlow, TakenByBytes, FrameUnit, N

LEMMA BytesStable ==
  ASSUME BytesFlow, UNCHANGED <<fileset, sent>>, buf'["h2b"] = buf["h2b"],
         got'["bytes"] = got["bytes"], gave'["bytes"] = gave["bytes"],
         child'["bytes"] = child["bytes"]
  PROVE  BytesFlow'
BY DEF BytesFlow, TakenByBytes, InOrder, N

LEMMA B2pStable ==
  ASSUME B2pFlow, buf'["b2p"] = buf["b2p"],
         got'["bytes"] = got["bytes"], gave'["bytes"] = gave["bytes"]
  PROVE  B2pFlow' /\ TakenByPriv' = TakenByPriv
BY DEF B2pFlow, TakenByPriv, IpcUnit

LEMMA PrivStable ==
  ASSUME PrivFlow, UNCHANGED fileset, buf'["b2p"] = buf["b2p"], gave'["bytes"] = gave["bytes"],
         got'["priv"] = got["priv"], gave'["priv"] = gave["priv"], child'["priv"] = child["priv"]
  PROVE  PrivFlow'
BY DEF PrivFlow, TakenByPriv, InOrder, N

LEMMA P2hStable ==
  ASSUME P2hFlow, UNCHANGED report, buf'["p2h"] = buf["p2h"],
         got'["priv"] = got["priv"], gave'["priv"] = gave["priv"]
  PROVE  P2hFlow'
BY DEF P2hFlow, TakenByHost, ReportUnit

\* A child that has yet to exit excludes an Ok answer, before and after a step
\* of its own.
LEMMA NotYetOk ==
  ASSUME FlowInv, UNCHANGED result, NEW c \in Children, ~Exited(c)
  PROVE  OkMeansComplete'
BY DEF FlowInv, OkMeansComplete, Exited

\* Host steps that move no data and change no child.
LEMMA FlowHostQuiet ==
  ASSUME FlowInv, UNCHANGED <<fileset, buf, sent, report, child, got, gave>>,
         HostFlow', OkMeansComplete'
  PROVE  FlowInv'
BY H2bStable, BytesStable, B2pStable, PrivStable, P2hStable DEF FlowInv

LEMMA FlowSpawns ==
  ASSUME WireInv, FlowInv, SpawnBytes \/ SpawnPriv
  PROVE  FlowInv'
<1>0. TypeOK
  BY DEF WireInv
<1>1. UNCHANGED <<fileset, buf, sent, report, got, gave, result>> /\ N' = N
  BY DEF SpawnBytes, SpawnPriv, N
<1>2. H2bFlow' /\ B2pFlow' /\ P2hFlow'
  BY <1>1, H2bStable, B2pStable, P2hStable DEF FlowInv
<1>3. CASE SpawnBytes
  <2>1. child' = [child EXCEPT !["bytes"] = "reading"] /\ child["bytes"] = "unborn"
    BY <1>3 DEF SpawnBytes, FlowInv, HostFlow
  <2>2. child'["bytes"] = "reading" /\ child'["priv"] = child["priv"]
    BY <1>0, <2>1 DEF TypeOK, Children
  <2>3. BytesFlow'
    BY <1>1, <2>1, <2>2 DEF FlowInv, BytesFlow, TakenByBytes, InOrder
  <2>4. PrivFlow'
    BY <1>1, <2>2, PrivStable DEF FlowInv
  <2>5. HostFlow' /\ OkMeansComplete'
    BY <1>1, <1>3, <2>2 DEF FlowInv, HostFlow, OkMeansComplete, SpawnBytes
  <2> QED
    BY <1>2, <2>3, <2>4, <2>5 DEF FlowInv
<1>4. CASE SpawnPriv
  <2>1. child' = [child EXCEPT !["priv"] = "reading"] /\ child["priv"] = "unborn"
    BY <1>4 DEF SpawnPriv, FlowInv, HostFlow
  <2>2. child'["priv"] = "reading" /\ child'["bytes"] = child["bytes"]
    BY <1>0, <2>1 DEF TypeOK, Children
  <2>3. BytesFlow'
    BY <1>1, <2>2, BytesStable DEF FlowInv
  <2>4. PrivFlow'
    BY <1>1, <2>1, <2>2 DEF FlowInv, PrivFlow, TakenByPriv, InOrder
  <2>5. HostFlow' /\ OkMeansComplete'
    BY <1>1, <1>4, <2>2 DEF FlowInv, HostFlow, OkMeansComplete, SpawnPriv, Children
  <2> QED
    BY <1>2, <2>3, <2>4, <2>5 DEF FlowInv
<1> QED
  BY <1>3, <1>4

LEMMA FlowQuietHost ==
  ASSUME WireInv, FlowInv,
         \/ CreatePipe("pipe1", "h2b", "pipe2")
         \/ CreatePipe("pipe2", "b2p", "pipe3")
         \/ CreatePipe("pipe3", "p2h", "spawn_bytes")
         \/ DropHandedOut \/ DropStdin \/ WaitBytes
         \/ PipeFails \/ SpawnFails \/ WriteFails
  PROVE  FlowInv'
<1>1. UNCHANGED <<fileset, buf, sent, report, child, got, gave>>
  BY DEF CreatePipe, DropHandedOut, DropStdin, WaitBytes, PipeFails, SpawnFails, WriteFails
<1>2. N' = N
  BY <1>1 DEF N
<1>3. CASE \/ CreatePipe("pipe1", "h2b", "pipe2")
           \/ CreatePipe("pipe2", "b2p", "pipe3")
           \/ CreatePipe("pipe3", "p2h", "spawn_bytes")
  BY <1>1, <1>2, <1>3, FlowHostQuiet
  DEF FlowInv, HostFlow, OkMeansComplete, Exited, CreatePipe
<1>4. CASE DropHandedOut \/ DropStdin \/ WaitBytes
  BY <1>1, <1>2, <1>4, FlowHostQuiet
  DEF FlowInv, HostFlow, OkMeansComplete, Exited, DropHandedOut, DropStdin, WaitBytes
<1>5. CASE PipeFails \/ SpawnFails \/ WriteFails
  BY <1>1, <1>2, <1>5, FlowHostQuiet
  DEF FlowInv, HostFlow, OkMeansComplete, Exited, PipeFails, SpawnFails, WriteFails, Return
<1> QED
  BY <1>3, <1>4, <1>5

LEMMA FlowWriteFrame == ASSUME WireInv, FlowInv, WriteFrame PROVE FlowInv'
<1>0. TypeOK
  BY DEF WireInv
<1>a. LengthFacts
  BY <1>0, Lengths
<1>b. StreamFacts
  BY <1>0, Lengths
<1>1. /\ UNCHANGED <<fileset, report, child, got, gave, host, result>>
      /\ N' = N /\ sent' = sent + 1 /\ host = "write"
  BY DEF WriteFrame, N
<1>2. buf' = [buf EXCEPT !["h2b"] = Append(@, FrameUnit(sent + 1))]
  BY DEF WriteFrame, Put, WriteEnd
<1>3. /\ buf'["h2b"] = Append(buf["h2b"], FrameUnit(sent + 1))
      /\ buf'["b2p"] = buf["b2p"] /\ buf'["p2h"] = buf["p2h"]
  BY <1>0, <1>2 DEF TypeOK, Pipe
<1>4. /\ Len(buf'["h2b"]) = Len(buf["h2b"]) + 1
      /\ \A j \in 1 .. Len(buf["h2b"]) : buf'["h2b"][j] = buf["h2b"][j]
      /\ buf'["h2b"][Len(buf["h2b"]) + 1] = FrameUnit(sent + 1)
  <2>1. FrameUnit(sent + 1) \in Unit
    BY <1>0, <1>a, UnitTypes DEF WriteFrame, LengthFacts
  <2> QED
    BY <1>b, <1>3, <2>1, AppendFacts DEF StreamFacts
<1>5. TakenByBytes' = TakenByBytes
  BY <1>a, <1>1, <1>4 DEF TakenByBytes, LengthFacts
<1>6. H2bFlow'
  <2>1. \A i : FrameUnit(i)' = FrameUnit(i)
    BY <1>1 DEF FrameUnit
  <2>2. TakenByBytes + (Len(buf["h2b"]) + 1) = sent + 1
    <3>1. sent \in Nat /\ Len(buf["h2b"]) \in Nat
      BY <1>a DEF LengthFacts
    <3> QED
      BY <3>1, SumOfDifference DEF TakenByBytes
  <2>3. \A j \in 1 .. Len(buf["h2b"]) : buf'["h2b"][j] = FrameUnit(TakenByBytes + j)
    BY <1>4 DEF FlowInv, H2bFlow
  <2>4. \A j \in 1 .. Len(buf["h2b"]) + 1 :
          j \in 1 .. Len(buf["h2b"]) \/ j = Len(buf["h2b"]) + 1
    BY <1>a DEF LengthFacts
  <2>5. \A j \in 1 .. Len(buf["h2b"]) + 1 : buf'["h2b"][j] = FrameUnit(TakenByBytes + j)
    BY <1>a, <1>4, <2>2, <2>3, <2>4 DEF LengthFacts
  <2> QED
    BY <1>4, <1>5, <2>1, <2>5 DEF FlowInv, H2bFlow
<1>7. BytesFlow'
  BY <1>1, <1>5 DEF FlowInv, BytesFlow, InOrder
<1>8. B2pFlow' /\ PrivFlow' /\ P2hFlow'
  BY <1>1, <1>3, B2pStable, PrivStable, P2hStable DEF FlowInv
<1>9. HostFlow' /\ OkMeansComplete'
  BY <1>1, <1>3 DEF FlowInv, HostFlow, OkMeansComplete, Exited
<1> QED
  BY <1>6, <1>7, <1>8, <1>9 DEF FlowInv

LEMMA FlowReadReport == ASSUME WireInv, FlowInv, ReadReport PROVE FlowInv'
<1>0. TypeOK
  BY DEF WireInv
<1>a. LengthFacts
  BY <1>0, Lengths
<1>b. StreamFacts
  BY <1>0, Lengths
<1>1. /\ UNCHANGED <<fileset, sent, child, got, gave, host, result>>
      /\ N' = N /\ host = "read"
      /\ report' = Append(report, Head(buf["p2h"]))
  BY DEF ReadReport, N
<1>2. buf["p2h"] # <<>> /\ buf' = [buf EXCEPT !["p2h"] = Tail(@)]
  BY DEF ReadReport, Readable, Pop, ReadEnd
<1>3. buf'["p2h"] = Tail(buf["p2h"]) /\ buf'["h2b"] = buf["h2b"] /\ buf'["b2p"] = buf["b2p"]
  BY <1>0, <1>2 DEF TypeOK, Pipe
<1>4. /\ Len(buf'["p2h"]) = Len(buf["p2h"]) - 1
      /\ \A j \in 1 .. Len(buf'["p2h"]) : buf'["p2h"][j] = buf["p2h"][j + 1]
      /\ Head(buf["p2h"]) = buf["p2h"][1] /\ 1 \in 1 .. Len(buf["p2h"])
      /\ Head(buf["p2h"]) \in Unit
  <2>1. /\ Len(buf'["p2h"]) = Len(buf["p2h"]) - 1 /\ Len(buf["p2h"]) >= 1
        /\ \A j \in 1 .. Len(buf'["p2h"]) : buf'["p2h"][j] = buf["p2h"][j + 1]
        /\ Head(buf["p2h"]) = buf["p2h"][1] /\ Head(buf["p2h"]) \in Unit
    <3>1. /\ buf["p2h"] \in Seq(Unit) /\ buf["p2h"] # <<>>
          /\ buf'["p2h"] = Tail(buf["p2h"])
      BY <1>b, <1>2, <1>3 DEF StreamFacts
    <3>2. ASSUME NEW s, s = buf["p2h"], NEW r, r = buf'["p2h"]
          PROVE  /\ Len(r) = Len(s) - 1 /\ Len(s) >= 1
                 /\ \A j \in 1 .. Len(r) : r[j] = s[j + 1]
                 /\ Head(s) = s[1] /\ Head(s) \in Unit
      BY <3>1, <3>2, TailFacts
    <3> QED
      BY <3>2, Zenon
  <2> QED
    BY <1>a, <2>1 DEF LengthFacts
<1>5. TakenByHost' = TakenByHost + 1
  BY <1>a, <1>1, <1>4 DEF TakenByHost, LengthFacts
<1>6. /\ Len(report') = Len(report) + 1
      /\ \A j \in 1 .. Len(report) : report'[j] = report[j]
      /\ report'[Len(report) + 1] = ReportUnit(TakenByHost + 1)
  <2>1. Head(buf["p2h"]) = ReportUnit(TakenByHost + 1)
    BY <1>a, <1>4 DEF FlowInv, P2hFlow, LengthFacts
  <2> QED
    BY <1>b, <1>1, <1>4, <2>1, AppendFacts DEF StreamFacts
<1>7. P2hFlow'
  <2>1. \A i : ReportUnit(i)' = ReportUnit(i)
    BY <1>1 DEF ReportUnit
  <2>2. \A j \in 1 .. Len(buf'["p2h"]) : buf'["p2h"][j] = ReportUnit(TakenByHost + 1 + j)
    BY <1>a, <1>4 DEF FlowInv, P2hFlow, LengthFacts
  <2>3. TakenByHost = Len(report) /\ Len(report) \in Nat
    BY <1>a DEF FlowInv, P2hFlow, LengthFacts
  <2>4. \A j \in 1 .. Len(report) : report[j] = ReportUnit(j)
    BY DEF FlowInv, P2hFlow
  <2>5. \A j \in 1 .. Len(report) + 1 : j \in 1 .. Len(report) \/ j = Len(report) + 1
    BY <2>3
  <2>6. \A j \in 1 .. Len(report') : report'[j] = ReportUnit(j)
    BY <1>6, <2>3, <2>4, <2>5
  <2> QED
    BY <1>5, <1>6, <2>1, <2>2, <2>3, <2>6 DEF P2hFlow
<1>8. H2bFlow' /\ BytesFlow' /\ B2pFlow' /\ PrivFlow'
  BY <1>1, <1>3, H2bStable, BytesStable, B2pStable, PrivStable DEF FlowInv
<1>9. HostFlow' /\ OkMeansComplete'
  BY <1>1 DEF FlowInv, HostFlow, OkMeansComplete, Exited
<1> QED
  BY <1>7, <1>8, <1>9 DEF FlowInv

\* End-of-file on the report pipe: the priv reader, which holds its write end
\* as FD 5 for as long as it runs, is gone.
LEMMA FlowStopReading == ASSUME WireInv, FlowInv, StopReading PROVE FlowInv'
<1>1. UNCHANGED <<fileset, buf, sent, report, child, got, gave, result>> /\ N' = N
  BY DEF StopReading, N
<1>2. host = "read" /\ host' = "wait_bytes" /\ buf["p2h"] = <<>> /\ ~Held(fd, WriteEnd("p2h"))
  BY DEF StopReading, ReportOver, AtEof, ReadEnd
<1>3. child["priv"] \notin {"reading", "writing"}
  <2>1. DOMAIN fd = Proc /\ 5 \in Fd
    BY MaxFdAssumption DEF WireInv, TypeOK, Fd
  <2> QED
    BY <1>2, <2>1 DEF WireInv, RolesCorrect, Out, OutFd, Held, Proc, Children
<1>4. Exited("priv")
  BY <1>2, <1>3 DEF WireInv, TypeOK, FlowInv, HostFlow, Exited, Children
<1>5. HostFlow' /\ OkMeansComplete'
  BY <1>1, <1>2, <1>4 DEF FlowInv, HostFlow, OkMeansComplete, Exited
<1> QED
  BY <1>1, <1>5, FlowHostQuiet

\* Both children ended well: everything written was read, and the report is
\* the complete one.
LEMMA FlowWaitPriv == ASSUME WireInv, FlowInv, WaitPriv PROVE FlowInv'
<1>0. TypeOK
  BY DEF WireInv
<1>a. LengthFacts
  BY <1>0, Lengths
<1>b. StreamFacts
  BY <1>0, Lengths
<1>1. /\ UNCHANGED <<fileset, buf, sent, report, child, got, gave>> /\ N' = N
      /\ host = "wait_priv" /\ host' = "done" /\ result' = Verdict
  BY DEF WaitPriv, Return, N
<1>2. HostFlow'
  BY <1>1 DEF HostFlow, Verdict
<1>3. ASSUME result' = "ok"
      PROVE  /\ report = [i \in 1 .. N + 1 |-> IF i <= N THEN <<"input", i>> ELSE <<"close", 0>>]
             /\ \A p \in Pipe : buf[p] = <<>>
             /\ \A c \in Children : child[c] = "ok"
  <2>1. \A c \in Children : child[c] = "ok"
    BY <1>1, <1>3 DEF Verdict
  <2>2. TakenByBytes = N + 2 /\ gave["bytes"] = N + 2
    BY <2>1 DEF FlowInv, BytesFlow, Children
  <2>3. TakenByPriv = N + 2 /\ gave["priv"] = N + 1 /\ Len(got["priv"]) = N /\ InOrder(got["priv"])
    BY <2>1 DEF FlowInv, PrivFlow, Children
  <2>4. buf["p2h"] = <<>>
    BY <1>1 DEF FlowInv, HostFlow
  <2>5. Len(buf["h2b"]) = 0 /\ Len(buf["b2p"]) = 0
    <3>1. sent - Len(buf["h2b"]) = N + 2 /\ (N + 2) - Len(buf["b2p"]) = N + 2
      BY <2>2, <2>3 DEF TakenByBytes, TakenByPriv
    <3>2. N \in Nat /\ sent \in Nat /\ sent <= N + 2
      BY <1>a DEF LengthFacts
    <3>3. Len(buf["h2b"]) \in Nat /\ Len(buf["b2p"]) \in Nat
      BY <1>a DEF LengthFacts
    <3>4. Len(buf["h2b"]) = 0
      BY <3>1, <3>2, <3>3, NothingLeft
    <3>5. N + 2 \in Nat /\ N + 2 <= N + 2
      BY <3>2
    <3>6. Len(buf["b2p"]) = 0
      BY <3>1, <3>2, <3>3, <3>5, NothingLeft
    <3> QED
      BY <3>4, <3>6
  <2>6. Len(report) = N + 1
    BY <1>a, <2>3, <2>4, EmptySeq DEF FlowInv, P2hFlow, TakenByHost, LengthFacts
  <2>7. \A i \in 1 .. N + 1 : report[i] = IF i <= N THEN <<"input", i>> ELSE <<"close", 0>>
    <3>1. \A i \in 1 .. N + 1 : report[i] = ReportUnit(i)
      BY <2>6 DEF FlowInv, P2hFlow
    <3>2. \A i \in 1 .. N : got["priv"][i] = i
      BY <2>3 DEF InOrder
    <3>3. \A i \in 1 .. N + 1 : ReportUnit(i) = IF i <= N THEN <<"input", i>> ELSE <<"close", 0>>
      BY <1>a, <2>3, <3>2 DEF ReportUnit, LengthFacts
    <3> QED
      BY <3>1, <3>3
  <2>8. report = [i \in 1 .. N + 1 |-> IF i <= N THEN <<"input", i>> ELSE <<"close", 0>>]
    BY <1>b, <2>6, <2>7, LenProperties DEF StreamFacts
  <2>9. buf["h2b"] = <<>> /\ buf["b2p"] = <<>>
    BY <1>b, <2>5, EmptySeq DEF StreamFacts
  <2> QED
    BY <2>1, <2>4, <2>8, <2>9 DEF Pipe
<1>4. OkMeansComplete'
  BY <1>1, <1>3 DEF OkMeansComplete
<1> QED
  BY <1>1, <1>2, <1>4, FlowHostQuiet

LEMMA FlowHost == ASSUME WireInv, FlowInv, HostNext PROVE FlowInv'
BY FlowQuietHost, FlowSpawns, FlowWriteFrame, FlowReadReport, FlowStopReading, FlowWaitPriv
DEF HostNext

-----------------------------------------------------------------------------
(* The children's steps.                                                   *)

\* Taking the head of pipe p.
LEMMA PopFrom ==
  ASSUME TypeOK, NEW p \in Pipe, buf[p] # <<>>, buf' = [buf EXCEPT ![p] = Tail(@)]
  PROVE  /\ Len(buf[p]) \in Nat /\ Len(buf[p]) >= 1
         /\ Len(buf'[p]) = Len(buf[p]) - 1
         /\ \A j \in 1 .. Len(buf'[p]) : buf'[p][j] = buf[p][j + 1]
         /\ Head(buf[p]) = buf[p][1] /\ 1 \in 1 .. Len(buf[p])
         /\ \A q \in Pipe \ {p} : buf'[q] = buf[q]
<1>1. buf[p] \in Seq(Unit) /\ buf'[p] = Tail(buf[p]) /\ \A q \in Pipe \ {p} : buf'[q] = buf[q]
  BY DEF TypeOK
<1>2. ASSUME NEW s, s = buf[p], NEW r, r = buf'[p]
      PROVE  /\ Len(s) \in Nat /\ Len(r) = Len(s) - 1 /\ Len(s) >= 1
             /\ \A j \in 1 .. Len(r) : r[j] = s[j + 1]
             /\ Head(s) = s[1] /\ 1 \in 1 .. Len(s)
  <2>1. s \in Seq(Unit) /\ Len(s) \in Nat
    BY <1>1, <1>2
  <2>2. /\ Len(r) = Len(s) - 1 /\ Len(s) >= 1
        /\ \A j \in 1 .. Len(r) : r[j] = s[j + 1]
        /\ Head(s) = s[1]
    BY <1>1, <1>2, <2>1, TailFacts
  <2> QED
    BY <2>1, <2>2
<1>3. /\ Len(buf[p]) \in Nat /\ Len(buf'[p]) = Len(buf[p]) - 1 /\ Len(buf[p]) >= 1
      /\ \A j \in 1 .. Len(buf'[p]) : buf'[p][j] = buf[p][j + 1]
      /\ Head(buf[p]) = buf[p][1] /\ 1 \in 1 .. Len(buf[p])
  BY <1>2, Zenon
<1>4. \A q \in Pipe \ {p} : buf'[q] = buf[q]
  BY <1>1
<1> QED
  BY <1>3, <1>4, Zenon

\* A number less, on both sides of the difference.
LEMMA TakeOne ==
  ASSUME NEW a \in Nat, NEW b \in Nat, b >= 1, NEW c, c = b - 1
  PROVE  a - c = (a - b) + 1
OBVIOUS

LEMMA H2bPop ==
  ASSUME TypeOK, H2bFlow, UNCHANGED <<fileset, sent>>,
         buf["h2b"] # <<>>, buf' = [buf EXCEPT !["h2b"] = Tail(@)]
  PROVE  /\ H2bFlow' /\ TakenByBytes \in Nat
         /\ TakenByBytes' = TakenByBytes + 1
         /\ Head(buf["h2b"]) = FrameUnit(TakenByBytes + 1)
         /\ buf'["b2p"] = buf["b2p"] /\ buf'["p2h"] = buf["p2h"]
<1> DEFINE s == buf["h2b"]
           r == buf'["h2b"]
<1>1. /\ Len(s) \in Nat /\ Len(s) >= 1 /\ Len(r) = Len(s) - 1
      /\ \A j \in 1 .. Len(r) : r[j] = s[j + 1]
      /\ Head(s) = s[1] /\ 1 \in 1 .. Len(s)
      /\ buf'["b2p"] = buf["b2p"] /\ buf'["p2h"] = buf["p2h"]
  BY PopFrom DEF Pipe
<1>2. sent \in Nat
  BY Lengths DEF LengthFacts
<1>3. TakenByBytes' = TakenByBytes + 1
  BY <1>1, <1>2, TakeOne DEF TakenByBytes
<1>4. TakenByBytes \in Nat
  <2>1. sent - Len(s) \in Int
    BY <1>1, <1>2
  <2> QED
    BY <2>1 DEF H2bFlow, TakenByBytes
<1>5. \A j \in 1 .. Len(s) : s[j] = FrameUnit(TakenByBytes + j)
  BY DEF H2bFlow
<1>6. \A i : FrameUnit(i)' = FrameUnit(i)
  BY DEF FrameUnit, N
<1>7. \A j \in 1 .. Len(r) : r[j] = FrameUnit(TakenByBytes + 1 + j)
  <2> HIDE DEF s, r
  <2> TAKE j \in 1 .. Len(r)
  <2>1. j + 1 \in 1 .. Len(s) /\ r[j] = s[j + 1]
    BY <1>1
  <2>2. TakenByBytes + (j + 1) = TakenByBytes + 1 + j
    BY <1>4
  <2> QED
    BY <1>5, <2>1, <2>2
<1>8. H2bFlow'
  <2>1. TakenByBytes + 1 >= 0
    BY <1>4
  <2> QED
    BY <1>3, <1>6, <1>7, <2>1 DEF H2bFlow
<1> QED
  BY <1>1, <1>3, <1>4, <1>5, <1>8

LEMMA B2pPop ==
  ASSUME TypeOK, B2pFlow, got'["bytes"] = got["bytes"], gave'["bytes"] = gave["bytes"],
         buf["b2p"] # <<>>, buf' = [buf EXCEPT !["b2p"] = Tail(@)]
  PROVE  /\ B2pFlow' /\ TakenByPriv \in Nat
         /\ TakenByPriv' = TakenByPriv + 1
         /\ Head(buf["b2p"]) = IpcUnit(TakenByPriv + 1)
         /\ gave["bytes"] > 0
         /\ buf'["h2b"] = buf["h2b"] /\ buf'["p2h"] = buf["p2h"]
<1> DEFINE s == buf["b2p"]
           r == buf'["b2p"]
<1>1. /\ Len(s) \in Nat /\ Len(s) >= 1 /\ Len(r) = Len(s) - 1
      /\ \A j \in 1 .. Len(r) : r[j] = s[j + 1]
      /\ Head(s) = s[1] /\ 1 \in 1 .. Len(s)
      /\ buf'["h2b"] = buf["h2b"] /\ buf'["p2h"] = buf["p2h"]
  BY PopFrom DEF Pipe
<1>2. gave["bytes"] \in Nat
  BY Lengths DEF LengthFacts
<1>3. TakenByPriv' = TakenByPriv + 1
  BY <1>1, <1>2, TakeOne DEF TakenByPriv
<1>4. TakenByPriv \in Nat /\ gave["bytes"] > 0
  <2>1. gave["bytes"] - Len(s) \in Int /\ (gave["bytes"] - Len(s) >= 0 => gave["bytes"] > 0)
    <3> HIDE DEF s
    <3> QED
      BY <1>1, <1>2
  <2> QED
    BY <2>1 DEF B2pFlow, TakenByPriv
<1>5. \A j \in 1 .. Len(s) : s[j] = IpcUnit(TakenByPriv + j)
  BY DEF B2pFlow
<1>6. \A i : IpcUnit(i)' = IpcUnit(i)
  BY DEF IpcUnit
<1>7. \A j \in 1 .. Len(r) : r[j] = IpcUnit(TakenByPriv + 1 + j)
  <2> HIDE DEF s, r
  <2> TAKE j \in 1 .. Len(r)
  <2>1. j + 1 \in 1 .. Len(s) /\ r[j] = s[j + 1]
    BY <1>1
  <2>2. TakenByPriv + (j + 1) = TakenByPriv + 1 + j
    BY <1>4
  <2> QED
    BY <1>5, <2>1, <2>2
<1>8. B2pFlow'
  <2>1. TakenByPriv + 1 >= 0
    BY <1>4
  <2> QED
    BY <1>3, <1>6, <1>7, <2>1 DEF B2pFlow
<1> QED
  BY <1>1, <1>3, <1>4, <1>5, <1>8

\* A running child that goes on or ends leaves the host where it is.
LEMMA HostStable ==
  ASSUME TypeOK, HostFlow, UNCHANGED <<fileset, host, result, sent>>,
         NEW c \in Children, child[c] \in {"reading", "writing"},
         NEW x \in {"reading", "writing", "ok", "failed"},
         child' = [child EXCEPT ![c] = x],
         c = "priv" \/ buf'["p2h"] = buf["p2h"]
  PROVE  HostFlow'
<1>1. child'[c] = x /\ \A d \in Children \ {c} : child'[d] = child[d]
  BY DEF TypeOK
<1>2. N' = N
  BY DEF N
<1>3. host \notin {"pipe1", "pipe2", "pipe3", "spawn_bytes"}
      /\ (host = "spawn_priv" => c = "bytes")
  BY DEF HostFlow, Children
<1>4. host \in {"wait_bytes", "wait_priv"} => buf'["p2h"] = <<>> /\ c = "bytes"
  BY DEF HostFlow, Exited, Children
<1>5. host = "wait_priv" => FALSE
  BY <1>4 DEF HostFlow, Exited
<1> QED
  BY <1>1, <1>2, <1>3, <1>4, <1>5 DEF HostFlow, Exited, Children

\* A child that ends badly, having taken a last unit or not, promises nothing.
LEMMA FlowFailed ==
  ASSUME WireInv, FlowInv, UNCHANGED <<fileset, host, result, sent, report, got, gave>>,
         NEW c \in Children, child[c] \in {"reading", "writing"},
         child' = [child EXCEPT ![c] = "failed"],
         \/ UNCHANGED buf
         \/ c = "bytes" /\ buf["h2b"] # <<>> /\ buf' = [buf EXCEPT !["h2b"] = Tail(@)]
  PROVE  FlowInv'
<1>0. TypeOK
  BY DEF WireInv
<1>1. H2bFlow' /\ buf'["b2p"] = buf["b2p"] /\ buf'["p2h"] = buf["p2h"]
      /\ (c = "priv" => buf'["h2b"] = buf["h2b"])
  BY <1>0, H2bPop, H2bStable DEF FlowInv
<1>2. B2pFlow' /\ P2hFlow' /\ N' = N
  BY <1>1, B2pStable, P2hStable DEF FlowInv, N
<1>3. HostFlow' /\ OkMeansComplete'
  BY <1>0, <1>1, HostStable, NotYetOk DEF FlowInv, Exited
<1>4. BytesFlow'
  <2>1. CASE c = "bytes"
    <3>1. child'["bytes"] = "failed"
      BY <1>0, <2>1 DEF TypeOK
    <3> QED
      BY <1>2, <3>1 DEF FlowInv, BytesFlow, InOrder
  <2>2. CASE c = "priv"
    <3>1. child'["bytes"] = child["bytes"]
      BY <1>0, <2>2 DEF TypeOK, Children
    <3> QED
      BY <1>1, <2>2, <3>1, BytesStable DEF FlowInv
  <2> QED
    BY <2>1, <2>2 DEF Children
<1>5. PrivFlow'
  <2>1. CASE c = "priv"
    <3>1. child'["priv"] = "failed"
      BY <1>0, <2>1 DEF TypeOK
    <3> QED
      BY <1>2, <3>1 DEF FlowInv, PrivFlow, InOrder
  <2>2. CASE c = "bytes"
    <3>1. child'["priv"] = child["priv"]
      BY <1>0, <2>2 DEF TypeOK, Children
    <3> QED
      BY <1>1, <3>1, PrivStable DEF FlowInv
  <2> QED
    BY <2>1, <2>2 DEF Children
<1> QED
  BY <1>1, <1>2, <1>3, <1>4, <1>5 DEF FlowInv

LEMMA FlowKilled ==
  ASSUME WireInv, FlowInv, NEW c \in Children, Killed(c)
  PROVE  FlowInv'
BY FlowFailed DEF Killed, Exit, HostUnchanged

LEMMA FlowBytesFails ==
  ASSUME WireInv, FlowInv, BytesRefuses \/ BytesCutShort
  PROVE  FlowInv'
<1>1. child["bytes"] = "reading" /\ In("bytes")[1] = "h2b"
  BY DEF BytesRefuses, BytesCutShort, WireInv, RolesCorrect, ReadEnd
<1>2. /\ UNCHANGED <<fileset, host, result, sent, report, got, gave>>
      /\ child' = [child EXCEPT !["bytes"] = "failed"]
  BY DEF BytesRefuses, BytesCutShort, Exit, HostUnchanged
<1>3. \/ UNCHANGED buf
      \/ buf["h2b"] # <<>> /\ buf' = [buf EXCEPT !["h2b"] = Tail(@)]
  BY <1>1 DEF BytesRefuses, BytesCutShort, Readable, Pop
<1> QED
  BY <1>1, <1>2, <1>3, FlowFailed DEF Children

\* One entry more, in its place.
LEMMA OneMore ==
  ASSUME NEW S, NEW s \in Seq(S), InOrder(s), NEW k \in S, k \in Nat, Len(s) = k - 1,
         NEW r, r = Append(s, k)
  PROVE  InOrder(r) /\ Len(r) = k
<1>1. /\ Len(r) = Len(s) + 1
      /\ \A j \in 1 .. Len(s) : r[j] = s[j]
      /\ r[Len(s) + 1] = k
  BY AppendFacts
<1>2. Len(s) \in Nat
  OBVIOUS
<1>3. Len(r) = k /\ Len(s) + 1 = k
  BY <1>1, <1>2
<1>4. \A j \in 1 .. k : j \in 1 .. Len(s) \/ j = k
  BY <1>2, <1>3
<1> QED
  BY <1>1, <1>3, <1>4 DEF InOrder

\* What the bytes reader finds next, given how much it has taken.
LEMMA NextFrame ==
  ASSUME TypeOK, TakenByBytes \in Nat, TakenByBytes <= N + 1,
         NEW u, u = FrameUnit(TakenByBytes + 1)
  PROVE  /\ TakenByBytes = 0 => u = <<"header", 0>>
         /\ TakenByBytes \in 1 .. N => u = <<"entry", TakenByBytes>>
         /\ TakenByBytes = N + 1 => u = <<"trailer", 0>>
<1>1. N \in Nat
  BY Lengths DEF LengthFacts
<1> QED
  BY <1>1 DEF FrameUnit

LEMMA FlowBytesDecodes == ASSUME WireInv, FlowInv, BytesDecodes PROVE FlowInv'
<1> DEFINE u == Head(buf["h2b"])
           k == TakenByBytes
<1>0. TypeOK
  BY DEF WireInv
<1>1. child["bytes"] = "reading" /\ In("bytes")[1] = "h2b"
  BY DEF BytesDecodes, WireInv, RolesCorrect, ReadEnd
<1>2. /\ UNCHANGED <<fileset, host, result, sent, report, child, gave>>
      /\ N' = N /\ got'["priv"] = got["priv"]
  BY <1>0 DEF BytesDecodes, HostUnchanged, N, TypeOK, Children
<1>3. buf["h2b"] # <<>> /\ buf' = [buf EXCEPT !["h2b"] = Tail(@)] /\ u[1] # "trailer"
  BY <1>1 DEF BytesDecodes, Readable, Pop
<1>4. got'["bytes"] = IF u[1] = "entry" THEN Append(got["bytes"], u[2]) ELSE got["bytes"]
  BY <1>0, <1>1 DEF BytesDecodes, TypeOK, Children
<1>5. /\ H2bFlow' /\ k \in Nat /\ TakenByBytes' = k + 1 /\ u = FrameUnit(k + 1)
      /\ buf'["b2p"] = buf["b2p"] /\ buf'["p2h"] = buf["p2h"]
  BY <1>0, <1>2, <1>3, H2bPop DEF FlowInv
<1>6. /\ k <= N + 1 /\ gave["bytes"] = 0 /\ InOrder(got["bytes"])
      /\ Len(got["bytes"]) = IF k = 0 THEN 0 ELSE k - 1
  BY <1>1 DEF FlowInv, BytesFlow
<1>7. N \in Nat /\ N <= MaxFiles /\ got["bytes"] \in Seq(Entry)
  BY <1>0, Lengths, FileSetFacts DEF LengthFacts, StreamFacts, TypeOK
<1> HIDE DEF k, u
<1>8. (k = 0 => u = <<"header", 0>>) /\ (k \in 1 .. N => u = <<"entry", k>>)
      /\ (k = N + 1 => u = <<"trailer", 0>>)
  BY <1>0, <1>5, <1>6, NextFrame DEF k
<1>9. k <= N
  <2>1. k # N + 1
    BY <1>3, <1>8
  <2> QED
    BY <1>5, <1>6, <1>7, <2>1
<1>10. InOrder(got'["bytes"]) /\ Len(got'["bytes"]) = k
  <2>1. CASE k = 0
    BY <1>4, <1>6, <1>8, <2>1
  <2>2. CASE k \in 1 .. N
    <3>1. k \in Entry /\ Len(got["bytes"]) = k - 1
      BY <1>5, <1>6, <1>7, <2>2, MaxFilesAssumption DEF Entry
    <3>2. got'["bytes"] = Append(got["bytes"], k)
      BY <1>4, <1>8, <2>2
    <3> QED
      BY <1>5, <1>6, <1>7, <3>1, <3>2, OneMore
  <2> QED
    BY <1>5, <1>7, <1>9, <2>1, <2>2
<1>11. BytesFlow'
  <2>1. k + 1 <= N + 1 /\ k + 1 # 0 /\ (k + 1) - 1 = k /\ 0 <= N + 2
    BY <1>5, <1>7, <1>9
  <2>2. gave'["bytes"] = 0 /\ child'["bytes"] = "reading" /\ ~(0 > 0)
    BY <1>1, <1>2, <1>6
  <2> QED
    BY <1>2, <1>5, <1>10, <2>1, <2>2 DEF BytesFlow
<1>12. B2pFlow' /\ TakenByPriv' = TakenByPriv
  <2>1. Len(buf["b2p"]) = 0
    <3>1. 0 - Len(buf["b2p"]) >= 0
      BY <1>6 DEF FlowInv, B2pFlow, TakenByPriv
    <3>2. Len(buf["b2p"]) \in Nat
      BY <1>0, Lengths DEF LengthFacts
    <3>3. \A x \in Nat : 0 - x >= 0 => x = 0
      OBVIOUS
    <3> QED
      BY <3>1, <3>2, <3>3
  <2>2. TakenByPriv' = TakenByPriv
    BY <1>2, <1>5 DEF TakenByPriv
  <2> QED
    BY <1>5, <2>1, <2>2 DEF FlowInv, B2pFlow
<1>13. PrivFlow' /\ P2hFlow'
  BY <1>2, <1>5, PrivStable, P2hStable DEF FlowInv
<1>14. HostFlow' /\ OkMeansComplete'
  BY <1>1, <1>2, <1>5, NotYetOk DEF FlowInv, HostFlow, Exited, Children
<1> QED
  BY <1>5, <1>11, <1>12, <1>13, <1>14 DEF FlowInv

LEMMA FlowBytesSeesTrailer == ASSUME WireInv, FlowInv, BytesSeesTrailer PROVE FlowInv'
<1> DEFINE u == Head(buf["h2b"])
           k == TakenByBytes
<1>0. TypeOK
  BY DEF WireInv
<1>1. child["bytes"] = "reading" /\ In("bytes")[1] = "h2b"
  BY DEF BytesSeesTrailer, WireInv, RolesCorrect, ReadEnd
<1>2. /\ UNCHANGED <<fileset, host, result, sent, report, got, gave>> /\ N' = N
      /\ child' = [child EXCEPT !["bytes"] = "writing"]
  BY DEF BytesSeesTrailer, HostUnchanged, N
<1>3. child'["bytes"] = "writing" /\ child'["priv"] = child["priv"]
  BY <1>0, <1>2 DEF TypeOK, Children
<1>4. buf["h2b"] # <<>> /\ buf' = [buf EXCEPT !["h2b"] = Tail(@)] /\ u[1] = "trailer"
  BY <1>1 DEF BytesSeesTrailer, Readable, Pop
<1>5. /\ H2bFlow' /\ k \in Nat /\ TakenByBytes' = k + 1 /\ u = FrameUnit(k + 1)
      /\ buf'["b2p"] = buf["b2p"] /\ buf'["p2h"] = buf["p2h"]
  BY <1>0, <1>2, <1>4, H2bPop DEF FlowInv
<1>6. /\ k <= N + 1 /\ gave["bytes"] = 0 /\ InOrder(got["bytes"])
      /\ Len(got["bytes"]) = IF k = 0 THEN 0 ELSE k - 1
  BY <1>1 DEF FlowInv, BytesFlow
<1>7. N \in Nat
  BY <1>0, Lengths DEF LengthFacts
<1> HIDE DEF k, u
<1>8. (k = 0 => u = <<"header", 0>>) /\ (k \in 1 .. N => u = <<"entry", k>>)
  BY <1>0, <1>5, <1>6, NextFrame DEF k
<1>9. k = N + 1
  <2>1. k # 0 /\ k \notin 1 .. N
    BY <1>4, <1>8
  <2> QED
    BY <1>5, <1>6, <1>7, <2>1
<1>10. BytesFlow'
  <2>1. k + 1 = N + 2 /\ k - 1 = N /\ k # 0 /\ 0 <= N + 2
    BY <1>5, <1>7, <1>9
  <2>2. Len(got["bytes"]) = N /\ gave'["bytes"] = 0
    BY <1>2, <1>6, <2>1
  <2> QED
    BY <1>2, <1>3, <1>5, <1>6, <2>1, <2>2 DEF BytesFlow
<1>11. B2pFlow' /\ PrivFlow' /\ P2hFlow'
  BY <1>2, <1>3, <1>5, B2pStable, PrivStable, P2hStable DEF FlowInv
<1>12. HostFlow' /\ OkMeansComplete'
  BY <1>0, <1>1, <1>2, <1>5, HostStable, NotYetOk DEF FlowInv, Exited, Children
<1> QED
  BY <1>5, <1>10, <1>11, <1>12 DEF FlowInv

\* What the priv reader finds next, given how much it has taken: as there is
\* something, the bytes reader has started to write, and decoded every entry.
LEMMA NextMessage ==
  ASSUME TypeOK, TakenByPriv \in Nat, TakenByPriv <= N + 1,
         Len(got["bytes"]) = N, InOrder(got["bytes"]),
         NEW u, u = IpcUnit(TakenByPriv + 1)
  PROVE  /\ TakenByPriv = 0 => u = <<"header", 0>>
         /\ TakenByPriv \in 1 .. N => u = <<"file", TakenByPriv>>
         /\ TakenByPriv = N + 1 => u = <<"end", 0>>
<1>1. N \in Nat
  BY Lengths DEF LengthFacts
<1>2. \A i \in 1 .. N : got["bytes"][i] = i
  BY DEF InOrder
<1> QED
  BY <1>1, <1>2 DEF IpcUnit

LEMMA FlowPrivTakes == ASSUME WireInv, FlowInv, PrivTakes PROVE FlowInv'
<1> DEFINE u == Head(buf["b2p"])
           k == TakenByPriv
<1>0. TypeOK
  BY DEF WireInv
<1>1. child["priv"] = "reading" /\ In("priv")[1] = "b2p"
  BY DEF PrivTakes, WireInv, RolesCorrect, ReadEnd
<1>2. /\ UNCHANGED <<fileset, host, result, sent, report, child, gave>>
      /\ N' = N /\ got'["bytes"] = got["bytes"]
  BY <1>0 DEF PrivTakes, HostUnchanged, N, TypeOK, Children
<1>3. buf["b2p"] # <<>> /\ buf' = [buf EXCEPT !["b2p"] = Tail(@)] /\ u[1] # "end"
  BY <1>1 DEF PrivTakes, Readable, Pop
<1>4. got'["priv"] = IF u[1] = "file" THEN Append(got["priv"], u[2]) ELSE got["priv"]
  BY <1>0, <1>1 DEF PrivTakes, IsFile, TypeOK, Children
<1>5. /\ B2pFlow' /\ k \in Nat /\ TakenByPriv' = k + 1 /\ u = IpcUnit(k + 1)
      /\ gave["bytes"] > 0 /\ buf'["h2b"] = buf["h2b"] /\ buf'["p2h"] = buf["p2h"]
  BY <1>0, <1>2, <1>3, B2pPop DEF FlowInv
<1>6. /\ k <= N + 1 /\ gave["priv"] = 0 /\ InOrder(got["priv"])
      /\ Len(got["priv"]) = IF k = 0 THEN 0 ELSE k - 1
      /\ Len(got["bytes"]) = N /\ InOrder(got["bytes"])
  BY <1>1, <1>5 DEF FlowInv, PrivFlow, BytesFlow
<1>7. N \in Nat /\ N <= MaxFiles /\ got["priv"] \in Seq(Entry)
  BY <1>0, Lengths, FileSetFacts DEF LengthFacts, StreamFacts, TypeOK
<1> HIDE DEF k, u
<1>8. (k = 0 => u = <<"header", 0>>) /\ (k \in 1 .. N => u = <<"file", k>>)
      /\ (k = N + 1 => u = <<"end", 0>>)
  BY <1>0, <1>5, <1>6, NextMessage DEF k
<1>9. k <= N
  <2>1. k # N + 1
    BY <1>3, <1>8
  <2> QED
    BY <1>5, <1>6, <1>7, <2>1
<1>10. InOrder(got'["priv"]) /\ Len(got'["priv"]) = k
  <2>1. CASE k = 0
    BY <1>4, <1>6, <1>8, <2>1
  <2>2. CASE k \in 1 .. N
    <3>1. k \in Entry /\ Len(got["priv"]) = k - 1
      BY <1>5, <1>6, <1>7, <2>2, MaxFilesAssumption DEF Entry
    <3>2. got'["priv"] = Append(got["priv"], k)
      BY <1>4, <1>8, <2>2
    <3> QED
      BY <1>5, <1>6, <1>7, <3>1, <3>2, OneMore
  <2> QED
    BY <1>5, <1>7, <1>9, <2>1, <2>2
<1>11. PrivFlow'
  <2>1. k + 1 <= N + 1 /\ k + 1 # 0 /\ (k + 1) - 1 = k
    BY <1>5, <1>7, <1>9
  <2>2. gave'["priv"] = 0 /\ child'["priv"] = "reading" /\ ~(0 > 0)
    BY <1>1, <1>2, <1>6
  <2> QED
    BY <1>2, <1>5, <1>10, <2>1, <2>2 DEF PrivFlow
<1>12. P2hFlow'
  <2>1. Len(buf["p2h"]) = 0 /\ Len(report) = 0
    <3>1. 0 - Len(buf["p2h"]) = Len(report)
      BY <1>6 DEF FlowInv, P2hFlow, TakenByHost
    <3>2. Len(buf["p2h"]) \in Nat /\ Len(report) \in Nat
      BY <1>0, Lengths DEF LengthFacts
    <3>3. \A x, y \in Nat : 0 - x = y => x = 0 /\ y = 0
      OBVIOUS
    <3> QED
      BY <3>1, <3>2, <3>3
  <2>2. TakenByHost' = TakenByHost
    BY <1>2, <1>5 DEF TakenByHost
  <2> QED
    BY <1>2, <1>5, <2>1, <2>2 DEF FlowInv, P2hFlow
<1>13. H2bFlow' /\ BytesFlow'
  BY <1>2, <1>5, H2bStable, BytesStable DEF FlowInv
<1>14. HostFlow' /\ OkMeansComplete'
  BY <1>1, <1>2, <1>5, NotYetOk DEF FlowInv, HostFlow, Exited, Children
<1> QED
  BY <1>5, <1>11, <1>12, <1>13, <1>14 DEF FlowInv

\* The priv reader never takes the end-of-file way out: it holds the write end.
LEMMA FlowPrivStopsReading == ASSUME WireInv, FlowInv, PrivStopsReading PROVE FlowInv'
<1> DEFINE u == Head(buf["b2p"])
           k == TakenByPriv
<1>0. TypeOK
  BY DEF WireInv
<1>1. child["priv"] = "reading" /\ In("priv") = ReadEnd("b2p") /\ In("priv")[1] = "b2p"
  BY DEF PrivStopsReading, WireInv, RolesCorrect, ReadEnd
<1>2. /\ UNCHANGED <<fileset, host, result, sent, report, got, gave>> /\ N' = N
      /\ child' = [child EXCEPT !["priv"] = "writing"]
  BY DEF PrivStopsReading, HostUnchanged, N
<1>3. child'["priv"] = "writing" /\ child'["bytes"] = child["bytes"]
  BY <1>0, <1>2 DEF TypeOK, Children
<1>4. buf["b2p"] # <<>> /\ buf' = [buf EXCEPT !["b2p"] = Tail(@)] /\ u[1] = "end"
  <2>1. ~AtEof(fd, buf, In("priv"))
    <3>1. "priv" \in DOMAIN fd
      BY <1>0 DEF TypeOK, Proc, Children
    <3> QED
      BY <1>1, <3>1 DEF AtEof, Held, WireInv, PrivKeepsWriteEnd
  <2>2. Readable(buf, In("priv"))
    BY <2>1 DEF PrivStopsReading
  <2> QED
    BY <1>1, <2>2 DEF PrivStopsReading, Readable, Pop
<1>5. /\ B2pFlow' /\ k \in Nat /\ TakenByPriv' = k + 1 /\ u = IpcUnit(k + 1)
      /\ gave["bytes"] > 0 /\ buf'["h2b"] = buf["h2b"] /\ buf'["p2h"] = buf["p2h"]
  BY <1>0, <1>2, <1>4, B2pPop DEF FlowInv
<1>6. /\ k <= N + 1 /\ gave["priv"] = 0 /\ InOrder(got["priv"])
      /\ Len(got["priv"]) = IF k = 0 THEN 0 ELSE k - 1
      /\ Len(got["bytes"]) = N /\ InOrder(got["bytes"])
  BY <1>1, <1>5 DEF FlowInv, PrivFlow, BytesFlow
<1>7. N \in Nat
  BY <1>0, Lengths DEF LengthFacts
<1> HIDE DEF k, u
<1>8. (k = 0 => u = <<"header", 0>>) /\ (k \in 1 .. N => u = <<"file", k>>)
  BY <1>0, <1>5, <1>6, NextMessage DEF k
<1>9. k = N + 1
  <2>1. k # 0 /\ k \notin 1 .. N
    BY <1>4, <1>8
  <2> QED
    BY <1>5, <1>6, <1>7, <2>1
<1>10. PrivFlow'
  <2>1. k + 1 = N + 2 /\ k - 1 = N /\ k # 0
    BY <1>5, <1>7, <1>9
  <2>2. Len(got["priv"]) = N /\ gave'["priv"] = 0
    BY <1>2, <1>6, <2>1
  <2> QED
    BY <1>2, <1>3, <1>5, <1>6, <2>1, <2>2 DEF PrivFlow
<1>11. H2bFlow' /\ BytesFlow' /\ P2hFlow'
  BY <1>2, <1>3, <1>5, H2bStable, BytesStable, P2hStable DEF FlowInv
<1>12. HostFlow' /\ OkMeansComplete'
  BY <1>0, <1>1, <1>2, <1>5, HostStable, NotYetOk DEF FlowInv, Exited, Children
<1> QED
  BY <1>5, <1>10, <1>11, <1>12 DEF FlowInv

\* Putting a unit into pipe p.
LEMMA PutInto ==
  ASSUME TypeOK, NEW p \in Pipe, NEW x \in Unit, buf' = [buf EXCEPT ![p] = Append(@, x)]
  PROVE  /\ Len(buf[p]) \in Nat
         /\ Len(buf'[p]) = Len(buf[p]) + 1
         /\ \A j \in 1 .. Len(buf[p]) : buf'[p][j] = buf[p][j]
         /\ buf'[p][Len(buf[p]) + 1] = x
         /\ \A q \in Pipe \ {p} : buf'[q] = buf[q]
<1>1. buf[p] \in Seq(Unit) /\ buf'[p] = Append(buf[p], x) /\ \A q \in Pipe \ {p} : buf'[q] = buf[q]
  BY DEF TypeOK
<1>2. ASSUME NEW s, s = buf[p], NEW r, r = buf'[p]
      PROVE  /\ Len(s) \in Nat /\ Len(r) = Len(s) + 1
             /\ \A j \in 1 .. Len(s) : r[j] = s[j]
             /\ r[Len(s) + 1] = x
  BY <1>1, <1>2, AppendFacts
<1>3. /\ Len(buf[p]) \in Nat /\ Len(buf'[p]) = Len(buf[p]) + 1
      /\ \A j \in 1 .. Len(buf[p]) : buf'[p][j] = buf[p][j]
      /\ buf'[p][Len(buf[p]) + 1] = x
  BY <1>2, Zenon
<1>4. \A q \in Pipe \ {p} : buf'[q] = buf[q]
  BY <1>1
<1> QED
  BY <1>3, <1>4, Zenon

\* The numbers of a stream that grows by one at the end of its pipe.
LEMMA AddOne ==
  ASSUME NEW a \in Nat, NEW b \in Nat
  PROVE  (a + 1) - (b + 1) = a - b
OBVIOUS

LEMMA FlowBytesPuts ==
  ASSUME WireInv, FlowInv, ChildWrites("bytes"), HasReader(fd, Out("bytes"))
  PROVE  FlowInv'
<1> DEFINE s == buf["b2p"]
           r == buf'["b2p"]
           g == gave["bytes"]
<1>0. TypeOK
  BY DEF WireInv
<1>1. child["bytes"] = "writing" /\ Out("bytes") = WriteEnd("b2p")
  BY DEF ChildWrites, WireInv, RolesCorrect, Children
<1>2. /\ UNCHANGED <<fileset, host, result, sent, report, got, child>> /\ N' = N
      /\ gave' = [gave EXCEPT !["bytes"] = @ + 1]
      /\ buf' = [buf EXCEPT !["b2p"] = Append(@, IpcUnit(g + 1))]
  BY <1>1 DEF ChildWrites, HostUnchanged, N, Put, WriteEnd, OutUnit
<1>3. gave'["bytes"] = g + 1 /\ gave'["priv"] = gave["priv"]
  BY <1>0, <1>2 DEF TypeOK, Children
<1>4. N \in Nat /\ g \in Nat
  BY <1>0, Lengths DEF LengthFacts
<1>5. TakenByBytes = N + 2 /\ Len(got["bytes"]) = N /\ InOrder(got["bytes"])
  BY <1>1 DEF FlowInv, BytesFlow
<1>6. g < N + 2 /\ IpcUnit(g + 1) \in Unit
  <2>1. OutLen("bytes") = N + 2
    BY <1>5 DEF OutLen
  <2>2. g < N + 2
    BY <2>1 DEF ChildWrites
  <2>3. g + 1 \in 1 .. OutLen("bytes")
    BY <1>4, <2>1, <2>2
  <2>4. OutUnit("bytes", g + 1) \in Unit
    BY <1>0, <2>3, UnitTypes DEF Children
  <2> QED
    BY <2>2, <2>4 DEF OutUnit
<1>7. /\ Len(s) \in Nat /\ Len(r) = Len(s) + 1
      /\ \A j \in 1 .. Len(s) : r[j] = s[j]
      /\ r[Len(s) + 1] = IpcUnit(g + 1)
      /\ buf'["h2b"] = buf["h2b"] /\ buf'["p2h"] = buf["p2h"]
  BY <1>0, <1>2, <1>6, PutInto DEF Pipe
<1>8. TakenByPriv' = TakenByPriv /\ TakenByPriv = g - Len(s)
  BY <1>3, <1>4, <1>7, AddOne DEF TakenByPriv
<1>9. \A i : IpcUnit(i)' = IpcUnit(i)
  BY <1>2 DEF IpcUnit
<1>10. \A j \in 1 .. Len(s) : s[j] = IpcUnit(TakenByPriv + j)
  BY DEF FlowInv, B2pFlow
<1>11. \A j \in 1 .. Len(r) : r[j] = IpcUnit(TakenByPriv + j)
  <2> HIDE DEF s, r, g
  <2>1. TakenByPriv + (Len(s) + 1) = g + 1
    BY <1>4, <1>7, <1>8, SumOfDifference
  <2>2. \A j \in 1 .. Len(r) : j \in 1 .. Len(s) \/ j = Len(s) + 1
    BY <1>7
  <2> QED
    BY <1>7, <1>10, <2>1, <2>2
<1>12. B2pFlow'
  BY <1>8, <1>9, <1>11 DEF FlowInv, B2pFlow
<1>13. BytesFlow'
  <2>1. g + 1 <= N + 2
    BY <1>4, <1>6
  <2>2. TakenByBytes' = TakenByBytes
    BY <1>2, <1>7 DEF TakenByBytes
  <2> QED
    BY <1>1, <1>2, <1>3, <1>5, <2>1, <2>2 DEF BytesFlow
<1>14. PrivFlow'
  BY <1>2, <1>3, <1>8 DEF FlowInv, PrivFlow, InOrder
<1>15. H2bFlow' /\ P2hFlow'
  BY <1>2, <1>3, <1>7, H2bStable, P2hStable DEF FlowInv
<1>16. HostFlow' /\ OkMeansComplete'
  BY <1>1, <1>2, <1>7, NotYetOk DEF FlowInv, HostFlow, Exited, Children
<1> QED
  BY <1>12, <1>13, <1>14, <1>15, <1>16 DEF FlowInv

LEMMA FlowPrivPuts ==
  ASSUME WireInv, FlowInv, ChildWrites("priv"), HasReader(fd, Out("priv"))
  PROVE  FlowInv'
<1> DEFINE s == buf["p2h"]
           r == buf'["p2h"]
           g == gave["priv"]
<1>0. TypeOK
  BY DEF WireInv
<1>1. child["priv"] = "writing" /\ Out("priv") = WriteEnd("p2h")
  BY DEF ChildWrites, WireInv, RolesCorrect, Children
<1>2. /\ UNCHANGED <<fileset, host, result, sent, report, got, child>> /\ N' = N
      /\ gave' = [gave EXCEPT !["priv"] = @ + 1]
      /\ buf' = [buf EXCEPT !["p2h"] = Append(@, ReportUnit(g + 1))]
  BY <1>1 DEF ChildWrites, HostUnchanged, N, Put, WriteEnd, OutUnit
<1>3. gave'["priv"] = g + 1 /\ gave'["bytes"] = gave["bytes"]
  BY <1>0, <1>2 DEF TypeOK, Children
<1>4. N \in Nat /\ g \in Nat
  BY <1>0, Lengths DEF LengthFacts
<1>5. TakenByPriv = N + 2 /\ Len(got["priv"]) = N /\ InOrder(got["priv"])
  BY <1>1 DEF FlowInv, PrivFlow
<1>6. ReportUnit(g + 1) \in Unit
  <2>1. g + 1 \in 1 .. OutLen("priv")
    BY <1>0, <1>4, UnitTypes DEF ChildWrites, Children
  <2>2. OutUnit("priv", g + 1) \in Unit
    BY <1>0, <2>1, UnitTypes DEF Children
  <2> QED
    BY <2>2 DEF OutUnit
<1>7. /\ Len(s) \in Nat /\ Len(r) = Len(s) + 1
      /\ \A j \in 1 .. Len(s) : r[j] = s[j]
      /\ r[Len(s) + 1] = ReportUnit(g + 1)
      /\ buf'["h2b"] = buf["h2b"] /\ buf'["b2p"] = buf["b2p"]
  BY <1>0, <1>2, <1>6, PutInto DEF Pipe
<1>8. TakenByHost' = TakenByHost /\ TakenByHost = g - Len(s)
  BY <1>3, <1>4, <1>7, AddOne DEF TakenByHost
<1>9. \A i : ReportUnit(i)' = ReportUnit(i)
  BY <1>2 DEF ReportUnit
<1>10. \A j \in 1 .. Len(s) : s[j] = ReportUnit(TakenByHost + j)
  BY DEF FlowInv, P2hFlow
<1>11. \A j \in 1 .. Len(r) : r[j] = ReportUnit(TakenByHost + j)
  <2> HIDE DEF s, r, g
  <2>1. TakenByHost + (Len(s) + 1) = g + 1
    BY <1>4, <1>7, <1>8, SumOfDifference
  <2>2. \A j \in 1 .. Len(r) : j \in 1 .. Len(s) \/ j = Len(s) + 1
    BY <1>7
  <2> QED
    BY <1>7, <1>10, <2>1, <2>2
<1>12. P2hFlow'
  BY <1>2, <1>8, <1>9, <1>11 DEF FlowInv, P2hFlow
<1>13. PrivFlow'
  <2>1. TakenByPriv' = TakenByPriv
    BY <1>3, <1>7 DEF TakenByPriv
  <2> QED
    BY <1>1, <1>2, <1>3, <1>5, <2>1 DEF PrivFlow
<1>14. H2bFlow' /\ BytesFlow' /\ B2pFlow'
  BY <1>2, <1>3, <1>7, H2bStable, BytesStable, B2pStable DEF FlowInv
<1>15. HostFlow' /\ OkMeansComplete'
  <2>1. host \notin {"wait_bytes", "wait_priv"}
    BY <1>1 DEF FlowInv, HostFlow, Exited
  <2> QED
    BY <1>1, <1>2, <2>1, NotYetOk DEF FlowInv, HostFlow, Exited, Children
<1> QED
  BY <1>12, <1>13, <1>14, <1>15 DEF FlowInv

LEMMA FlowChildWrites ==
  ASSUME WireInv, FlowInv, NEW c \in Children, ChildWrites(c)
  PROVE  FlowInv'
<1>1. CASE HasReader(fd, Out(c))
  BY <1>1, FlowBytesPuts, FlowPrivPuts DEF Children
<1>2. CASE ~HasReader(fd, Out(c))
  BY <1>2, FlowFailed DEF ChildWrites, Exit, HostUnchanged
<1> QED
  BY <1>1, <1>2

LEMMA FlowChildFinishes ==
  ASSUME WireInv, FlowInv, NEW c \in Children, ChildFinishes(c)
  PROVE  FlowInv'
<1>0. TypeOK
  BY DEF WireInv
<1>1. /\ UNCHANGED <<fileset, host, result, sent, report, buf, got, gave>> /\ N' = N
      /\ child[c] = "writing" /\ child' = [child EXCEPT ![c] = "ok"]
      /\ gave[c] = OutLen(c)
  BY DEF ChildFinishes, Exit, HostUnchanged, N
<1>2. H2bFlow' /\ B2pFlow' /\ P2hFlow'
  BY <1>1, H2bStable, B2pStable, P2hStable DEF FlowInv
<1>3. HostFlow' /\ OkMeansComplete'
  BY <1>0, <1>1, HostStable, NotYetOk DEF FlowInv, Exited
<1>4. BytesFlow'
  <2>1. CASE c = "bytes"
    <3>1. child'["bytes"] = "ok" /\ TakenByBytes' = TakenByBytes
      BY <1>0, <1>1, <2>1 DEF TypeOK, TakenByBytes
    <3>2. Len(got["bytes"]) = N /\ TakenByBytes = N + 2 /\ gave["bytes"] = N + 2
      BY <1>1, <2>1 DEF FlowInv, BytesFlow, OutLen
    <3> QED
      BY <1>1, <3>1, <3>2 DEF FlowInv, BytesFlow, InOrder
  <2>2. CASE c = "priv"
    <3>1. child'["bytes"] = child["bytes"]
      BY <1>0, <1>1, <2>2 DEF TypeOK, Children
    <3> QED
      BY <1>1, <3>1, BytesStable DEF FlowInv
  <2> QED
    BY <2>1, <2>2 DEF Children
<1>5. PrivFlow'
  <2>1. CASE c = "priv"
    <3>1. child'["priv"] = "ok" /\ TakenByPriv' = TakenByPriv
      BY <1>0, <1>1, <2>1 DEF TypeOK, TakenByPriv
    <3>2. Len(got["priv"]) = N /\ TakenByPriv = N + 2 /\ gave["priv"] = N + 1
      BY <1>1, <2>1 DEF FlowInv, PrivFlow, OutLen
    <3> QED
      BY <1>1, <3>1, <3>2 DEF FlowInv, PrivFlow, InOrder
  <2>2. CASE c = "bytes"
    <3>1. child'["priv"] = child["priv"]
      BY <1>0, <1>1, <2>2 DEF TypeOK, Children
    <3> QED
      BY <1>1, <3>1, PrivStable DEF FlowInv
  <2> QED
    BY <2>1, <2>2 DEF Children
<1> QED
  BY <1>2, <1>3, <1>4, <1>5 DEF FlowInv

LEMMA FlowNext == WireInv /\ FlowInv /\ [Next]_vars => FlowInv'
<1> SUFFICES ASSUME WireInv, FlowInv, [Next]_vars PROVE FlowInv'
  OBVIOUS
<1>1. CASE HostNext
  BY <1>1, FlowHost
<1>2. CASE BytesNext
  BY <1>2, FlowBytesDecodes, FlowBytesFails, FlowBytesSeesTrailer, FlowChildWrites,
     FlowChildFinishes DEF BytesNext, Children
<1>3. CASE PrivNext
  BY <1>3, FlowPrivTakes, FlowPrivStopsReading, FlowChildWrites, FlowChildFinishes
  DEF PrivNext, Children
<1>4. CASE \E c \in Children : Killed(c)
  BY <1>4, FlowKilled
<1>5. CASE UNCHANGED vars
  <2>1. HostFlow' /\ OkMeansComplete'
    BY <1>5 DEF vars, FlowInv, HostFlow, OkMeansComplete, Exited, N
  <2> QED
    BY <1>5, <2>1, FlowHostQuiet DEF vars
<1> QED
  BY <1>1, <1>2, <1>3, <1>4, <1>5 DEF Next

THEOREM Flow == Spec => [](WireInv /\ FlowInv)
<1>1. Init => WireInv /\ FlowInv
  BY WireInit, FlowInit
<1>2. WireInv /\ FlowInv /\ [Next]_vars => (WireInv /\ FlowInv)'
  BY WireNext, FlowNext
<1> QED
  BY <1>1, <1>2, PTL DEF Spec

\* Whatever fails when, and however small the pipes are: an Ok answer carries
\* the whole report of the whole file set, and nothing was left unread.
THEOREM OkIsComplete == Spec => []OkMeansComplete
<1>1. FlowInv => OkMeansComplete
  BY DEF FlowInv
<1> QED
  BY <1>1, Flow, PTL

-----------------------------------------------------------------------------
(* Refinement.                                                             *)

\* The one step that matters to the caller.
LEMMA AnswersOnce ==
  ASSUME WireInv, FlowInv, [Next]_vars
  PROVE  /\ UNCHANGED fileset
         /\ result # "none" => UNCHANGED <<result, report>>
<1>1. UNCHANGED fileset
  BY DEF Next, HostNext, BytesNext, PrivNext, vars, CreatePipe, PipeFails, SpawnBytes, SpawnPriv,
         SpawnFails, DropHandedOut, WriteFrame, WriteFails, DropStdin, ReadReport, StopReading,
         WaitBytes, WaitPriv, BytesDecodes, BytesRefuses, BytesSeesTrailer, BytesCutShort,
         PrivTakes, PrivStopsReading, ChildWrites, ChildFinishes, Killed, HostUnchanged
<1>2. ASSUME host = "done" PROVE UNCHANGED <<result, report>>
  BY <1>2
  DEF Next, HostNext, BytesNext, PrivNext, vars, CreatePipe, PipeFails, SpawnBytes, SpawnPriv,
      SpawnFails, DropHandedOut, WriteFrame, WriteFails, DropStdin, ReadReport, StopReading,
      WaitBytes, WaitPriv, BytesDecodes, BytesRefuses, BytesSeesTrailer, BytesCutShort,
      PrivTakes, PrivStopsReading, ChildWrites, ChildFinishes, Killed, HostUnchanged
<1>3. result # "none" => host = "done"
  BY DEF FlowInv, HostFlow
<1> QED
  BY <1>1, <1>2, <1>3

LEMMA AbsInit == Init => Abs!Init
BY DEF Init, Abs!Init, Abs!Pending

LEMMA AbsStep ==
  ASSUME WireInv, FlowInv, [Next]_vars, WireInv', FlowInv'
  PROVE  [Abs!Next]_(Abs!vars)
<1>1. /\ UNCHANGED fileset
      /\ result # "none" => UNCHANGED <<result, report>>
  BY AnswersOnce
<1>2. result \in {"none", "ok", "err"} /\ result' \in {"none", "ok", "err"}
  BY DEF WireInv, TypeOK
<1>3. CASE result = "none" /\ result' = "none"
  BY <1>1, <1>3 DEF Abs!vars
<1>4. CASE result # "none"
  BY <1>1, <1>4 DEF Abs!vars
<1>5. CASE result = "none" /\ result' = "err"
  BY <1>1, <1>5 DEF Abs!Next, Abs!Answer, Abs!Pending, Abs!Failed
<1>6. CASE result = "none" /\ result' = "ok"
  <2>1. report' = [i \in 1 .. N' + 1 |-> IF i <= N' THEN <<"input", i>> ELSE <<"close", 0>>]
    BY <1>6 DEF FlowInv, OkMeansComplete
  <2>2. N' = Len(fileset) /\ N' = N
    BY <1>1 DEF N
  <2>3. report' = Abs!CompleteReport(Len(fileset))
    BY <2>1, <2>2 DEF Abs!CompleteReport
  <2> QED
    BY <1>1, <1>6, <2>3 DEF Abs!Next, Abs!Answer, Abs!Pending, Abs!Ok
<1> QED
  BY <1>2, <1>3, <1>4, <1>5, <1>6

\* run_sandboxed_mode_b implements AnalyzeSpec: one answer, and no partial Ok.
THEOREM Refinement == Spec => AbsSpec
<1>1. WireInv /\ FlowInv /\ [Next]_vars /\ (WireInv /\ FlowInv)' => [Abs!Next]_(Abs!vars)
  BY AbsStep
<1> QED
  BY <1>1, AbsInit, Flow, PTL DEF Spec, AbsSpec, Abs!Spec
=============================================================================
