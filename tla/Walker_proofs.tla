--------------------------- MODULE Walker_proofs ---------------------------
(***************************************************************************)
(* For every tree, every limit and every sequence of changes by others:    *)
(* the types, that an entry ends up short only if its file lost bytes or   *)
(* took another one's place, that there are no more files and no larger    *)
(* ones than WalkLimits allows, and that a tree nobody touches is read     *)
(* whole or refused for cause.                                             *)
(***************************************************************************)
EXTENDS Walker, Loops_proofs, FiniteSetTheorems, TLAPS

Entries ==
  [node : Node, was : File, file : File, what : {"file", "dir", "pipe"},
   size : 0 .. LargestFile, got : 0 .. LargestFile]

\* The files there have been so far.
Old == 0 .. LastNode + changes

\* A file that never lost bytes still has those that stat saw.
Intact(f, s) == f \in shrunk \/ s <= size[f]

\* What was opened, if it is what stat saw, is a file and has those bytes, or is
\* something else that was given by its descriptor and has none.
Sound(e) ==
  /\ e.file \in Old
  /\ e.got <= e.size
  /\ e.file = e.was => IF e.what = "file" THEN Intact(e.file, e.size) ELSE e.size = 0

\* An entry that was read to its end is whole, unless its file lost bytes or is not the
\* one stat saw, or the descriptor stood further on.
Complete(e) == e.got < e.size => e.file \in shrunk \/ e.file # e.was \/ offset > 0

\* What stat saw is still there when it is opened, or something newer is.
ToOpen == Intact(which, seen) /\ (inode[at] = which => kind[at] \in {"file", "gone"})

WalkInv ==
  /\ TypeOK
  /\ which \in Old /\ \A n \in Node : inode[n] \in Old
  /\ pc = "open" => ToOpen
  /\ \A i \in DOMAIN out : Sound(out[i]) /\ (i < reading => Complete(out[i]))

-----------------------------------------------------------------------------

LEMMA Numbers ==
  /\ LastNode \in Nat /\ LargestFile \in Nat /\ MaxChanges \in Nat /\ MaxFiles \in Nat
  /\ MaxBytesPerFile \in Nat /\ MaxTotalBytes \in Nat /\ MaxOpen \in Nat
  /\ Chunk \in Nat \ {0}
  /\ 0 \in Node /\ Node \subseteq Nat
  /\ Node \subseteq File /\ File \subseteq Nat
  /\ MayBar \subseteq Node
BY BoundsAssumption, ChunkAssumption, MayBarAssumption DEF Node, File

LEMMA EntryTyped ==
  ASSUME NEW n \in Node, NEW f \in File, NEW s \in 0 .. LargestFile,
         inode[n] \in File, kind[n] \in {"file", "dir", "pipe"}
  PROVE  /\ Entry(n, f, s) \in Entries
         /\ Entry(n, f, s).node = n /\ Entry(n, f, s).was = f
         /\ Entry(n, f, s).file = inode[n] /\ Entry(n, f, s).what = kind[n]
         /\ Entry(n, f, s).size = s /\ Entry(n, f, s).got = 0
BY Numbers DEF Entry, Entries

LEMMA WalkInvInit == Init => WalkInv
<1> SUFFICES ASSUME Init PROVE WalkInv
  OBVIOUS
<1>1. /\ Root \in Node /\ inode[Root] = Root /\ SizeAt(Root) = size[Root]
      /\ size[Root] \in 0 .. LargestFile /\ 0 \in 0 .. LargestFile
      /\ 0 \in 0 .. MaxChanges /\ 0 \in 0 .. MaxTotalBytes
      /\ kind[Root] # "file" => size[Root] = 0
  BY Numbers DEF Init, Root, SizeAt
<1>2. Old = Node
  BY Numbers DEF Init, Old, Node
<1>3. \/ out = <<>>
      \/ /\ kind[Root] \in {"file", "dir", "pipe"}
         /\ \E s \in {size[Root], 0} : out = <<Entry(Root, Root, s)>>
  BY <1>1 DEF Init
<1>4. out \in Seq(Entries) /\ Len(out) \in {0, 1} /\ \A i \in DOMAIN out : Sound(out[i])
  <2>1. CASE out = <<>>
    BY <2>1
  <2>2. CASE /\ kind[Root] \in {"file", "dir", "pipe"}
             /\ \E s \in {size[Root], 0} : out = <<Entry(Root, Root, s)>>
    <3>1. PICK s \in {size[Root], 0} : out = <<Entry(Root, Root, s)>>
      BY <2>2
    <3>2. s \in 0 .. LargestFile /\ 0 <= s /\ s <= size[Root] /\ (kind[Root] # "file" => s = 0)
      BY <1>1
    <3>3. /\ Entry(Root, Root, s) \in Entries /\ Sound(Entry(Root, Root, s))
      BY <1>1, <1>2, <2>2, <3>2, EntryTyped, Numbers DEF Sound, Intact
    <3> QED BY <3>1, <3>3
  <2> QED BY <1>3, <2>1, <2>2
<1>5. TypeOK
  <2>1. offset \in 0 .. LargestFile
    <3>1. 0 .. size[Root] \subseteq 0 .. LargestFile
      BY <1>1, Numbers
    <3>2. offset = 0 \/ offset \in 0 .. size[Root]
      BY <1>1 DEF Init
    <3> QED BY <1>1, <3>1, <3>2
  <2>2. stack \in Seq(SUBSET Node)
    BY DEF Init
  <2>3. inode \in [Node -> File] /\ which \in File /\ barred \subseteq Node
    BY <1>1, Numbers DEF Init
  <2> QED BY <1>1, <1>4, <2>1, <2>2, <2>3 DEF Init, TypeOK, Entries
<1>6. which \in Old /\ \A n \in Node : inode[n] \in Old
  BY <1>1, <1>2 DEF Init
<1> QED
  BY <1>4, <1>5, <1>6 DEF Init, WalkInv

LEMMA OldTyped == changes \in 0 .. MaxChanges => Old \subseteq File
BY Numbers DEF Old, File

LEMMA SizeAtTyped ==
  ASSUME WalkInv, NEW n \in Node
  PROVE  SizeAt(n) \in 0 .. LargestFile /\ SizeAt(n) \in Nat
<1>1. inode[n] \in File
  BY DEF WalkInv, TypeOK
<1>2. SizeAt(n) \in 0 .. LargestFile
  BY <1>1 DEF WalkInv, TypeOK, SizeAt
<1> QED
  BY <1>2, Numbers

\* A step of the walk, which changes no file.
LEMMA WalkKeeps ==
  ASSUME WalkInv, WalkUnchanged, out' = out, at' \in Node, stack' \in Seq(SUBSET Node),
         seen' \in 0 .. LargestFile, total' \in 0 .. MaxTotalBytes, which' \in Old,
         pc' \in {"visit", "list", "next", "open", "read", "ok", "err"},
         pc' = "open" => ToOpen'
  PROVE  WalkInv'
<1>1. Old \subseteq File /\ Old' = Old
  BY OldTyped DEF WalkInv, TypeOK, WalkUnchanged, Old
<1>2. TypeOK'
  BY <1>1 DEF WalkInv, TypeOK, WalkUnchanged, files
<1>3. \A e : Sound(e)' <=> Sound(e)
  BY <1>1 DEF Sound, Intact, WalkUnchanged, files
<1>4. \A e : Complete(e)' <=> Complete(e)
  BY DEF Complete, WalkUnchanged
<1> QED
  BY <1>1, <1>2, <1>3, <1>4 DEF WalkInv, WalkUnchanged, files

LEMMA GoKeeps ==
  ASSUME WalkInv, NEW to \in {"visit", "list", "next", "read", "ok", "err"}, Go(to)
  PROVE  WalkInv'
BY WalkKeeps DEF Go, WalkInv, TypeOK

LEMMA VisitKeeps == ASSUME WalkInv, Visit PROVE WalkInv'
<1>1. CASE \E to \in {"err", "next", "list"} : Go(to)
  BY <1>1, GoKeeps
<1>2. CASE /\ kind[at] = "file" /\ WithinSizes(SizeAt(at))
           /\ pc' = "open" /\ seen' = SizeAt(at) /\ which' = inode[at]
           /\ total' = total + SizeAt(at)
           /\ UNCHANGED <<at, stack, out>> /\ WalkUnchanged
  <2>1. /\ SizeAt(at) \in 0 .. LargestFile /\ at \in Node /\ total \in Nat
        /\ inode[at] \in Old /\ inode[at] \in File
    <3>1. at \in Node /\ total \in Nat /\ inode[at] \in Old /\ inode[at] \in File
      BY Numbers DEF WalkInv, TypeOK
    <3> QED BY <3>1, SizeAtTyped
  <2>2. total' \in 0 .. MaxTotalBytes
    BY <1>2, <2>1, Numbers DEF WithinSizes
  <2>3. ToOpen'
    BY <1>2, <2>1 DEF ToOpen, Intact, SizeAt, WalkUnchanged, files
  <2> QED BY <1>2, <2>1, <2>2, <2>3, WalkKeeps DEF WalkInv, TypeOK
<1> QED
  BY <1>1, <1>2 DEF Visit, Fail, Barred, Seen

LEMMA ListKeeps == ASSUME WalkInv, List PROVE WalkInv'
<1>1. CASE Go("err")
  BY <1>1, GoKeeps
<1>2. CASE /\ pc' = "next" /\ stack' = Append(stack, Children(at))
           /\ UNCHANGED <<at, seen, which, total, out>> /\ WalkUnchanged
  <2>1. Children(at) \in SUBSET Node
    BY DEF Children
  <2>2. stack' \in Seq(SUBSET Node)
    BY <1>2, <2>1 DEF WalkInv, TypeOK
  <2> QED BY <1>2, <2>2, WalkKeeps DEF WalkInv, TypeOK
<1> QED
  BY <1>1, <1>2 DEF List, Fail, Barred

\* What Open does but for its refusals.
Opened ==
  /\ pc = "open" /\ pc' \in {"next", "wait"}
  /\ kind[at] \notin {"other", "gone"}
  /\ out' = Append(out, Entry(at, which, seen))
  /\ UNCHANGED <<at, seen, which, stack, total>>
  /\ WalkUnchanged

LEMMA OpenOpens == ASSUME Open PROVE Go("err") \/ (Opened /\ MayOpen)
BY DEF Open, Opened, Fail, Barred

\* The entry comes after the others.
LEMMA OpenedAppends ==
  ASSUME WalkInv, Opened
  PROVE  /\ Len(out) \in Nat /\ DOMAIN out = 1 .. Len(out)
         /\ Len(out') = Len(out) + 1 /\ DOMAIN out' = 1 .. Len(out) + 1
         /\ out' \in Seq(Entries)
         /\ \A i \in 1 .. Len(out) : out'[i] = out[i]
         /\ out'[Len(out) + 1] = Entry(at, which, seen)
         /\ Entry(at, which, seen) \in Entries
<1>1. /\ at \in Node /\ seen \in 0 .. LargestFile /\ which \in File /\ inode[at] \in File
      /\ kind[at] \in {"file", "dir", "pipe"} /\ out \in Seq(Entries)
  BY DEF WalkInv, TypeOK, Entries, Opened, Kind
<1>2. Entry(at, which, seen) \in Entries
  BY <1>1, EntryTyped
<1> QED
  BY <1>1, <1>2, AppendProperties DEF Opened

LEMMA OpenKeeps == ASSUME WalkInv, Open PROVE WalkInv'
<1>1. CASE Go("err")
  BY <1>1, GoKeeps
<1>2. CASE Opened
  <2>1. /\ at \in Node /\ seen \in 0 .. LargestFile /\ which \in File /\ inode[at] \in File
        /\ kind[at] \in {"file", "dir", "pipe"} /\ reading \in 1 .. Len(out) + 1
        /\ inode[at] \in Old /\ ToOpen
    BY <1>2 DEF WalkInv, TypeOK, Opened, Kind
  <2>2. TypeOK'
    <3>1. reading' \in 1 .. Len(out') + 1 /\ out' \in Seq(Entries)
      BY <1>2, <2>1, OpenedAppends DEF Opened, WalkUnchanged
    <3>2. pc' \in {"visit", "list", "next", "open", "wait", "read", "ok", "err"}
      BY <1>2 DEF Opened
    <3> QED BY <1>2, <3>1, <3>2 DEF Opened, WalkInv, TypeOK, WalkUnchanged, files, Entries
  <2>3. Old' = Old /\ which' \in Old /\ \A n \in Node : inode'[n] \in Old
    BY <1>2 DEF Opened, WalkInv, WalkUnchanged, files, Old
  <2>4. Sound(Entry(at, which, seen))
    BY <2>1, EntryTyped DEF Sound, ToOpen
  <2>5. ASSUME NEW i \in DOMAIN out'
        PROVE  Sound(out'[i]) /\ (i < reading => Complete(out'[i]))
    <3>1. i \in 1 .. Len(out) \/ i = Len(out) + 1
      BY <1>2, <2>5, OpenedAppends
    <3>2. CASE i \in 1 .. Len(out)
      BY <1>2, <3>2, OpenedAppends DEF WalkInv
    <3>3. CASE i = Len(out) + 1
      <4>1. ~(i < reading)
        BY <1>2, <2>1, <3>3, OpenedAppends
      <4> QED BY <1>2, <2>4, <3>3, <4>1, OpenedAppends
    <3> QED BY <3>1, <3>2, <3>3
  <2>6. \A e : (Sound(e)' <=> Sound(e)) /\ (Complete(e)' <=> Complete(e))
    BY <1>2, <2>3 DEF Opened, Sound, Intact, Complete, WalkUnchanged, files
  <2> QED BY <1>2, <2>2, <2>3, <2>5, <2>6 DEF Opened, WalkInv, WalkUnchanged
<1> QED
  BY <1>1, <1>2, OpenOpens

LEMMA NextEntryKeeps == ASSUME WalkInv, NextEntry PROVE WalkInv'
<1> DEFINE depth == Len(stack)
           names == stack[depth]
<1>0. stack \in Seq(SUBSET Node) /\ stack # <<>> /\ depth \in 1 .. Len(stack)
  BY DEF WalkInv, TypeOK, NextEntry
<1>1. CASE Go("err")
  BY <1>1, GoKeeps
<1>2. CASE /\ pc = "next" /\ stack' = SubSeq(stack, 1, depth - 1)
           /\ UNCHANGED <<pc, at, seen, which, total, out>> /\ WalkUnchanged
  <2>1. stack' \in Seq(SUBSET Node)
    BY <1>0, <1>2
  <2> QED BY <1>2, <2>1, WalkKeeps DEF WalkInv, TypeOK
<1>3. CASE /\ pc' = "visit"
           /\ \E c \in names : at' = c /\ stack' = [stack EXCEPT ![depth] = @ \ {c}]
           /\ UNCHANGED <<seen, which, total, out>> /\ WalkUnchanged
  <2>1. PICK c \in names : at' = c /\ stack' = [stack EXCEPT ![depth] = @ \ {c}]
    BY <1>3
  <2>2. names \in SUBSET Node
    BY <1>0
  <2>3. names \ {c} \in SUBSET Node /\ at' \in Node
    BY <2>1, <2>2
  <2>4. stack' \in Seq(SUBSET Node)
    BY <1>0, <2>1, <2>3
  <2> QED BY <1>3, <2>3, <2>4, WalkKeeps DEF WalkInv, TypeOK
<1> QED
  BY <1>1, <1>2, <1>3 DEF NextEntry, Fail

\* A read that returns n bytes.
LEMMA ReturnsKeeps ==
  ASSUME WalkInv, pc = "read", reading <= Len(out), NEW n \in Nat, Returns(n),
         n = 0 /\ out[reading].what = "file" =>
           size[out[reading].file] <= offset + out[reading].got
  PROVE  WalkInv'
<1> DEFINE r == reading
           e == out[r]
           g == IF n = 0 THEN e.got ELSE Truncated(e, n)
<1>1. out \in Seq(Entries) /\ r \in 1 .. Len(out) /\ e \in Entries
  <2>1. out \in Seq(Entries) /\ r \in 1 .. Len(out)
    BY DEF WalkInv, TypeOK, Entries
  <2> QED BY <2>1
<1>2. /\ e.size \in 0 .. LargestFile /\ e.got \in 0 .. LargestFile /\ e.file \in File
      /\ size[e.file] \in 0 .. LargestFile /\ offset \in 0 .. LargestFile
      /\ Sound(e) /\ e.got <= e.size
  <2>1. e.size \in 0 .. LargestFile /\ e.got \in 0 .. LargestFile /\ e.file \in File
    BY <1>1 DEF Entries
  <2>2. Sound(e)
    BY <1>1 DEF WalkInv
  <2> QED BY <2>1, <2>2 DEF WalkInv, TypeOK, Sound
<1>3. g \in 0 .. LargestFile /\ g <= e.size
  <2> DEFINE s == e.size
             b == e.got
  <2>1. s \in Nat /\ b \in Nat /\ b <= s /\ s <= LargestFile /\ LargestFile \in Nat
    BY <1>2, Numbers
  <2>2. g = b \/ g = Least(b + n, s)
    BY DEF Truncated
  <2> HIDE DEF s, b, g
  <2>3. g \in 0 .. LargestFile /\ g <= s
    BY <2>1, <2>2 DEF Least
  <2> QED BY <2>3 DEF s
<1>4. /\ out' = [out EXCEPT ![r].got = g]
      /\ reading' = IF EntryRead(e, n) THEN r + 1 ELSE r
      /\ UNCHANGED <<files, changes, shrunk, via, offset, pc, at, seen, which, stack, total>>
  BY DEF Returns
<1>5. EntryRead(e, n) => (g < e.size => e.file \in shrunk \/ e.file # e.was \/ offset > 0)
  <2>1. CASE n = 0
    <3> SUFFICES ASSUME e.file \notin shrunk, e.file = e.was, offset = 0 PROVE e.size <= e.got
      BY <1>2, <2>1
    <3>1. CASE e.what = "file"
      BY <1>2, <2>1, <3>1 DEF Sound, Intact
    <3>2. CASE e.what # "file"
      BY <1>2, <3>2 DEF Sound
    <3> QED BY <3>1, <3>2
  <2>2. CASE n # 0 /\ e.got + n >= e.size
    BY <1>2, <2>2 DEF Truncated, Least
  <2> QED BY <2>1, <2>2 DEF EntryRead
<1> HIDE DEF g
<1>6. /\ out' \in Seq(Entries) /\ Len(out') = Len(out)
      /\ out'[r] = [e EXCEPT !.got = g]
      /\ \A i \in 1 .. Len(out) : i # r => out'[i] = out[i]
  <2>1. [e EXCEPT !.got = g] \in Entries
    BY <1>1, <1>3 DEF Entries
  <2>2. out' = [out EXCEPT ![r] = [e EXCEPT !.got = g]]
    BY <1>4
  <2> QED BY <1>1, <2>1, <2>2
<1>7. /\ out'[r].got = g /\ out'[r].size = e.size /\ out'[r].file = e.file
      /\ out'[r].was = e.was /\ out'[r].what = e.what
  BY <1>1, <1>6 DEF Entries
<1>8. TypeOK'
  <2>1. reading' \in 1 .. Len(out') + 1
    BY <1>1, <1>4, <1>6
  <2> QED BY <1>4, <1>6, <2>1 DEF WalkInv, TypeOK, Entries, files
<1>9. ASSUME NEW i \in DOMAIN out'
      PROVE  Sound(out'[i]) /\ (i < reading' => Complete(out'[i]))
  <2>1. i \in 1 .. Len(out)
    BY <1>6, <1>9
  <2>2. CASE i # r
    <3>1. out'[i] = out[i] /\ (i < reading' => i < reading)
      BY <1>1, <1>4, <1>6, <2>1, <2>2
    <3> QED BY <1>1, <2>1, <3>1 DEF WalkInv
  <2>3. CASE i = r
    <3>1. i < reading' => EntryRead(e, n)
      BY <1>1, <1>4, <2>3
    <3>2. i < reading' => Complete(out'[i])
      BY <1>5, <1>7, <2>3, <3>1 DEF Complete
    <3>3. Sound(out'[i])
      BY <1>2, <1>3, <1>7, <2>3 DEF Sound
    <3> QED BY <3>2, <3>3
  <2> QED BY <2>2, <2>3
<1>10. \A f : (Sound(f)' <=> Sound(f)) /\ (Complete(f)' <=> Complete(f))
  BY <1>4 DEF Sound, Intact, Complete, Old, files
<1>11. Old' = Old /\ which' \in Old /\ (\A m \in Node : inode'[m] \in Old) /\ pc' # "open"
  BY <1>4 DEF WalkInv, files, Old
<1> QED
  BY <1>8, <1>9, <1>10, <1>11 DEF WalkInv

\* What a read of s bytes, g of them read, returns.
LEMMA ReadSizes ==
  ASSUME NEW s \in Nat, NEW g \in Nat, offset \in Nat
  PROVE  ReadSize(s, g) \in Nat /\ (ReadSize(s, g) = 0 => s <= offset + g)
BY Numbers DEF ReadSize, Least

LEMMA ReadKeeps == ASSUME WalkInv, Read PROVE WalkInv'
<1> DEFINE e == out[reading]
<1>1. CASE Go("err")
  BY <1>1, GoKeeps
<1>2. CASE e.what = "file" /\ Returns(ReadSize(size[e.file], e.got))
  <2>1. out \in Seq(Entries) /\ reading \in 1 .. Len(out)
    BY DEF WalkInv, TypeOK, Entries, Read
  <2>2. e \in Entries
    BY <2>1
  <2>3. size[e.file] \in Nat /\ e.got \in Nat /\ offset \in Nat
    <3>1. e.file \in File /\ e.got \in Nat
      BY <2>2, Numbers DEF Entries
    <3>2. size[e.file] \in 0 .. LargestFile /\ offset \in 0 .. LargestFile
      BY <3>1 DEF WalkInv, TypeOK
    <3> HIDE DEF e
    <3> QED BY <3>1, <3>2, Numbers
  <2> QED BY <1>2, <2>3, ReadSizes, ReturnsKeeps DEF Read
<1> QED
  BY <1>1, <1>2 DEF Read, Fail

LEMMA AwaitedKeeps == ASSUME WalkInv, Awaited PROVE WalkInv'
<1>1. CASE PipeOpens
  BY <1>1, GoKeeps DEF PipeOpens
<1>2. CASE ReadPipe
  <2>1. PICK n \in 0 .. Chunk : Returns(n)
    BY <1>2 DEF ReadPipe
  <2>2. n \in Nat
    BY Numbers
  <2> QED BY <1>2, <2>1, <2>2, ReturnsKeeps DEF ReadPipe
<1> QED
  BY <1>1, <1>2 DEF Awaited

\* What others do: a file may get more bytes, or lose some and is then marked; a name
\* may go, or lead to a file there has not been before.
LEMMA OthersDo ==
  ASSUME WalkInv, Others
  PROVE  /\ UNCHANGED <<parent, barred, via, offset, pc, at, seen, which, stack, total, out, reading>>
         /\ changes \in 0 .. MaxChanges - 1 /\ changes' = changes + 1
         /\ size' \in [File -> 0 .. LargestFile] /\ kind' \in [Node -> Kind]
         /\ inode' \in [Node -> File] /\ shrunk' \subseteq File /\ shrunk \subseteq shrunk'
         /\ \A f \in Old : f \in shrunk' \/ size[f] <= size'[f]
         /\ \A n \in Node : \/ inode'[n] = inode[n] /\ kind'[n] \in {kind[n], "gone"}
                            \/ inode'[n] = Made
<1>1. /\ size \in [File -> 0 .. LargestFile] /\ kind \in [Node -> Kind] /\ shrunk \subseteq File
      /\ inode \in [Node -> File] /\ changes \in 0 .. MaxChanges
  BY DEF WalkInv, TypeOK
<1>2. Changed
  BY DEF Others, Grow, Shrink, Remove, Put
<1>3. changes \in 0 .. MaxChanges - 1 /\ Made \in File /\ Made \notin Old /\ Old \subseteq File
  BY <1>1, <1>2, Numbers DEF Changed, Made, File, Old
<1>4. InUse \subseteq File
  <2>1. out \in Seq(Entries)
    BY DEF WalkInv, TypeOK, Entries
  <2>2. ASSUME NEW i \in DOMAIN out PROVE out[i].file \in File
    <3>1. out[i] \in Entries
      BY <2>1
    <3> QED BY <3>1 DEF Entries
  <2> QED BY <1>1, <2>2 DEF InUse
<1>5. ASSUME NEW f \in InUse, Grow(f) \/ Shrink(f)
      PROVE  /\ size' \in [File -> 0 .. LargestFile] /\ UNCHANGED <<kind, inode>>
             /\ shrunk' \subseteq File /\ shrunk \subseteq shrunk'
             /\ \A h \in Old : h \in shrunk' \/ size[h] <= size'[h]
  <2>1. f \in File /\ size[f] \in 0 .. LargestFile /\ LargestFile \in 0 .. LargestFile
    BY <1>1, <1>4, <1>5, Numbers
  <2>2. size[f] > 0 => size[f] - 1 \in 0 .. LargestFile
    BY <2>1, Numbers
  <2>3. CASE Grow(f)
    <3>1. size' = [size EXCEPT ![f] = LargestFile] /\ UNCHANGED <<kind, inode, shrunk>>
      BY <2>3 DEF Grow
    <3>2. \A h \in Old : size[h] <= size'[h]
      BY <1>1, <1>3, <2>1, <3>1, Numbers
    <3> QED BY <1>1, <2>1, <3>1, <3>2
  <2>4. CASE Shrink(f)
    <3>1. /\ size' = [size EXCEPT ![f] = size[f] - 1] /\ UNCHANGED <<kind, inode>>
          /\ shrunk' = shrunk \cup {f} /\ size[f] - 1 \in 0 .. LargestFile
      BY <2>2, <2>4 DEF Shrink
    <3>2. \A h \in Old : h # f => size[h] <= size'[h]
      BY <1>1, <1>3, <3>1, Numbers
    <3> QED BY <1>1, <2>1, <3>1, <3>2
  <2> QED BY <1>5, <2>3, <2>4
<1>6. ASSUME NEW n \in Node, Remove(n)
      PROVE  UNCHANGED <<size, inode, shrunk>> /\ kind' = [kind EXCEPT ![n] = "gone"]
  BY <1>6 DEF Remove
<1>7. ASSUME NEW n \in Node, NEW k \in Kind \ {"gone"}, Put(n, k)
      PROVE  /\ UNCHANGED shrunk
             /\ kind' = [kind EXCEPT ![n] = k] /\ inode' = [inode EXCEPT ![n] = Made]
             /\ \E s \in 0 .. LargestFile : size' = [size EXCEPT ![Made] = s]
  <2>1. 0 \in 0 .. LargestFile
    BY Numbers
  <2> QED BY <1>7, <2>1 DEF Put
<1>8. \/ \E f \in InUse : Grow(f) \/ Shrink(f)
      \/ \E n \in Node : Remove(n)
      \/ \E n \in Node : \E k \in Kind \ {"gone"} : Put(n, k)
  BY DEF Others
<1>9. /\ UNCHANGED <<parent, barred, via, offset, pc, at, seen, which, stack, total, out, reading>>
      /\ changes' = changes + 1
  BY <1>2 DEF Changed
<1>10. CASE \E f \in InUse : Grow(f) \/ Shrink(f)
  BY <1>1, <1>3, <1>5, <1>9, <1>10
<1>11. CASE \E n \in Node : Remove(n)
  <2>1. "gone" \in Kind
    BY DEF Kind
  <2>2. \A f \in Old : size[f] <= size[f]
    BY <1>1, <1>3, Numbers
  <2> QED BY <1>1, <1>3, <1>6, <1>9, <1>11, <2>1, <2>2
<1>12. CASE \E n \in Node : \E k \in Kind \ {"gone"} : Put(n, k)
  <2>1. PICK n \in Node : \E k \in Kind \ {"gone"} : Put(n, k)
    BY <1>12
  <2>2. PICK k \in Kind \ {"gone"} : Put(n, k)
    BY <2>1
  <2>3. PICK s \in 0 .. LargestFile : size' = [size EXCEPT ![Made] = s]
    BY <1>7, <2>2
  <2>4. \A f \in Old : size[f] <= size'[f]
    BY <1>1, <1>3, <2>3, Numbers
  <2>5. size' \in [File -> 0 .. LargestFile]
    BY <1>1, <1>3, <2>3
  <2> QED BY <1>1, <1>3, <1>7, <1>9, <2>2, <2>4, <2>5
<1> QED
  BY <1>8, <1>10, <1>11, <1>12

LEMMA OthersKeep == ASSUME WalkInv, Others PROVE WalkInv'
<1>1. TypeOK'
  <2>1. changes' \in 0 .. MaxChanges
    BY OthersDo, Numbers
  <2>2. TypeOK
    BY DEF WalkInv
  <2> QED BY <2>1, <2>2, OthersDo DEF TypeOK
<1>2. Old \subseteq Old' /\ Made \in Old' /\ Made \notin Old
  BY OthersDo, Numbers DEF Old, Made
<1>3. ASSUME NEW f \in Old, NEW s \in 0 .. LargestFile, Intact(f, s)
      PROVE  f \in shrunk' \/ s <= size'[f]
  <2>1. f \in File /\ size[f] \in 0 .. LargestFile /\ size'[f] \in 0 .. LargestFile
    BY <1>3, OthersDo, OldTyped DEF WalkInv, TypeOK
  <2> QED BY <1>3, <2>1, OthersDo DEF Intact
<1>4. which' \in Old' /\ \A n \in Node : inode'[n] \in Old'
  BY <1>2, OthersDo DEF WalkInv
<1>5. pc' = "open" => ToOpen'
  <2> SUFFICES ASSUME pc = "open"
               PROVE  ToOpen'
    BY OthersDo
  <2>1. ToOpen /\ which \in Old /\ seen \in 0 .. LargestFile /\ at \in Node
    BY DEF WalkInv, TypeOK
  <2>2. which' \in shrunk' \/ seen' <= size'[which']
    BY <1>3, <2>1, OthersDo DEF ToOpen
  <2>3. inode'[at'] = which' => kind'[at'] \in {"file", "gone"}
    BY <1>2, <2>1, OthersDo DEF ToOpen
  <2> QED BY <2>2, <2>3 DEF ToOpen, Intact
<1>6. ASSUME NEW i \in DOMAIN out
      PROVE  Sound(out[i])' /\ (i < reading => Complete(out[i])')
  <2>0. out \in Seq(Entries)
    BY DEF WalkInv, TypeOK, Entries
  <2>1. out[i] \in Entries
    BY <2>0
  <2>2. out[i].size \in 0 .. LargestFile
    BY <2>1 DEF Entries
  <2>3. Sound(out[i]) /\ (i < reading => Complete(out[i]))
    BY DEF WalkInv
  <2>4. out' = out
    BY OthersDo
  <2>5. Sound(out[i])'
    BY <1>2, <1>3, <2>2, <2>3, <2>4 DEF Sound, Intact
  <2>6. Complete(out[i]) => Complete(out[i])'
    BY <2>4, OthersDo DEF Complete
  <2> QED BY <2>3, <2>5, <2>6
<1> QED
  BY <1>1, <1>4, <1>5, <1>6, OthersDo DEF WalkInv

LEMMA WalkStepKeeps == ASSUME WalkInv, [Next]_vars PROVE WalkInv'
<1>1. CASE Walked \/ Built
  BY <1>1, GoKeeps DEF Walked, Built
<1>2. CASE UNCHANGED vars
  BY <1>2 DEF vars, files, WalkInv, TypeOK, ToOpen, Sound, Old, Intact, Complete
<1> QED
  BY <1>1, <1>2, VisitKeeps, ListKeeps, OpenKeeps, NextEntryKeeps, ReadKeeps, AwaitedKeeps,
     OthersKeep DEF Next, Process, Done

\* The invariant holds for every tree and whatever is done to it.
THEOREM WalkConsistent == Spec => []WalkInv
BY WalkInvInit, WalkStepKeeps, PTL DEF Spec

\* Every variable has its type; the total never passes its limit.
THEOREM WalkTyped == Spec => []TypeOK
<1>1. WalkInv => TypeOK
  BY DEF WalkInv
<1> QED
  BY <1>1, WalkConsistent, PTL

\* A file given by its path that nobody took bytes from, or put another one in the place
\* of, is submitted with every byte that was announced for it.
THEOREM ShortOnlyForCause == Spec => []ShortOnlyIfShrunk
<1>1. WalkInv => ShortOnlyIfShrunk
  <2> SUFFICES ASSUME WalkInv, NEW i \in 1 .. reading - 1, out[i].got < out[i].size
               PROVE  out[i].file \in shrunk \/ out[i].file # out[i].was \/ offset > 0
    BY DEF ShortOnlyIfShrunk
  <2>1. out \in Seq(Entries) /\ reading \in 1 .. Len(out) + 1
    BY DEF WalkInv, TypeOK, Entries
  <2>2. i \in DOMAIN out /\ i < reading
    BY <2>1
  <2> QED BY <2>2 DEF WalkInv, Complete
<1> QED
  BY <1>1, WalkConsistent, PTL

-----------------------------------------------------------------------------
(* The limits on the number of files and on each.                          *)

\* While a name is being visited there is room for it, and what is being opened was
\* small enough when stat saw it.
LimitInv ==
  via = "path" =>
    /\ Len(out) <= MaxFiles \/ (MaxFiles = 0 /\ Len(out) <= 1)
    /\ pc \in {"visit", "open"} => Len(out) < MaxFiles \/ (MaxFiles = 0 /\ Len(out) = 0)
    /\ pc = "open" => seen <= MaxBytesPerFile
    /\ \A i \in DOMAIN out : out[i].size <= MaxBytesPerFile

LEMMA LimitInvInit == Init => LimitInv
BY Numbers DEF Init, LimitInv

\* A step that adds no entry and starts no visit.
LEMMA NoNewEntry ==
  ASSUME LimitInv, WalkUnchanged, out' = out, pc' \notin {"visit", "open"}
  PROVE  LimitInv'
BY DEF LimitInv, WalkUnchanged

\* A read that fails, or a pipe that somebody opens, changes nothing but pc.
LEMMA ReadsReturn ==
  ASSUME Read \/ Awaited
  PROVE  (\E to \in {"next", "err"} : Go(to)) \/ (pc = "read" /\ \E n : Returns(n))
BY DEF Read, Fail, Awaited, PipeOpens, ReadPipe

\* Reading adds to what an entry got, and to nothing else.
LEMMA ReadKeepsSizes ==
  ASSUME NEW n, Returns(n), out \in Seq(Entries)
  PROVE  /\ Len(out') = Len(out) /\ DOMAIN out' = DOMAIN out
         /\ \A i \in DOMAIN out :
              /\ out'[i].size = out[i].size /\ out'[i].node = out[i].node
              /\ out'[i].was = out[i].was /\ out'[i].file = out[i].file
              /\ out'[i].what = out[i].what
<1> DEFINE g == IF n = 0 THEN out[reading].got ELSE Truncated(out[reading], n)
<1>1. out' = [out EXCEPT ![reading] = [out[reading] EXCEPT !.got = g]]
  BY DEF Returns
<1>2. \A i \in DOMAIN out : out[i] \in Entries
  OBVIOUS
<1> HIDE DEF g
<1>3. Len(out') = Len(out) /\ DOMAIN out' = DOMAIN out
  BY <1>1
<1> QED
  BY <1>1, <1>2, <1>3 DEF Entries

LEMMA LimitStepKeeps == ASSUME WalkInv, LimitInv, [Next]_vars PROVE LimitInv'
<1>0. out \in Seq(Entries)
  BY DEF WalkInv, TypeOK, Entries
<1>1. ASSUME NEW to \in {"list", "next", "read", "ok", "err"}, Go(to) PROVE LimitInv'
  BY <1>1, NoNewEntry DEF Go
<1>2. CASE Visit
  <2>1. CASE \E to \in {"list", "next", "err"} : Go(to)
    BY <1>1, <2>1
  <2>2. CASE /\ WithinSizes(SizeAt(at)) /\ pc = "visit"
             /\ pc' = "open" /\ seen' = SizeAt(at) /\ out' = out /\ WalkUnchanged
    BY <2>2 DEF WithinSizes, LimitInv, WalkUnchanged
  <2> QED BY <1>2, <2>1, <2>2 DEF Visit, Fail, Barred
<1>3. CASE List
  BY <1>1, <1>3, NoNewEntry DEF List, Fail, Barred
<1>4. CASE Open
  <2>1. CASE Go("err")
    BY <1>1, <2>1
  <2>2. CASE Opened
    <3>1. Entry(at, which, seen).size = seen
      BY DEF Entry
    <3>2. \A i \in DOMAIN out' : i \in DOMAIN out \/ i = Len(out) + 1
      BY <2>2, OpenedAppends
    <3>3. pc = "open" /\ pc' \notin {"open", "visit"} /\ UNCHANGED via
      BY <2>2 DEF Opened, WalkUnchanged
    <3> QED BY <2>2, <3>1, <3>2, <3>3, OpenedAppends, Numbers DEF LimitInv
  <2> QED BY <1>4, <2>1, <2>2, OpenOpens
<1>5. CASE NextEntry
  <2>1. CASE Go("err")
    BY <1>1, <2>1
  <2>2. CASE /\ pc = "next" /\ UNCHANGED <<pc, at, seen, which, total, out>> /\ WalkUnchanged
    BY <2>2, NoNewEntry
  <2>3. CASE ~TooMany /\ pc' = "visit" /\ UNCHANGED <<seen, which, total, out>> /\ WalkUnchanged
    <3>1. Len(out) < MaxFiles
      BY <1>0, <2>3, Numbers DEF TooMany
    <3> QED BY <2>3, <3>1 DEF LimitInv, WalkUnchanged
  <2> QED BY <1>5, <2>1, <2>2, <2>3 DEF NextEntry, Fail
<1>6. CASE Read \/ Awaited
  <2>1. CASE \E to \in {"next", "err"} : Go(to)
    BY <1>1, <2>1
  <2>2. CASE pc = "read" /\ \E n : Returns(n)
    <3>1. PICK n : Returns(n)
      BY <2>2
    <3>2. pc' = pc /\ via' = via
      BY <3>1 DEF Returns
    <3> QED BY <1>0, <2>2, <3>1, <3>2, ReadKeepsSizes DEF LimitInv
  <2> QED BY <1>6, <2>1, <2>2, ReadsReturn
<1>7. CASE Walked \/ Built
  BY <1>1, <1>7 DEF Walked, Built
<1>8. CASE Others \/ UNCHANGED vars
  BY <1>8, OthersDo DEF vars, LimitInv
<1> QED
  BY <1>2, <1>3, <1>4, <1>5, <1>6, <1>7, <1>8 DEF Next, Process, Done

\* However the files change between stat, open and read: no more files and no larger
\* ones are kept than WalkLimits allows, and no byte more than announced.
THEOREM EachIsWithinLimits == Spec => []EachWithinLimits
<1>1. WalkInv /\ LimitInv => EachWithinLimits
  BY DEF WalkInv, Sound, LimitInv, EachWithinLimits
<1> QED
  BY <1>1, WalkConsistent, LimitInvInit, LimitStepKeeps, PTL DEF Spec

-----------------------------------------------------------------------------
(* The limit on the bytes in all.                                          *)

SizesOf(entries) == [i \in DOMAIN entries |-> entries[i].size]

\* What was counted is what the entries announce, and the file being opened.
Counted ==
  via = "path" => (IF pc = "open" THEN Sizes + seen ELSE Sizes) <= total

LEMMA SizesTyped ==
  ASSUME NEW entries \in Seq(Entries)
  PROVE  /\ SizesOf(entries) \in [1 .. Len(entries) -> Nat]
         /\ \A i \in 1 .. Len(entries) : SizesOf(entries)[i] = entries[i].size
<1>1. DOMAIN entries = 1 .. Len(entries) /\ \A i \in 1 .. Len(entries) : entries[i] \in Entries
  OBVIOUS
<1>2. \A i \in 1 .. Len(entries) : entries[i].size \in Nat
  BY <1>1, Numbers DEF Entries
<1> QED
  BY <1>1, <1>2 DEF SizesOf

LEMMA SizesIsNat == ASSUME out \in Seq(Entries) PROVE Sizes \in Nat
<1>1. PICK N \in Nat : N = Len(out)
  OBVIOUS
<1>2. PICK f : f = SizesOf(out)
  OBVIOUS
<1>3. Sizes = Total(f, N)
  BY <1>1, <1>2 DEF Sizes, SizesOf
<1>4. f \in [1 .. N -> Nat]
  BY <1>1, <1>2, SizesTyped
<1> QED
  BY <1>3, <1>4, TotalType

LEMMA CountedInit == Init => Counted
<1> SUFFICES ASSUME Init, via = "path" PROVE Counted
  BY DEF Counted
<1>1. out = <<>> /\ total = 0 /\ pc = "visit"
  BY DEF Init
<1>2. out \in Seq(Entries) /\ Len(out) = 0
  BY <1>1
<1>3. PICK f \in [1 .. 0 -> Nat] : f = SizesOf(out)
  BY <1>2, SizesTyped
<1>4. Total(f, 0) = 0
  <2>1. \A n \in 1 .. 0 : f[n] = 0
    OBVIOUS
  <2> QED BY <2>1, TotalOfZeros
<1>5. Sizes = 0
  BY <1>2, <1>3, <1>4 DEF Sizes, SizesOf
<1> QED
  BY <1>1, <1>5, Numbers DEF Counted

\* A step that opens nothing and leaves the entries alone.
LEMMA CountStays ==
  ASSUME WalkInv, Counted, via' = via, out' = out, total' = total, pc' # "open" \/ (pc' = pc /\ seen' = seen)
  PROVE  Counted'
<1>1. out \in Seq(Entries) /\ seen \in Nat /\ total \in Nat
  BY Numbers DEF WalkInv, TypeOK, Entries
<1>2. Sizes \in Nat /\ Sizes' = Sizes
  BY <1>1, SizesIsNat DEF Sizes
<1> QED
  BY <1>1, <1>2 DEF Counted

LEMMA CountGo ==
  ASSUME WalkInv, Counted, NEW to \in {"list", "next", "read", "ok", "err"}, Go(to)
  PROVE  Counted'
BY CountStays DEF Go, WalkUnchanged

LEMMA CountStepKeeps == ASSUME WalkInv, Counted, [Next]_vars PROVE Counted'
<1>0. out \in Seq(Entries) /\ seen \in Nat /\ total \in Nat /\ Sizes \in Nat
  <2>1. out \in Seq(Entries) /\ seen \in Nat /\ total \in Nat
    BY Numbers DEF WalkInv, TypeOK, Entries
  <2> QED BY <2>1, SizesIsNat
<1>2. CASE Visit
  <2>1. CASE \E to \in {"list", "next", "err"} : Go(to)
    BY CountGo, <2>1
  <2>2. CASE /\ pc = "visit" /\ pc' = "open" /\ seen' = SizeAt(at) /\ total' = total + SizeAt(at)
             /\ out' = out /\ WalkUnchanged
    <3>1. SizeAt(at) \in Nat
      BY SizeAtTyped DEF WalkInv, TypeOK
    <3>2. Sizes' = Sizes
      BY <2>2 DEF Sizes
    <3> QED BY <1>0, <2>2, <3>1, <3>2 DEF Counted, WalkUnchanged
  <2> QED BY <1>2, <2>1, <2>2 DEF Visit, Fail, Barred
<1>3. CASE List
  BY CountGo, <1>3, CountStays DEF List, Fail, Barred, WalkUnchanged
<1>4. CASE Open
  <2>1. CASE Go("err")
    BY CountGo, <2>1
  <2>2. CASE Opened
    <3>1. pc = "open" /\ pc' # "open" /\ UNCHANGED <<via, total>>
      BY <2>2 DEF Opened, WalkUnchanged
    <3>2. /\ out' \in Seq(Entries) /\ Len(out') = Len(out) + 1 /\ Len(out) \in Nat
          /\ \A i \in 1 .. Len(out) : out'[i] = out[i]
          /\ out'[Len(out) + 1] = Entry(at, which, seen)
      BY <2>2, OpenedAppends
    <3>3. PICK N \in Nat : N = Len(out)
      BY <3>2
    <3>4. PICK f \in [1 .. N -> Nat] : f = SizesOf(out) /\ \A i \in 1 .. N : f[i] = out[i].size
      BY <1>0, <3>3, SizesTyped
    <3>5. PICK g \in [1 .. N + 1 -> Nat] :
            g = SizesOf(out') /\ \A i \in 1 .. N + 1 : g[i] = out'[i].size
      BY <3>2, <3>3, SizesTyped
    <3>6. g[N + 1] = seen
      BY <3>2, <3>3, <3>5 DEF Entry
    <3>7. \A i \in 1 .. N : g[i] = f[i]
      BY <3>2, <3>3, <3>4, <3>5
    <3>8. TotalStep(f, g, N)
      BY <3>7, TotalOfOneMore
    <3>9. Sizes = Total(f, N) /\ Sizes' = Total(g, N + 1)
      BY <3>2, <3>3, <3>4, <3>5 DEF Sizes, SizesOf
    <3>10. Sizes' = Sizes + seen
      BY <3>6, <3>8, <3>9 DEF TotalStep
    <3> QED BY <1>0, <3>1, <3>10 DEF Counted
  <2> QED BY <1>4, <2>1, <2>2, OpenOpens
<1>5. CASE NextEntry
  BY CountGo, <1>5, CountStays DEF NextEntry, Fail, WalkUnchanged
<1>6. CASE Read \/ Awaited
  <2>1. CASE \E to \in {"next", "err"} : Go(to)
    BY CountGo, <2>1
  <2>2. CASE pc = "read" /\ \E n : Returns(n)
    <3>1. PICK n : Returns(n)
      BY <2>2
    <3>2. pc' = pc /\ UNCHANGED <<via, total>>
      BY <3>1 DEF Returns
    <3>3. /\ Len(out') = Len(out) /\ DOMAIN out' = DOMAIN out
          /\ \A i \in DOMAIN out : out'[i].size = out[i].size
      BY <1>0, <3>1, ReadKeepsSizes
    <3>4. Sizes' = Sizes
      BY <3>3 DEF Sizes
    <3> QED BY <2>2, <3>2, <3>4 DEF Counted
  <2> QED BY <1>6, <2>1, <2>2, ReadsReturn
<1>7. CASE Walked \/ Built
  BY CountGo, <1>7 DEF Walked, Built
<1>8. CASE Others
  BY <1>8, CountStays, OthersDo
<1>9. CASE UNCHANGED vars
  BY <1>9, CountStays DEF vars
<1> QED
  BY <1>2, <1>3, <1>4, <1>5, <1>6, <1>7, <1>8, <1>9 DEF Next, Process, Done

\* However the files change between stat, open and read: no more files, no larger ones
\* and no more bytes in all are announced than WalkLimits allows, and no byte more of a
\* file is kept than announced.
THEOREM LimitsAlwaysHold == Spec => []LimitsHold
<1>1. WalkInv /\ Counted /\ EachWithinLimits => LimitsHold
  <2> SUFFICES ASSUME WalkInv, Counted, EachWithinLimits, via = "path"
               PROVE  Sizes <= MaxTotalBytes
    BY DEF LimitsHold
  <2>1. out \in Seq(Entries) /\ seen \in Nat /\ total \in 0 .. MaxTotalBytes
    BY Numbers DEF WalkInv, TypeOK, Entries
  <2>2. Sizes \in Nat
    BY <2>1, SizesIsNat
  <2> QED BY <2>1, <2>2, Numbers DEF Counted
<1> QED
  BY <1>1, WalkConsistent, EachIsWithinLimits, CountedInit, CountStepKeeps, PTL DEF Spec

-----------------------------------------------------------------------------
(* A tree that nobody touches.                                             *)
(*                                                                         *)
(* L is the set of directories whose loop has begun.  What can be reached  *)
(* through them is divided into the names yet to be yielded, the node      *)
(* being visited, L itself, the files collected, and what is neither a     *)
(* file nor a directory.  Once no name is left, L is closed under          *)
(* children, and as every directory has a smaller number than what it      *)
(* contains, everything has been reached.                                  *)

Tree ==
  /\ parent \in [Node -> Node]
  /\ \A n \in Node \ {Root} :
       parent[n] < n /\ (kind[n] # "gone" => kind[parent[n]] = "dir")

Pending    == {n \in Node : \E i \in 1 .. Len(stack) : n \in stack[i]}
Current    == IF pc \in {"visit", "list", "open"} THEN {at} ELSE {}
Collected  == {n \in Node : \E i \in 1 .. Len(out) : out[i].node = n}
Reached(L) == {n \in Node : n = Root \/ (kind[n] # "gone" /\ parent[n] \in L)}

Partition(L, P, C, D) ==
  /\ L \in SUBSET Node
  /\ L \cup P \cup C \cup D \subseteq Reached(L)
  /\ P \cap (C \cup L \cup D) = {} /\ C \cap (L \cup D) = {}
  /\ \A n \in L : kind[n] = "dir"
  /\ \A n \in D : kind[n] = "file"
  /\ \A n \in Reached(L) : n \in L \cup P \cup C \cup D \/ kind[n] \in {"other", "pipe"}
  /\ Root \notin P

\* The loops under way have no name in common, and each is over a directory of L.
Looping(L) ==
  /\ \A i, j \in 1 .. Len(stack) : i # j => stack[i] \cap stack[j] = {}
  /\ Len(stack) <= Cardinality(L)
  /\ pc \in {"read", "ok"} => stack = <<>>

AsSeen(e) ==
  /\ e.size = SizeAt(e.node)
  /\ e.file = inode[e.node] /\ e.was = e.file /\ e.what = "file"

\* Every file is collected once, with its size; it is the one stat saw.
CollectedOnce ==
  /\ Cardinality(Collected) = Len(out)
  /\ \A i, j \in 1 .. Len(out) : out[i].node = out[j].node => i = j
  /\ \A i \in 1 .. Len(out) : AsSeen(out[i])

\* No more was counted than what was collected and what is being opened.
Weighed ==
  IF pc = "open" THEN /\ seen = SizeAt(at) /\ which = inode[at] /\ kind[at] = "file"
                      /\ total <= Bytes(Collected) + seen
                 ELSE total <= Bytes(Collected)

QuietState(L) ==
  /\ Partition(L, Pending, Current, Collected)
  /\ Looping(L)
  /\ CollectedOnce
  /\ Weighed
  /\ pc # "wait" /\ (pc = "list" => kind[at] = "dir")
  /\ pc = "ok" => reading = Len(out) + 1

\* The one entry there is for a descriptor.
Given ==
  /\ Len(out) = 1 /\ out[1].node = Root /\ out[1].what = kind[Root]
  /\ pc = "err" => kind[Root] = "dir" \/ Root \in barred

Quiet ==
  /\ via = "fd" => pc \in {"read", "ok", "err"} /\ (changes = 0 => Given)
  /\ changes = 0 /\ via = "path" =>
       /\ Tree /\ shrunk = {} /\ offset = 0
       /\ IF pc = "err" THEN Cause ELSE \E L \in SUBSET Node : QuietState(L)

-----------------------------------------------------------------------------
(* Bytes and numbers of nodes.                                             *)

Held(nodes) == [i \in 1 .. LastNode + 1 |-> IF i - 1 \in nodes THEN SizeAt(i - 1) ELSE 0]

LEMMA HeldTyped ==
  ASSUME WalkInv, NEW nodes
  PROVE  /\ Held(nodes) \in [1 .. LastNode + 1 -> Nat]
         /\ \A i \in 1 .. LastNode + 1 :
              Held(nodes)[i] = IF i - 1 \in nodes THEN SizeAt(i - 1) ELSE 0
<1>1. \A i \in 1 .. LastNode + 1 : i - 1 \in Node
  BY Numbers DEF Node
<1>2. \A n \in Node : SizeAt(n) \in Nat
  BY SizeAtTyped
<1> QED
  BY <1>1, <1>2 DEF Held

LEMMA BytesTyped == ASSUME WalkInv, NEW nodes PROVE Bytes(nodes) \in Nat
<1>1. PICK N \in Nat : N = LastNode + 1
  BY Numbers
<1>2. PICK f \in [1 .. N -> Nat] : f = Held(nodes)
  BY <1>1, HeldTyped
<1>3. Bytes(nodes) = Total(f, N)
  BY <1>1, <1>2 DEF Bytes, Held
<1> QED
  BY <1>3, TotalType

\* Where there are more files there are no fewer bytes.
LEMMA BytesGrow ==
  ASSUME WalkInv, NEW S, NEW T, S \subseteq T
  PROVE  Bytes(S) <= Bytes(T)
<1>1. PICK N \in Nat : N = LastNode + 1
  BY Numbers
<1>2. PICK f \in [1 .. N -> Nat] :
        f = Held(S) /\ \A i \in 1 .. N : f[i] = IF i - 1 \in S THEN SizeAt(i - 1) ELSE 0
  BY <1>1, HeldTyped
<1>3. PICK g \in [1 .. N -> Nat] :
        g = Held(T) /\ \A i \in 1 .. N : g[i] = IF i - 1 \in T THEN SizeAt(i - 1) ELSE 0
  BY <1>1, HeldTyped
<1>4. \A i \in 1 .. N : f[i] <= g[i]
  <2> TAKE i \in 1 .. N
  <2>1. f[i] \in Nat /\ g[i] \in Nat
    OBVIOUS
  <2>2. CASE i - 1 \in S
    <3>1. i - 1 \in T
      BY <2>2
    <3>2. f[i] = SizeAt(i - 1) /\ g[i] = SizeAt(i - 1)
      BY <1>2, <1>3, <2>2, <3>1, Zenon
    <3> QED BY <2>1, <3>2
  <2>3. CASE i - 1 \notin S
    <3>1. f[i] = 0
      BY <1>2, <2>3
    <3> QED BY <2>1, <3>1
  <2> QED BY <2>2, <2>3
<1>5. TotalAtMost(f, g, N)
  BY <1>4, TotalGrows
<1>6. Bytes(S) = Total(f, N) /\ Bytes(T) = Total(g, N)
  BY <1>1, <1>2, <1>3 DEF Bytes, Held
<1> QED
  BY <1>5, <1>6 DEF TotalAtMost

\* One more file adds its bytes.
LEMMA BytesOfOneMore ==
  ASSUME WalkInv, NEW S, NEW m \in Node \ S
  PROVE  Bytes(S \cup {m}) = Bytes(S) + SizeAt(m)
<1>1. PICK N \in Nat : N = LastNode + 1
  BY Numbers
<1>2. PICK f \in [1 .. N -> Nat] :
        f = Held(S) /\ \A i \in 1 .. N : f[i] = IF i - 1 \in S THEN SizeAt(i - 1) ELSE 0
  BY <1>1, HeldTyped
<1>3. PICK g \in [1 .. N -> Nat] :
        g = Held(S \cup {m})
        /\ \A i \in 1 .. N : g[i] = IF i - 1 \in S \cup {m} THEN SizeAt(i - 1) ELSE 0
  BY <1>1, HeldTyped
<1>4. m + 1 \in 1 .. N /\ (m + 1) - 1 = m /\ SizeAt(m) \in Nat
  <2>1. m + 1 \in 1 .. N /\ (m + 1) - 1 = m
    BY <1>1, Numbers DEF Node
  <2> QED BY <2>1, SizeAtTyped
<1>5. f[m + 1] = 0 /\ g[m + 1] = SizeAt(m)
  BY <1>2, <1>3, <1>4
<1>6. \A i \in 1 .. N : i # m + 1 => g[i] = f[i]
  <2> TAKE i \in 1 .. N
  <2> HAVE i # m + 1
  <2>1. i - 1 # m
    BY <1>4
  <2> QED BY <1>2, <1>3, <2>1
<1>7. PICK k \in 1 .. N : k = m + 1
  BY <1>4
<1>8. TotalLarger(f, g, N, SizeAt(m))
  <2>1. PICK d \in Nat : d = SizeAt(m)
    BY <1>4
  <2>2. g[k] = f[k] + d /\ \A i \in 1 .. N : i # k => g[i] = f[i]
    BY <1>5, <1>6, <1>7, <2>1
  <2> QED BY <2>1, <2>2, TotalOfOneLarger
<1>9. Bytes(S) = Total(f, N) /\ Bytes(S \cup {m}) = Total(g, N)
  BY <1>1, <1>2, <1>3 DEF Bytes, Held
<1> QED
  BY <1>8, <1>9 DEF TotalLarger

LEMMA NodesFinite ==
  ASSUME NEW S \in SUBSET Node
  PROVE  IsFiniteSet(S) /\ Cardinality(S) \in Nat
<1>1. IsFiniteSet(Node)
  BY Numbers, FS_Interval DEF Node
<1>2. IsFiniteSet(S)
  BY <1>1, FS_Subset
<1> QED
  BY <1>2, FS_CardinalityType

LEMMA OneMoreNode ==
  ASSUME NEW S \in SUBSET Node, NEW n \in Node \ S
  PROVE  Cardinality(S \cup {n}) = Cardinality(S) + 1
BY NodesFinite, FS_AddElement

LEMMA NoFewerNodes ==
  ASSUME NEW S \in SUBSET Node, NEW T \in SUBSET Node, S \subseteq T
  PROVE  Cardinality(S) <= Cardinality(T)
BY NodesFinite, FS_Subset

LEMMA NodesOfBoth ==
  ASSUME NEW S \in SUBSET Node, NEW T \in SUBSET Node, S \cap T = {}
  PROVE  Cardinality(S \cup T) = Cardinality(S) + Cardinality(T)
<1>1. Cardinality(S \cap T) = 0
  BY FS_EmptySet
<1>2. Cardinality(S \cup T) = Cardinality(S) + Cardinality(T) - Cardinality(S \cap T)
  BY NodesFinite, FS_Union
<1> QED
  BY <1>1, <1>2, NodesFinite

-----------------------------------------------------------------------------
(* How the division of what was reached changes.                           *)

\* A node that is neither a file nor a directory is passed over.
LEMMA PassOver ==
  ASSUME NEW L, NEW P, NEW D, NEW n, Partition(L, P, {n}, D), kind[n] \in {"other", "pipe"}
  PROVE  Partition(L, P, {}, D)
BY DEF Partition

\* A file is collected.
LEMMA Collect ==
  ASSUME NEW L, NEW P, NEW D, NEW n, Partition(L, P, {n}, D), kind[n] = "file"
  PROVE  Partition(L, P, {}, D \cup {n})
BY DEF Partition

\* A loop yields a name.
LEMMA Yield ==
  ASSUME NEW L, NEW P, NEW D, NEW n \in P, Partition(L, P, {}, D)
  PROVE  Partition(L, P \ {n}, {n}, D)
BY DEF Partition

\* The loop over a directory begins: none of its names had been reached.
LEMMA ListedNames ==
  ASSUME NEW L, NEW P, NEW D, NEW n, Partition(L, P, {n}, D), kind[n] = "dir", Tree
  PROVE  /\ Partition(L \cup {n}, P \cup Children(n), {}, D)
         /\ P \cap Children(n) = {}
<1> DEFINE K == Children(n)
<1>1. /\ L \in SUBSET Node /\ n \in Node /\ n \in Reached(L) /\ n \notin L
      /\ L \cup P \cup D \subseteq Reached(L)
  BY DEF Partition, Reached
<1>2. K = {c \in Node \ {Root} : parent[c] = n /\ kind[c] # "gone"}
  BY DEF Children
<1>3. Reached(L \cup {n}) = Reached(L) \cup K
  BY <1>1, <1>2 DEF Reached
<1>4. Reached(L) \cap K = {}
  BY <1>1, <1>2 DEF Reached
<1>5. n \notin K
  BY <1>1, <1>4
<1> HIDE DEF K
<1>6. Root \notin K
  BY <1>2
<1>7. Partition(L \cup {n}, P \cup K, {}, D)
  BY <1>1, <1>3, <1>4, <1>5, <1>6 DEF Partition
<1> QED
  BY <1>1, <1>4, <1>7 DEF K

\* Once nothing is left to yield and nothing is being visited, everything was reached.
LEMMA AllReached ==
  ASSUME WalkInv, Tree, NEW L, NEW D, Partition(L, {}, {}, D)
  PROVE  \A n \in Node : kind[n] # "gone" => n \in Reached(L)
<1> DEFINE T == {n \in Node : kind[n] # "gone" /\ n \notin Reached(L)}
<1> SUFFICES ASSUME T # {} PROVE FALSE
  OBVIOUS
<1>1. T \in SUBSET Nat
  BY Numbers
<1>2. PICK n \in T : \A m \in T : n <= m
  <2> HIDE DEF T
  <2> QED BY <1>1, LeastNat
<1>3. n \in Node /\ n # Root /\ kind[n] # "gone"
  BY DEF Reached
<1>4. parent[n] \in Node /\ parent[n] < n /\ kind[parent[n]] = "dir"
  BY <1>3 DEF Tree
<1>5. n \in Nat /\ parent[n] \in Nat
  BY <1>3, <1>4, Numbers
<1>6. parent[n] \notin T
  BY <1>2, <1>4, <1>5
<1>7. parent[n] \in Reached(L)
  BY <1>4, <1>6
<1>8. parent[n] \in L
  BY <1>4, <1>7 DEF Partition
<1>9. n \in Reached(L)
  BY <1>3, <1>8 DEF Reached
<1> QED
  BY <1>2, <1>9

-----------------------------------------------------------------------------
(* What a refusal means.                                                   *)

LEMMA Founds ==
  ASSUME WalkInv, NEW L, NEW P, NEW C, NEW D, Partition(L, P, C, D)
  PROVE  /\ D \in SUBSET Node /\ L \in SUBSET Node /\ P \in SUBSET Node /\ C \in SUBSET Node
         /\ D \subseteq {n \in Node : kind[n] = "file"}
         /\ \A n \in L \cup P \cup C \cup D : n = Root \/ kind[n] # "gone"
BY DEF Partition, Reached

\* The total would pass its limit.
LEMMA TooManyBytes ==
  ASSUME WalkInv, NEW L, NEW P, NEW D, Partition(L, P, {at}, D), total <= Bytes(D),
         kind[at] = "file", ~WithinSizes(SizeAt(at))
  PROVE  Cause
<1> DEFINE found == {n \in Node : kind[n] = "file"}
<1>1. /\ at \in found /\ at \in Node \ D /\ D \subseteq found
      /\ SizeAt(at) \in Nat /\ total \in Nat
  <2>1. at \in found /\ at \in Node \ D /\ D \subseteq found
    BY DEF Partition, Reached
  <2> QED BY <2>1, SizeAtTyped, Numbers DEF WalkInv, TypeOK
<1>2. Bytes(D \cup {at}) = Bytes(D) + SizeAt(at)
  BY <1>1, BytesOfOneMore
<1>3. D \cup {at} \subseteq found
  BY <1>1
<1> HIDE DEF found
<1>4. Bytes(D \cup {at}) <= Bytes(found)
  BY <1>3, BytesGrow
<1>5. Bytes(D) \in Nat /\ Bytes(found) \in Nat
  BY BytesTyped
<1>6. total + SizeAt(at) <= Bytes(found)
  BY <1>1, <1>2, <1>4, <1>5
<1>7. SizeAt(at) > MaxBytesPerFile \/ Bytes(found) > MaxTotalBytes
  <2>1. ~(SizeAt(at) <= MaxBytesPerFile) \/ ~(total + SizeAt(at) <= MaxTotalBytes)
    BY DEF WithinSizes
  <2> QED BY <1>1, <1>5, <1>6, <2>1, Numbers
<1> QED
  BY <1>1, <1>7 DEF Cause, found

\* There are as many files as allowed, and a name besides.
LEMMA TooManyFiles ==
  ASSUME WalkInv, NEW L, NEW P, NEW C, NEW D, Partition(L, P, C, D), NEW c \in P,
         Cardinality(D) = Len(out), TooMany
  PROVE  Cause
<1> DEFINE found == {n \in Node : kind[n] = "file"}
<1>1. D \in SUBSET Node /\ D \subseteq found /\ c \in Node \ {Root} /\ c \notin D /\ kind[c] # "gone"
  BY DEF Partition, Reached
<1>2. found \in SUBSET Node
  OBVIOUS
<1>4. Cardinality(D) \in Nat /\ Cardinality(found) \in Nat /\ Cardinality(D) >= MaxFiles
  BY <1>1, <1>2, NodesFinite DEF TooMany
<1>5. CASE kind[c] = "file"
  <2>1. D \cup {c} \subseteq found /\ D \cup {c} \in SUBSET Node
    BY <1>1, <1>5
  <2> HIDE DEF found
  <2>2. Cardinality(D \cup {c}) <= Cardinality(found)
    BY <1>2, <2>1, NoFewerNodes
  <2>3. Cardinality(D \cup {c}) = Cardinality(D) + 1
    BY <1>1, OneMoreNode
  <2>4. Cardinality(found) > MaxFiles
    BY <1>4, <2>2, <2>3, Numbers
  <2> QED BY <2>4 DEF Cause, found
<1>6. CASE kind[c] # "file"
  <2>1. c \in {n \in Node \ {Root} : kind[n] \notin {"file", "gone"}}
    BY <1>1, <1>6
  <2>2. Cardinality(D) <= Cardinality(found)
    <3> HIDE DEF found
    <3> QED BY <1>1, <1>2, NoFewerNodes
  <2>3. Cardinality(found) > MaxFiles \/ Cardinality(found) = MaxFiles
    BY <1>4, <2>2, Numbers
  <2> QED BY <2>1, <2>3 DEF Cause
<1> QED
  BY <1>5, <1>6

\* There is no descriptor left.
LEMMA TooManyOpen ==
  ASSUME WalkInv, NEW L, NEW P, NEW D, Partition(L, P, {at}, D), Looping(L),
         Cardinality(D) = Len(out), ~MayOpen, kind[at] \in {"file", "dir"}
  PROVE  Cause
<1> DEFINE both == {n \in Node : kind[n] \in {"dir", "file"}}
<1>1. /\ L \in SUBSET Node /\ D \in SUBSET Node /\ at \in Node
      /\ L \cap D = {} /\ at \notin L \cup D /\ L \cup D \cup {at} \subseteq both
  BY DEF Partition, Reached
<1>2. both \in SUBSET Node
  OBVIOUS
<1> HIDE DEF both
<1>3. Cardinality(L \cup D) = Cardinality(L) + Cardinality(D)
  BY <1>1, NodesOfBoth
<1>4. Cardinality((L \cup D) \cup {at}) = Cardinality(L \cup D) + 1
  BY <1>1, OneMoreNode
<1>5. Cardinality((L \cup D) \cup {at}) <= Cardinality(both)
  BY <1>1, <1>2, NoFewerNodes
<1>6. Cardinality(L) \in Nat /\ Cardinality(D) \in Nat /\ Cardinality(both) \in Nat
  BY <1>1, <1>2, NodesFinite
<1>7. Len(stack) \in Nat /\ Len(stack) <= Cardinality(L) /\ Len(stack) + Len(out) >= MaxOpen
  BY Numbers, <1>6 DEF Looping, MayOpen, WalkInv, TypeOK
<1>8. Cardinality(both) > MaxOpen
  BY <1>3, <1>4, <1>5, <1>6, <1>7, Numbers
<1> QED
  BY <1>8 DEF Cause, both

\* The system refuses the name.
LEMMA BarredIsCause ==
  ASSUME WalkInv, NEW L, NEW P, NEW D, Partition(L, P, {at}, D), at \in barred
  PROVE  Cause
<1>1. at \in Node /\ (at = Root \/ kind[at] # "gone")
  BY Founds
<1> QED
  BY <1>1 DEF Cause

-----------------------------------------------------------------------------
(* The steps of a walk over such a tree.                                   *)

Untouched == changes = 0 /\ via = "path" /\ Tree /\ shrunk = {} /\ offset = 0

LEMMA TreeStays ==
  ASSUME WalkUnchanged
  PROVE  (Tree' <=> Tree) /\ (Cause' <=> Cause)
<1>1. /\ parent' = parent /\ kind' = kind /\ size' = size
      /\ inode' = inode /\ barred' = barred
  BY DEF WalkUnchanged, files
<1>2. Tree' <=> Tree
  BY <1>1, Zenon DEF Tree
<1>3. Cause' <=> Cause
  BY <1>1, Zenon DEF Cause, Bytes, SizeAt
<1> QED
  BY <1>2, <1>3

LEMMA QuietGoesOn ==
  ASSUME Untouched, WalkUnchanged, pc' # "err", NEW M \in SUBSET Node, QuietState(M)'
  PROVE  Quiet'
<1>1. Tree' /\ via' = "path" /\ shrunk' = {} /\ offset' = 0
  BY TreeStays DEF Untouched, WalkUnchanged
<1>2. \E S \in SUBSET Node : QuietState(S)'
  BY Zenon
<1> QED
  BY <1>1, <1>2, Zenon DEF Quiet

LEMMA QuietFails == ASSUME Untouched, Fail, Cause PROVE Quiet'
<1>1. WalkUnchanged /\ pc' = "err"
  BY DEF Fail, Go
<1>2. Tree' /\ via' = "path" /\ shrunk' = {} /\ offset' = 0 /\ Cause'
  BY <1>1, TreeStays DEF Untouched, WalkUnchanged
<1> QED
  BY <1>1, <1>2, Zenon DEF Quiet

\* A step that collects nothing.
LEMMA NothingCollected ==
  ASSUME WalkUnchanged, out' = out, CollectedOnce,
         NEW M, NEW P, NEW C, Partition(M, P, C, Collected), P = Pending', C = Current',
         Looping(M)', Weighed', pc' # "wait", pc' = "list" => kind[at'] = "dir",
         pc' = "ok" => reading = Len(out) + 1
  PROVE  QuietState(M)'
<1>1. /\ parent' = parent /\ kind' = kind /\ size' = size /\ inode' = inode
      /\ reading' = reading
  BY DEF WalkUnchanged, files
<1>2. Collected' = Collected
  BY Zenon DEF Collected
<1>4. Partition(M, Pending, Current, Collected)'
  BY <1>1, <1>2, Zenon DEF Partition, Reached
<1>5. CollectedOnce'
  BY <1>1, <1>2, Zenon DEF CollectedOnce, AsSeen, SizeAt
<1> QED
  BY <1>1, <1>4, <1>5, Zenon DEF QuietState

\* A step that counts nothing and opens nothing.
LEMMA NothingCounted ==
  ASSUME WalkUnchanged, out' = out, total' = total, Weighed, pc # "open", pc' # "open"
  PROVE  Weighed'
<1>1. Collected' = Collected
  BY Zenon DEF Collected
<1>2. Bytes(Collected)' = Bytes(Collected)
  BY <1>1, Zenon DEF Bytes, SizeAt, WalkUnchanged, files
<1> QED
  BY <1>2 DEF Weighed

LEMMA QuietVisit ==
  ASSUME WalkInv, Untouched, NEW L \in SUBSET Node, QuietState(L), Visit
  PROVE  Quiet'
<1>1. /\ pc = "visit" /\ Current = {at} /\ kind[at] \in Kind /\ at \in Node
      /\ Partition(L, Pending, {at}, Collected) /\ Looping(L) /\ CollectedOnce /\ Weighed
      /\ total <= Bytes(Collected)
  BY DEF Visit, Current, QuietState, WalkInv, TypeOK, Weighed
<1>2. CASE kind[at] = "gone" /\ Fail
  <2>1. at = Root
    BY <1>1, <1>2, Founds
  <2>2. Cause
    BY <1>2, <2>1 DEF Cause
  <2> QED BY <1>2, <2>2, QuietFails
<1>3. CASE kind[at] \in {"other", "pipe"} /\ Go("next")
  <2>1. WalkUnchanged /\ UNCHANGED <<at, seen, which, stack, total, out>> /\ pc' = "next"
    BY <1>3 DEF Go
  <2>2. Partition(L, Pending, {}, Collected)
    BY <1>1, <1>3, PassOver
  <2>3. Pending' = Pending /\ Current' = {}
    BY <2>1 DEF Pending, Current
  <2>4. Looping(L)' /\ Weighed'
    BY <1>1, <2>1, NothingCounted DEF Looping
  <2>5. QuietState(L)'
    BY <1>1, <2>1, <2>2, <2>3, <2>4, NothingCollected
  <2> QED BY <2>1, <2>5, QuietGoesOn
<1>4. CASE kind[at] = "dir" /\ Go("list")
  <2>1. WalkUnchanged /\ UNCHANGED <<at, seen, which, stack, total, out>> /\ pc' = "list"
    BY <1>4 DEF Go
  <2>2. Pending' = Pending /\ Current' = {at}
    BY <2>1 DEF Pending, Current
  <2>3. Looping(L)' /\ Weighed'
    BY <1>1, <2>1, NothingCounted DEF Looping
  <2>4. QuietState(L)'
    BY <1>1, <1>4, <2>1, <2>2, <2>3, NothingCollected
  <2> QED BY <2>1, <2>4, QuietGoesOn
<1>5. CASE kind[at] = "file" /\ ~WithinSizes(SizeAt(at)) /\ Fail
  <2>1. Cause
    BY <1>1, <1>5, TooManyBytes
  <2> QED BY <1>5, <2>1, QuietFails
<1>6. CASE /\ kind[at] = "file" /\ pc' = "open" /\ seen' = SizeAt(at) /\ which' = inode[at]
           /\ total' = total + SizeAt(at)
           /\ UNCHANGED <<at, stack, out>> /\ WalkUnchanged
  <2>1. Pending' = Pending /\ Current' = {at} /\ Collected' = Collected
    BY <1>6 DEF Pending, Current, Collected
  <2>2. Bytes(Collected)' = Bytes(Collected) /\ kind' = kind /\ inode' = inode /\ size' = size
    BY <1>6, <2>1, Zenon DEF Bytes, SizeAt, WalkUnchanged, files
  <2>3. Bytes(Collected) \in Nat /\ SizeAt(at) \in Nat /\ total \in Nat
    <3>1. total \in Nat
      BY Numbers DEF WalkInv, TypeOK
    <3> QED BY <1>1, <3>1, BytesTyped, SizeAtTyped
  <2>4. Weighed'
    <3>1. SizeAt(at)' = SizeAt(at)
      BY <1>6, <2>2 DEF SizeAt
    <3> QED BY <1>1, <1>6, <2>2, <2>3, <3>1 DEF Weighed
  <2>5. Looping(L)'
    BY <1>1, <1>6 DEF Looping
  <2>6. QuietState(L)'
    BY <1>1, <1>6, <2>1, <2>4, <2>5, NothingCollected
  <2> QED BY <1>6, <2>6, QuietGoesOn
<1>7. CASE Barred
  <2>1. Cause
    BY <1>1, <1>7, BarredIsCause DEF Barred
  <2> QED BY <1>7, <2>1, QuietFails DEF Barred
<1> QED
  BY <1>2, <1>3, <1>4, <1>5, <1>6, <1>7 DEF Visit, Seen

LEMMA QuietList ==
  ASSUME WalkInv, Untouched, NEW L \in SUBSET Node, QuietState(L), List
  PROVE  Quiet'
<1>1. /\ pc = "list" /\ Current = {at} /\ at \in Node /\ kind[at] = "dir"
      /\ Partition(L, Pending, {at}, Collected) /\ Looping(L) /\ CollectedOnce /\ Weighed
  BY DEF List, Current, QuietState, WalkInv, TypeOK
<1>2. CASE ~MayOpen /\ Fail
  <2>1. Cause
    BY <1>1, <1>2, TooManyOpen DEF CollectedOnce
  <2> QED BY <1>2, <2>1, QuietFails
<1>3. CASE /\ pc' = "next" /\ stack' = Append(stack, Children(at))
           /\ UNCHANGED <<at, seen, which, total, out>> /\ WalkUnchanged
  <2>1. PICK M : M = L \cup {at}
    OBVIOUS
  <2>2. PICK K : K = Children(at)
    OBVIOUS
  <2>3. K \in SUBSET Node /\ M \in SUBSET Node /\ at \notin L
    BY <1>1, <2>1, <2>2 DEF Children, Partition
  <2>4. Partition(M, Pending \cup K, {}, Collected) /\ Pending \cap K = {}
    BY <1>1, <2>1, <2>2, ListedNames DEF Untouched
  <2>5. stack \in Seq(SUBSET Node) /\ stack' = Append(stack, K)
    BY <1>3, <2>2 DEF WalkInv, TypeOK
  <2>6. /\ Len(stack') = Len(stack) + 1 /\ Len(stack) \in Nat
        /\ \A i \in 1 .. Len(stack) : stack'[i] = stack[i]
        /\ stack'[Len(stack) + 1] = K
    BY <2>3, <2>5, AppendProperties
  <2>7. \A i \in 1 .. Len(stack) : stack[i] \subseteq Pending
    BY <2>5 DEF Pending
  <2>8. Pending' = Pending \cup K
    <3>1. \A i \in 1 .. Len(stack') : i \in 1 .. Len(stack) \/ i = Len(stack) + 1
      BY <2>6
    <3>2. \A i \in 1 .. Len(stack) : i \in 1 .. Len(stack')
      BY <2>6
    <3>3. Len(stack) + 1 \in 1 .. Len(stack')
      BY <2>6
    <3>4. \A n \in Node : (\E i \in 1 .. Len(stack') : n \in stack'[i])
                          <=> n \in K \/ \E i \in 1 .. Len(stack) : n \in stack[i]
      BY <2>6, <3>1, <3>2, <3>3
    <3> QED BY <2>3, <3>4 DEF Pending
  <2>9. Looping(M)'
    <3>1. \A i, j \in 1 .. Len(stack') : i # j => stack'[i] \cap stack'[j] = {}
      <4> TAKE i, j \in 1 .. Len(stack')
      <4> HAVE i # j
      <4>1. CASE i \in 1 .. Len(stack) /\ j \in 1 .. Len(stack)
        BY <1>1, <2>6, <4>1 DEF Looping
      <4>2. CASE i = Len(stack) + 1 /\ j \in 1 .. Len(stack)
        BY <2>4, <2>6, <2>7, <4>2
      <4>3. CASE j = Len(stack) + 1 /\ i \in 1 .. Len(stack)
        BY <2>4, <2>6, <2>7, <4>3
      <4> QED BY <2>6, <4>1, <4>2, <4>3
    <3>2. Cardinality(M) = Cardinality(L) + 1 /\ Cardinality(L) \in Nat
      BY <1>1, <2>1, <2>3, OneMoreNode, NodesFinite
    <3>3. Len(stack') <= Cardinality(M)
      BY <1>1, <2>6, <3>2 DEF Looping
    <3> QED BY <1>3, <3>1, <3>3 DEF Looping
  <2>10. Current' = {}
    BY <1>3 DEF Current
  <2>11. Weighed'
    BY <1>1, <1>3, NothingCounted
  <2>12. QuietState(M)'
    BY <1>1, <1>3, <2>4, <2>8, <2>9, <2>10, <2>11, NothingCollected
  <2> QED BY <1>3, <2>3, <2>12, QuietGoesOn
<1>4. CASE Barred
  <2>1. Cause
    BY <1>1, <1>4, BarredIsCause DEF Barred
  <2> QED BY <1>4, <2>1, QuietFails DEF Barred
<1> QED
  BY <1>1, <1>2, <1>3, <1>4 DEF List

LEMMA QuietOpen ==
  ASSUME WalkInv, Untouched, NEW L \in SUBSET Node, QuietState(L), Open
  PROVE  Quiet'
<1>1. /\ pc = "open" /\ Current = {at} /\ at \in Node /\ kind[at] = "file"
      /\ Partition(L, Pending, {at}, Collected) /\ Looping(L) /\ CollectedOnce
      /\ seen = SizeAt(at) /\ which = inode[at] /\ total <= Bytes(Collected) + seen
  BY DEF Open, Current, QuietState, WalkInv, TypeOK, Weighed
<1>2. CASE ~MayOpen /\ Fail
  <2>1. Cause
    BY <1>1, <1>2, TooManyOpen DEF CollectedOnce
  <2> QED BY <1>2, <2>1, QuietFails
<1>3. CASE Opened /\ pc' = "next"
  <2>0. /\ parent' = parent /\ kind' = kind /\ size' = size /\ inode' = inode
        /\ UNCHANGED <<at, seen, which, stack, total>> /\ WalkUnchanged
    BY <1>3 DEF Opened, WalkUnchanged, files
  <2>1. out \in Seq(Entries) /\ seen \in 0 .. LargestFile
    BY DEF WalkInv, TypeOK, Entries
  <2>2. /\ out' \in Seq(Entries) /\ Len(out') = Len(out) + 1 /\ Len(out) \in Nat
        /\ \A i \in 1 .. Len(out) : out'[i] = out[i]
        /\ out'[Len(out) + 1].node = at /\ AsSeen(out'[Len(out) + 1])
    <3>1. Entry(at, which, seen).node = at /\ AsSeen(Entry(at, which, seen))
      BY <1>1 DEF Entry, AsSeen
    <3> QED BY <1>3, <3>1, OpenedAppends
  <2>3. PICK D : D = Collected
    OBVIOUS
  <2>4. D \in SUBSET Node /\ at \notin D /\ Cardinality(D) = Len(out)
    BY <1>1, <2>3 DEF Partition, Collected, CollectedOnce
  <2>5. /\ \A i \in 1 .. Len(out') : i \in 1 .. Len(out) \/ i = Len(out) + 1
        /\ \A i \in 1 .. Len(out) : i \in 1 .. Len(out')
        /\ Len(out) + 1 \in 1 .. Len(out')
    BY <2>2
  <2>6. Collected' = D \cup {at}
    <3>1. \A n \in Node : (\E i \in 1 .. Len(out') : out'[i].node = n)
                          <=> n = at \/ \E i \in 1 .. Len(out) : out[i].node = n
      BY <2>2, <2>5
    <3> QED BY <1>1, <2>3, <3>1 DEF Collected
  <2>7. Partition(L, Pending, {}, D \cup {at})
    BY <1>1, <2>3, Collect
  <2>8. Pending' = Pending /\ Current' = {}
    BY <1>3, <2>0 DEF Pending, Current
  <2>9. Partition(L, Pending, Current, Collected)'
    BY <2>0, <2>6, <2>7, <2>8, Zenon DEF Partition, Reached
  <2>10. Looping(L)'
    BY <1>1, <1>3, <2>0 DEF Looping
  <2>11. CollectedOnce'
    <3>1. Cardinality(Collected)' = Len(out')
      BY <1>1, <2>2, <2>4, <2>6, OneMoreNode
    <3>2. \A i \in 1 .. Len(out) : out[i].node \in D
      <4>1. \A i \in 1 .. Len(out) : out[i] \in Entries
        BY <2>1
      <4> QED BY <2>3, <4>1 DEF Collected, Entries
    <3>3. \A i, j \in 1 .. Len(out') : out'[i].node = out'[j].node => i = j
      <4> TAKE i, j \in 1 .. Len(out')
      <4>1. CASE i \in 1 .. Len(out) /\ j \in 1 .. Len(out)
        BY <1>1, <2>2, <4>1 DEF CollectedOnce
      <4>2. CASE i = Len(out) + 1 /\ j \in 1 .. Len(out)
        BY <2>2, <2>4, <3>2, <4>2
      <4>3. CASE j = Len(out) + 1 /\ i \in 1 .. Len(out)
        BY <2>2, <2>4, <3>2, <4>3
      <4> QED BY <2>5, <4>1, <4>2, <4>3
    <3>4. \A i \in 1 .. Len(out') : AsSeen(out'[i])
      <4> TAKE i \in 1 .. Len(out')
      <4>1. CASE i \in 1 .. Len(out)
        BY <1>1, <2>2, <4>1 DEF CollectedOnce
      <4>2. CASE i = Len(out) + 1
        BY <1>1, <2>2, <4>2
      <4> QED BY <2>5, <4>1, <4>2
    <3>5. \A e : AsSeen(e)' <=> AsSeen(e)
      BY <2>0, Zenon DEF AsSeen, SizeAt
    <3> QED BY <3>1, <3>3, <3>4, <3>5 DEF CollectedOnce
  <2>12. Weighed'
    <3>1. Bytes(D \cup {at}) = Bytes(D) + SizeAt(at)
      BY <1>1, <2>4, BytesOfOneMore
    <3>2. Bytes(Collected)' = Bytes(D \cup {at})
      BY <2>0, <2>6, Zenon DEF Bytes, SizeAt
    <3> QED BY <1>1, <1>3, <2>0, <2>3, <3>1, <3>2 DEF Weighed
  <2>13. QuietState(L)'
    BY <1>3, <2>9, <2>10, <2>11, <2>12 DEF QuietState
  <2> QED BY <1>3, <2>0, <2>13, QuietGoesOn
<1>4. CASE Barred
  <2>1. Cause
    BY <1>1, <1>4, BarredIsCause DEF Barred
  <2> QED BY <1>4, <2>1, QuietFails DEF Barred
<1> QED
  BY <1>1, <1>2, <1>3, <1>4 DEF Open, Opened

LEMMA QuietNextEntry ==
  ASSUME WalkInv, Untouched, NEW L \in SUBSET Node, QuietState(L), NextEntry
  PROVE  Quiet'
<1>1. /\ pc = "next" /\ Current = {} /\ Looping(L) /\ CollectedOnce /\ Weighed
      /\ Partition(L, Pending, {}, Collected)
  BY DEF NextEntry, Current, QuietState
<1>2. PICK depth \in 1 .. Len(stack) : depth = Len(stack)
  <2>1. stack \in Seq(SUBSET Node) /\ stack # <<>>
    BY DEF NextEntry, WalkInv, TypeOK
  <2> QED BY <2>1
<1>3. /\ stack \in Seq(SUBSET Node) /\ Len(stack) = depth /\ depth \in Nat \ {0}
      /\ \A i \in 1 .. depth : stack[i] \in SUBSET Node
  <2>1. stack \in Seq(SUBSET Node)
    BY DEF WalkInv, TypeOK
  <2> QED BY <1>2, <2>1
<1>4. stack[depth] \subseteq Pending
  BY <1>3 DEF Pending
<1>5. Cardinality(L) \in Nat
  BY NodesFinite
<1>6. CASE stack[depth] = {} /\ stack' = SubSeq(stack, 1, depth - 1)
           /\ UNCHANGED <<pc, at, seen, which, total, out>> /\ WalkUnchanged
  <2>1. Len(stack') = depth - 1 /\ \A i \in 1 .. depth - 1 : stack'[i] = stack[i]
    BY <1>3, <1>6
  <2>2. Pending' = Pending
    <3>1. \A n \in Node : (\E i \in 1 .. Len(stack') : n \in stack'[i])
                          <=> \E i \in 1 .. Len(stack) : n \in stack[i]
      BY <1>3, <1>6, <2>1
    <3> QED BY <3>1 DEF Pending
  <2>3. Current' = {}
    BY <1>1, <1>6 DEF Current
  <2>4. Looping(L)'
    <3>1. \A i, j \in 1 .. Len(stack') : i # j => stack'[i] \cap stack'[j] = {}
      BY <1>1, <1>3, <2>1 DEF Looping
    <3>2. Len(stack') <= Cardinality(L)
      BY <1>1, <1>3, <1>5, <2>1 DEF Looping
    <3> QED BY <1>1, <1>6, <3>1, <3>2 DEF Looping
  <2>5. Weighed'
    BY <1>1, <1>6, NothingCounted
  <2>6. QuietState(L)'
    BY <1>1, <1>6, <2>2, <2>3, <2>4, <2>5, NothingCollected
  <2> QED BY <1>1, <1>6, <2>6, QuietGoesOn
<1>7. CASE stack[depth] # {} /\ TooMany /\ Fail
  <2>1. PICK c \in Pending : TRUE
    BY <1>4, <1>7
  <2>2. Cause
    BY <1>1, <1>7, <2>1, TooManyFiles DEF CollectedOnce
  <2> QED BY <1>7, <2>2, QuietFails
<1>8. CASE /\ pc' = "visit"
           /\ \E c \in stack[depth] : at' = c /\ stack' = [stack EXCEPT ![depth] = @ \ {c}]
           /\ UNCHANGED <<seen, which, total, out>> /\ WalkUnchanged
  <2>1. PICK c \in stack[depth] : at' = c /\ stack' = [stack EXCEPT ![depth] = @ \ {c}]
    BY <1>8
  <2>2. /\ Len(stack') = Len(stack) /\ stack'[depth] = stack[depth] \ {c}
        /\ \A i \in 1 .. depth : i # depth => stack'[i] = stack[i]
        /\ c \in Pending
    BY <1>3, <1>4, <2>1
  <2>3. \A i \in 1 .. depth : i # depth => c \notin stack[i]
    BY <1>1, <1>3, <2>1 DEF Looping
  <2>4. Pending' = Pending \ {c}
    <3>1. \A n \in Node : (\E i \in 1 .. depth : n \in stack'[i])
                          <=> n # c /\ \E i \in 1 .. depth : n \in stack[i]
      BY <1>2, <2>1, <2>2, <2>3
    <3> QED BY <1>3, <2>2, <3>1 DEF Pending
  <2>5. Current' = {c}
    BY <1>8, <2>1 DEF Current
  <2>6. Partition(L, Pending \ {c}, {c}, Collected)
    BY <1>1, <2>2, Yield
  <2>7. Looping(L)'
    <3>1. \A i \in 1 .. depth : stack'[i] \subseteq stack[i]
      BY <2>2
    <3>2. \A i, j \in 1 .. depth : i # j => stack'[i] \cap stack'[j] = {}
      BY <1>1, <1>3, <3>1 DEF Looping
    <3> QED BY <1>1, <1>3, <1>8, <2>2, <3>2 DEF Looping
  <2>8. Weighed'
    BY <1>1, <1>8, NothingCounted
  <2>9. QuietState(L)'
    BY <1>1, <1>8, <2>4, <2>5, <2>6, <2>7, <2>8, NothingCollected
  <2> QED BY <1>8, <2>9, QuietGoesOn
<1> QED
  BY <1>2, <1>6, <1>7, <1>8 DEF NextEntry, LoopOver

LEMMA QuietEnd ==
  ASSUME WalkInv, Untouched, NEW L \in SUBSET Node, QuietState(L), Walked \/ Built
  PROVE  Quiet'
<1>1. PICK to \in {"read", "ok"} : Go(to) /\ stack = <<>> /\ pc \in {"next", "read"}
                                   /\ (to = "ok" => reading > Len(out))
  BY DEF Walked, Built, QuietState, Looping
<1>2. WalkUnchanged /\ UNCHANGED <<at, seen, which, stack, total, out>> /\ pc' \in {"read", "ok"}
      /\ (pc' = "ok" => reading > Len(out))
  BY <1>1 DEF Go
<1>3. /\ Current = {} /\ Looping(L) /\ CollectedOnce /\ Weighed
      /\ Partition(L, Pending, {}, Collected)
  BY <1>1 DEF Current, QuietState
<1>4. Pending' = Pending /\ Current' = {}
  BY <1>2 DEF Pending, Current
<1>5. Looping(L)' /\ Weighed'
  BY <1>1, <1>2, <1>3, NothingCounted DEF Looping
<1>6. pc' = "ok" => reading = Len(out) + 1
  BY <1>2 DEF WalkInv, TypeOK
<1>7. QuietState(L)'
  BY <1>2, <1>3, <1>4, <1>5, <1>6, NothingCollected
<1> QED
  BY <1>2, <1>7, QuietGoesOn

Same(d, e) ==
  d.size = e.size /\ d.node = e.node /\ d.was = e.was /\ d.file = e.file /\ d.what = e.what

\* Neither reading nor doing nothing changes any of it.
LEMMA QuietStays ==
  ASSUME WalkInv, Untouched, NEW L \in SUBSET Node, QuietState(L),
         UNCHANGED <<files, changes, shrunk, via, offset, pc, at, seen, which, stack, total>>,
         Len(out') = Len(out),
         \A i \in 1 .. Len(out) : Same(out'[i], out[i]),
         pc # "ok" \/ reading' = reading
  PROVE  QuietState(L)'
<1>1. /\ Looping(L) /\ CollectedOnce /\ Weighed
      /\ Partition(L, Pending, Current, Collected)
  BY DEF QuietState
<1>2. /\ parent' = parent /\ kind' = kind /\ size' = size /\ inode' = inode
      /\ UNCHANGED <<changes, shrunk, via, offset, pc, at, seen, which, stack, total>>
  BY DEF files
<1>5. Collected' = Collected
  BY DEF Collected, Same
<1>6. Pending' = Pending /\ Current' = Current
  BY <1>2 DEF Pending, Current
<1>7. Partition(L, Pending, Current, Collected)'
  BY <1>1, <1>2, <1>5, <1>6, Zenon DEF Partition, Reached
<1>8. CollectedOnce'
  <2>1. \A i \in 1 .. Len(out) : AsSeen(out[i])'
    BY <1>1, <1>2 DEF CollectedOnce, AsSeen, SizeAt, Same
  <2>2. \A i \in 1 .. Len(out) : out'[i].node = out[i].node
    BY DEF Same
  <2> QED BY <1>1, <1>2, <1>5, <2>1, <2>2 DEF CollectedOnce
<1>9. Looping(L)' /\ Weighed'
  <2>1. Looping(L)'
    BY <1>1, <1>2 DEF Looping
  <2>2. Bytes(Collected)' = Bytes(Collected)
    BY <1>2, <1>5, Zenon DEF Bytes, SizeAt
  <2> QED BY <1>1, <1>2, <2>1, <2>2 DEF Weighed, SizeAt
<1>10. /\ pc' # "wait" /\ (pc' = "list" => kind'[at'] = "dir")
       /\ pc' = "ok" => reading' = Len(out') + 1
  BY <1>2 DEF QuietState
<1> QED
  BY <1>7, <1>8, <1>9, <1>10 DEF QuietState

LEMMA QuietRead ==
  ASSUME WalkInv, Untouched, NEW L \in SUBSET Node, QuietState(L), Read \/ Awaited
  PROVE  Quiet'
<1>1. out \in Seq(Entries) /\ CollectedOnce /\ pc # "wait" /\ reading \in 1 .. Len(out) + 1
  BY DEF WalkInv, TypeOK, Entries, QuietState
<1>2. CASE reading <= Len(out) /\ out[reading].node \in barred /\ Fail
  <2>1. reading \in 1 .. Len(out) /\ out[reading] \in Entries
    BY <1>1, <1>2
  <2>2. out[reading].node \in Collected
    BY <2>1 DEF Collected, Entries
  <2>3. out[reading].node \in Node /\ kind[out[reading].node] = "file"
    BY <2>2 DEF QuietState, Partition, Collected
  <2>4. Cause
    BY <1>2, <2>3 DEF Cause
  <2> QED BY <1>2, <2>4, QuietFails
<1>3. CASE pc = "read" /\ \E n : Returns(n)
  <2>1. PICK n : Returns(n)
    BY <1>3
  <2>2. UNCHANGED <<files, changes, shrunk, via, offset, pc, at, seen, which, stack, total>>
    BY <2>1 DEF Returns
  <2>3. Len(out') = Len(out) /\ \A i \in 1 .. Len(out) : Same(out'[i], out[i])
    BY <1>1, <2>1, ReadKeepsSizes DEF Same
  <2>4. QuietState(L)'
    BY <1>3, <2>2, <2>3, QuietStays
  <2>5. Tree'
    BY <2>2 DEF Untouched, Tree, files
  <2> QED BY <1>3, <2>2, <2>4, <2>5 DEF Quiet, Untouched
<1>4. reading <= Len(out) => out[reading].what = "file"
  BY <1>1 DEF CollectedOnce, AsSeen
<1> QED
  BY <1>1, <1>2, <1>3, <1>4 DEF Read, Awaited, PipeOpens, ReadPipe

LEMMA QuietInit == Init => Quiet
<1> SUFFICES ASSUME Init PROVE Quiet
  OBVIOUS
<1>0. WalkInv
  BY WalkInvInit
<1>1. via = "fd" => pc = "read" /\ Given
  <2> SUFFICES ASSUME via = "fd" PROVE pc = "read" /\ Given
    OBVIOUS
  <2>1. pc = "read" /\ \E s \in {SizeAt(Root), 0} : out = <<Entry(Root, Root, s)>>
    BY DEF Init
  <2>2. Len(out) = 1 /\ out[1].node = Root /\ out[1].what = kind[Root]
    BY <2>1 DEF Entry
  <2> QED BY <2>1, <2>2 DEF Given
<1>2. Tree /\ shrunk = {} /\ (via = "path" => offset = 0)
  BY DEF Init, Tree
<1>3. ASSUME via = "path" PROVE pc # "err" /\ QuietState({})
  <2>1. pc = "visit" /\ at = Root /\ stack = <<>> /\ out = <<>> /\ total = 0
    BY <1>3 DEF Init
  <2>2. Len(stack) = 0 /\ Len(out) = 0 /\ Root \in Node
    BY <2>1, Numbers DEF Root
  <2>3. Pending = {} /\ Current = {Root} /\ Collected = {}
    BY <2>1, <2>2 DEF Pending, Current, Collected
  <2>4. Reached({}) = {Root}
    BY <2>2 DEF Reached
  <2>5. Partition({}, {}, {Root}, {})
    BY <2>2, <2>4 DEF Partition
  <2>6. Looping({}) /\ CollectedOnce
    BY <2>1, <2>2, <2>3, FS_EmptySet DEF Looping, CollectedOnce
  <2>7. Weighed
    BY <1>0, <2>1, BytesTyped DEF Weighed
  <2> QED BY <2>1, <2>3, <2>5, <2>6, <2>7 DEF QuietState
<1> QED
  BY <1>1, <1>2, <1>3 DEF Quiet

\* A descriptor is read, or refused for cause.
LEMMA GivenStays ==
  ASSUME WalkInv, Given, pc \in {"read", "ok", "err"}, [Next]_vars, ~Others
  PROVE  pc' \in {"read", "ok", "err"} /\ Given'
<1>1. out \in Seq(Entries) /\ reading \in 1 .. Len(out) + 1
  BY DEF WalkInv, TypeOK, Entries
<1>2. CASE Read \/ ReadPipe
  <2>1. pc = "read" /\ reading = 1
    BY <1>1, <1>2 DEF Read, ReadPipe, Given
  <2>2. CASE Fail
    <3>1. out' = out /\ kind' = kind /\ barred' = barred /\ pc' = "err"
      BY <2>2 DEF Fail, Go, WalkUnchanged, files
    <3>2. Read => kind[Root] = "dir" \/ Root \in barred \/ \E n : Returns(n)
      BY <2>1 DEF Read, Given
    <3>3. ReadPipe => \E n : Returns(n)
      BY DEF ReadPipe
    <3>4. \A n : Returns(n) => pc' = pc
      BY DEF Returns
    <3> QED BY <1>2, <2>1, <3>1, <3>2, <3>3, <3>4 DEF Given
  <2>3. CASE \E n : Returns(n)
    <3>1. PICK n : Returns(n)
      BY <2>3
    <3>2. pc' = pc /\ kind' = kind /\ barred' = barred
      BY <3>1 DEF Returns, files
    <3>3. /\ Len(out') = Len(out) /\ DOMAIN out = 1 .. Len(out)
          /\ \A i \in DOMAIN out : out'[i].node = out[i].node /\ out'[i].what = out[i].what
      BY <1>1, <3>1, ReadKeepsSizes
    <3> QED BY <2>1, <3>2, <3>3 DEF Given
  <2> QED BY <1>2, <2>2, <2>3 DEF Read, ReadPipe
<1>3. CASE Built
  BY <1>3 DEF Built, Go, WalkUnchanged, files, Given
<1>4. CASE UNCHANGED vars
  BY <1>4 DEF vars, files, Given
<1> QED
  BY <1>2, <1>3, <1>4 DEF Next, Process, Awaited, PipeOpens, Visit, List, Open, NextEntry, Walked,
                          Done

LEMMA QuietStepKeeps == ASSUME WalkInv, Quiet, [Next]_vars PROVE Quiet'
<1>0. changes \in Nat
  BY Numbers DEF WalkInv, TypeOK
<1>1. via' = via /\ (changes' = 0 => changes = 0 /\ ~Others)
  <2>1. CASE Others
    BY <1>0, <2>1, OthersDo
  <2>2. CASE Read \/ Awaited
    <3>1. CASE \E to \in {"next", "err"} : Go(to)
      BY <1>0, <3>1, OthersDo DEF Go, WalkUnchanged
    <3>2. CASE \E n : Returns(n)
      <4>1. PICK n : Returns(n)
        BY <3>2
      <4> QED BY <1>0, <4>1, OthersDo DEF Returns
    <3> QED BY <2>2, <3>1, <3>2, ReadsReturn
  <2>3. CASE ~Others /\ ~Read /\ ~Awaited
    BY <2>3 DEF Next, Process, Done, Visit, List, Open, NextEntry, Walked, Built, Fail, Barred,
                Go, WalkUnchanged, vars
  <2> QED BY <2>1, <2>2, <2>3
<1>2. ASSUME via = "fd" PROVE pc' \in {"read", "ok", "err"} /\ (changes' = 0 => Given')
  <2>1. pc \in {"read", "ok", "err"}
    BY <1>2 DEF Quiet
  <2>2. CASE Others
    BY <1>1, <2>1, <2>2, OthersDo
  <2>3. ASSUME changes' = 0 PROVE pc' \in {"read", "ok", "err"} /\ Given'
    BY <1>1, <1>2, <2>1, <2>3, GivenStays DEF Quiet
  <2>4. CASE ~Others
    BY <2>1, <2>4, <2>3 DEF Next, Process, Awaited, PipeOpens, ReadPipe, Returns, Done, Visit, List,
                Open, NextEntry, Walked, Read, Built, Fail, Go, vars
  <2> QED BY <2>2, <2>3, <2>4
<1>3. ASSUME changes' = 0, via' = "path" PROVE Quiet'
  <2>1. Untouched /\ ~Others /\ IF pc = "err" THEN Cause ELSE \E L \in SUBSET Node : QuietState(L)
    BY <1>1, <1>3 DEF Quiet, Untouched
  <2>2. CASE UNCHANGED vars
    <3>1. UNCHANGED <<files, changes, shrunk, via, offset, pc, at, seen, which, stack, total, out, reading>>
      BY <2>2 DEF vars
    <3>2. /\ parent' = parent /\ kind' = kind /\ size' = size
          /\ inode' = inode /\ barred' = barred
      BY <3>1 DEF files
    <3>3. Untouched' /\ (Cause' <=> Cause)
      <4>1. Tree'
        BY <2>1, <3>2 DEF Tree, Untouched
      <4>2. Cause' <=> Cause
        BY <3>2, Zenon DEF Cause, Bytes, SizeAt
      <4> QED BY <2>1, <3>1, <4>1, <4>2 DEF Untouched
    <3>4. CASE pc = "err"
      BY <2>1, <3>1, <3>3, <3>4 DEF Quiet, Untouched
    <3>5. CASE pc # "err"
      <4>1. PICK L \in SUBSET Node : QuietState(L)
        BY <2>1, <3>5
      <4>2. QuietState(L)'
        BY <2>1, <3>1, <4>1, QuietStays DEF Same
      <4> QED BY <3>1, <3>3, <3>5, <4>2 DEF Quiet, Untouched
    <3> QED BY <3>4, <3>5
  <2>3. CASE Process \/ Awaited
    <3>1. pc # "err"
      BY <2>3 DEF Process, Awaited, Visit, List, Open, NextEntry, Walked, Read, Built, PipeOpens, ReadPipe
    <3>2. PICK L \in SUBSET Node : QuietState(L)
      BY <2>1, <3>1
    <3> QED BY <2>1, <2>3, <3>2, QuietVisit, QuietList, QuietOpen, QuietNextEntry, QuietEnd,
               QuietRead DEF Process
  <2> QED BY <2>1, <2>2, <2>3 DEF Next, Done
<1> QED
  BY <1>1, <1>2, <1>3 DEF Quiet

\* A tree nobody touches is read whole, or refused for cause: every file under the path
\* once and with every byte, or a limit that the tree really passes, or a name that the
\* system bars; and it is never waited for.  A descriptor is refused only if it is a
\* directory or barred.
THEOREM QuietTreeIsExact == Spec => []QuietTreeExact
<1>1. WalkInv /\ Quiet => QuietTreeExact
  <2> SUFFICES ASSUME WalkInv, Quiet, changes = 0
               PROVE  /\ pc = "ok" /\ via = "path" => Whole
                      /\ pc = "err" /\ via = "path" => Cause
                      /\ via = "path" => ~Blocked
                      /\ via = "fd" /\ pc = "err" => kind[Root] = "dir" \/ Root \in barred
    BY DEF QuietTreeExact
  <2>1. /\ pc = "err" /\ via = "path" => Cause
        /\ via = "fd" /\ pc = "err" => kind[Root] = "dir" \/ Root \in barred
    BY DEF Quiet, Given
  <2>3. ASSUME via = "path", Blocked PROVE FALSE
    <3>1. PICK L \in SUBSET Node : QuietState(L)
      BY <2>3 DEF Quiet, Blocked
    <3>2. reading \in 1 .. Len(out) /\ out[reading].what = "pipe"
      BY <2>3, <3>1 DEF Blocked, QuietState, WalkInv, TypeOK
    <3> QED BY <3>1, <3>2 DEF QuietState, CollectedOnce, AsSeen
  <2>2. ASSUME pc = "ok", via = "path" PROVE Whole
    <3>1. PICK L \in SUBSET Node : QuietState(L)
      BY <2>2 DEF Quiet
    <3>2. Tree /\ shrunk = {} /\ offset = 0
      BY <2>2 DEF Quiet
    <3>3. /\ stack = <<>> /\ reading = Len(out) + 1 /\ CollectedOnce
          /\ Partition(L, Pending, {}, Collected)
      BY <2>2, <3>1 DEF QuietState, Looping, Current
    <3>4. Pending = {}
      BY <3>3 DEF Pending
    <3>5. \A n \in Node : kind[n] # "gone" => n \in Reached(L)
      BY <3>2, <3>3, <3>4, AllReached
    <3>6. out \in Seq(Entries) /\ DOMAIN out = 1 .. Len(out)
          /\ \A i \in 1 .. Len(out) : out[i] \in Entries
      <4>1. out \in Seq(Entries)
        BY DEF WalkInv, TypeOK, Entries
      <4> QED BY <4>1
    <3>7. {out[i].node : i \in DOMAIN out} = {n \in Node : kind[n] = "file"}
      <4>1. {out[i].node : i \in DOMAIN out} = Collected
        BY <3>6 DEF Collected, Entries
      <4>2. Collected \subseteq {n \in Node : kind[n] = "file"}
        BY <3>3 DEF Collected, Partition
      <4>3. \A n \in Node : kind[n] = "file" => n \in Collected
        BY <3>3, <3>4, <3>5 DEF Partition
      <4> QED BY <4>1, <4>2, <4>3
    <3>8. \A i \in DOMAIN out : out[i].got = SizeAt(out[i].node)
      <4> TAKE i \in DOMAIN out
      <4>1. i < reading /\ out[i] \in Entries
        BY <3>3, <3>6
      <4>2. out[i].got <= out[i].size /\ Complete(out[i])
        BY <4>1 DEF WalkInv, Sound
      <4>3. out[i].got \in Nat /\ out[i].size \in Nat
        BY <4>1, Numbers DEF Entries
      <4>4. out[i].got = out[i].size
        <5>1. out[i].was = out[i].file
          BY <3>3, <3>6 DEF CollectedOnce, AsSeen
        <5> QED BY <3>2, <4>2, <4>3, <5>1 DEF Complete
      <4>5. AsSeen(out[i])
        BY <3>3, <3>6 DEF CollectedOnce
      <4> QED BY <4>4, <4>5 DEF AsSeen
    <3> QED BY <3>3, <3>6, <3>7, <3>8 DEF Whole, CollectedOnce
  <2> QED BY <2>1, <2>2, <2>3
<1> QED
  BY <1>1, WalkConsistent, QuietInit, QuietStepKeeps, PTL DEF Spec
=============================================================================
