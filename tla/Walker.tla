------------------------------- MODULE Walker -------------------------------
(***************************************************************************)
(* What `seck analyze` reads: walker::walk over the path it was given, or  *)
(* the one descriptor of --fd, and build_fileset over the entries.         *)
(*                                                                         *)
(* The walk stats every name, checks it against WalkLimits, opens it, and  *)
(* keeps the size stat saw; the bytes are read once the whole walk is      *)
(* over.  The files belong to somebody else, who may grow, shrink or       *)
(* remove them, or put something else in their place, at any moment.       *)
(*                                                                         *)
(* A node is a name; nodes are numbered, every directory before what it    *)
(* contains; 0 is the path given.  What a name leads to is a file, which a *)
(* descriptor keeps when the name is gone or leads to another one.  A      *)
(* file's content is its size.                                             *)
(***************************************************************************)
EXTENDS Naturals, Sequences, FiniteSets, Loops

CONSTANTS
  LastNode,         \* bound: the nodes are 0 .. LastNode
  LargestFile,      \* bound: files hold 0 .. LargestFile bytes
  MaxChanges,       \* bound: changes others make meanwhile
  MayBar,           \* bound: the names the system may bar
  MaxFiles,         \* WalkLimits
  MaxBytesPerFile,
  MaxTotalBytes,
  MaxOpen,          \* how many descriptors the process may have open
  Chunk             \* what one read returns at most

ASSUME BoundsAssumption ==
  {LastNode, LargestFile, MaxChanges, MaxFiles, MaxBytesPerFile, MaxTotalBytes, MaxOpen}
    \subseteq Nat
ASSUME MayBarAssumption == MayBar \subseteq 0 .. LastNode
ASSUME ChunkAssumption == Chunk \in Nat \ {0}

Node == 0 .. LastNode
Root == 0
File == 0 .. LastNode + MaxChanges          \* a change may make one
Kind == {"dir", "file", "pipe", "other", "gone"}
  \* "pipe": a FIFO or a terminal; "other": what is not opened, such as a symlink;
  \* "gone": no such name

VARIABLES
  parent,   \* node -> the directory it is in
  kind,     \* node -> what it is now
  inode,    \* node -> the file it leads to
  size,     \* file -> how many bytes it holds, also once removed
  barred,   \* the nodes the system may refuse: on another mount, behind a symlink,
            \* without permission, or in error
  changes,  \* how many changes others have made
  shrunk,   \* the files that have lost bytes
  via,      \* how the input was given: "path" or "fd"
  offset,   \* where the descriptor given by --fd stands
  pc,       \* "visit", "list", "next", "open", "wait", "read", "ok" or "err"
  at,       \* the node being visited
  seen,     \* the size stat saw of it
  which,    \* the file stat saw there
  stack,    \* the read_dir loops under way: what each has yet to yield
  total,    \* the sizes added up so far
  out,      \* the entries: the node, the file stat saw, the one that was opened and
            \* what that is, the size stat saw, the bytes read so far
  reading   \* which entry build_fileset is at

files == <<parent, kind, inode, size, barred>>
vars  == <<files, changes, shrunk, via, offset, pc, at, seen, which, stack, total, out, reading>>

Children(n) == {c \in Node \ {Root} : parent[c] = n /\ kind[c] # "gone"}
SizeAt(n)   == size[inode[n]]
Entry(n, f, s) ==
  [node |-> n, was |-> f, file |-> inode[n], what |-> kind[n], size |-> s, got |-> 0]
Sizes       == Total([i \in DOMAIN out |-> out[i].size], Len(out))

-----------------------------------------------------------------------------
(* The walk.                                                               *)

Init ==
  /\ parent \in [Node -> Node]
  /\ parent[Root] = Root
  /\ \A n \in Node \ {Root} : parent[n] < n
  /\ kind \in [Node -> Kind]
  /\ \A n \in Node \ {Root} :
       IF kind[n] = "gone" THEN parent[n] = Root ELSE kind[parent[n]] = "dir"
  /\ inode = [n \in Node |-> n]
  /\ size \in [File -> 0 .. LargestFile]
  /\ \A f \in File : f \notin Node \/ kind[f] # "file" => size[f] = 0
  /\ barred \in SUBSET MayBar
  /\ changes = 0
  /\ shrunk = {}
  /\ stack = <<>>
  /\ total = 0
  /\ at = Root
  /\ seen = 0 /\ which = Root
  /\ reading = 1
  /\ \/ /\ via = "path" /\ offset = 0
        /\ pc = "visit"
        /\ out = <<>>
     \/ /\ via = "fd" /\ kind[Root] \in {"file", "dir", "pipe"}
        /\ offset \in 0 .. SizeAt(Root)
        /\ pc = "read"
        /\ \E s \in {SizeAt(Root), 0} : out = <<Entry(Root, Root, s)>>

WalkUnchanged == UNCHANGED <<files, changes, shrunk, via, offset, reading>>

Go(to) == pc' = to /\ UNCHANGED <<at, seen, which, stack, total, out>> /\ WalkUnchanged
Fail   == Go("err")
Barred == at \in barred /\ Fail

\* symlink_metadata: what the walk takes the node for.
SeenFollowing(n) == IF kind[n] = "other" THEN "file" ELSE kind[n]
Seen(n)          == kind[n]

\* The two limits on sizes.  The total counts the file before it is compared.
WithinSizesBefore(s) == s <= MaxBytesPerFile /\ total <= MaxTotalBytes
WithinSizes(s)       == s <= MaxBytesPerFile /\ total + s <= MaxTotalBytes

Visit ==
  /\ pc = "visit"
  /\ \/ Seen(at) = "gone" /\ Fail
     \/ Barred
     \/ Seen(at) \in {"other", "pipe"} /\ Go("next")
     \/ Seen(at) = "dir" /\ Go("list")
     \/ Seen(at) = "file" /\ ~WithinSizes(SizeAt(at)) /\ Fail
     \/ /\ Seen(at) = "file" /\ WithinSizes(SizeAt(at))
        /\ pc' = "open"
        /\ seen' = SizeAt(at) /\ which' = inode[at]
        /\ total' = total + SizeAt(at)
        /\ UNCHANGED <<at, stack, out>>
        /\ WalkUnchanged

\* read_dir and open_target each take a descriptor, held until the loop over the
\* directory, or the reading of the file, is over.
MayOpen == Len(stack) + Len(out) < MaxOpen

\* A symlink that took the directory's place is followed; what it leads to is
\* left out, but for the refusal of the files there.
List ==
  /\ pc = "list"
  /\ \/ (kind[at] # "dir" \/ ~MayOpen) /\ Fail
     \/ Barred
     \/ /\ kind[at] \in {"dir", "other"} /\ MayOpen
        /\ pc' = "next"
        /\ stack' = Append(stack, Children(at))
        /\ UNCHANGED <<at, seen, which, total, out>>
        /\ WalkUnchanged

\* open_target refuses a symlink, and whatever the system bars; it opens a
\* directory, and a FIFO too, but waits there until somebody opens it for writing.
\* The entry gets the size stat saw.
Open ==
  /\ pc = "open"
  /\ \/ (kind[at] \in {"other", "gone"} \/ ~MayOpen) /\ Fail
     \/ Barred
     \/ /\ kind[at] \notin {"other", "gone"} /\ MayOpen
        /\ pc' = IF kind[at] = "pipe" THEN "wait" ELSE "next"
        /\ out' = Append(out, Entry(at, which, seen))
        /\ UNCHANGED <<at, seen, which, stack, total>>
        /\ WalkUnchanged

PipeOpens == pc = "wait" /\ Go("next")

\* The loop over a directory: whether it has come to its end, given the names it
\* has yet to yield, and whether another name is one too many.
LoopOver(names) == names = {}
TooMany         == Len(out) >= MaxFiles

\* The loop over the innermost directory; the order is read_dir's.
NextEntry ==
  /\ pc = "next" /\ stack # <<>>
  /\ LET depth == Len(stack)
         names == stack[depth]
     IN  \/ /\ LoopOver(names)
            /\ stack' = SubSeq(stack, 1, depth - 1)
            /\ UNCHANGED <<pc, at, seen, which, total, out>>
            /\ WalkUnchanged
         \/ ~LoopOver(names) /\ TooMany /\ Fail
         \/ /\ ~LoopOver(names) /\ ~TooMany
            /\ pc' = "visit"
            /\ \E c \in names :
                 /\ at' = c
                 /\ stack' = [stack EXCEPT ![depth] = @ \ {c}]
            /\ UNCHANGED <<seen, which, total, out>>
            /\ WalkUnchanged

Walked == pc = "next" /\ stack = <<>> /\ Go("read")

-----------------------------------------------------------------------------
(* build_fileset.                                                          *)

Least(a, b) == IF a <= b THEN a ELSE b

\* What one read returns from a file of s bytes, g of them read.
ReadSize(s, g) == IF s <= offset + g THEN 0 ELSE Least(Chunk, s - (offset + g))

Untruncated(e, n) == e.got + n
Truncated(e, n)   == Least(e.got + n, e.size)

ReadOnce(e, n)      == TRUE
ReadUntilFull(e, n) == e.got + n >= e.size
EntryRead(e, n)     == n = 0 \/ e.got + n >= e.size

\* One read returns n bytes.
Returns(n) ==
  LET e == out[reading]
  IN  /\ out' = [out EXCEPT ![reading].got = IF n = 0 THEN @ ELSE Truncated(e, n)]
      /\ reading' = IF EntryRead(e, n) THEN reading + 1 ELSE reading
      /\ UNCHANGED <<files, changes, shrunk, via, offset, pc, at, seen, which, stack, total>>

\* A directory cannot be read.
Read ==
  /\ pc = "read" /\ reading <= Len(out)
  /\ LET e == out[reading]
     IN  \/ (e.what = "dir" \/ e.node \in barred) /\ Fail
         \/ e.what = "file" /\ Returns(ReadSize(size[e.file], e.got))

ReadPipe ==
  /\ pc = "read" /\ reading <= Len(out)
  /\ out[reading].what = "pipe"
  /\ \E n \in 0 .. Chunk : Returns(n)

Built == pc = "read" /\ reading > Len(out) /\ Go("ok")

\* The calls that return by themselves, and those that wait for somebody to write.
Process == Visit \/ List \/ Open \/ NextEntry \/ Walked \/ Read \/ Built
Awaited == PipeOpens \/ ReadPipe

-----------------------------------------------------------------------------
(* The others.                                                             *)

Changed ==
  /\ changes < MaxChanges
  /\ changes' = changes + 1
  /\ UNCHANGED <<parent, barred, via, offset, pc, at, seen, which, stack, total, out, reading>>

\* The files somebody may write to: those that have a name or are open here.
InUse == {inode[n] : n \in {m \in Node : kind[m] = "file"}}
         \cup {out[i].file : i \in {j \in DOMAIN out : out[j].what = "file"}}

Grow(f) ==
  /\ size[f] < LargestFile
  /\ size' = [size EXCEPT ![f] = LargestFile]
  /\ UNCHANGED <<kind, inode, shrunk>>
  /\ Changed

Shrink(f) ==
  /\ size[f] > 0
  /\ size' = [size EXCEPT ![f] = @ - 1]
  /\ shrunk' = shrunk \cup {f}
  /\ UNCHANGED <<kind, inode>>
  /\ Changed

\* A directory is removed, or replaced, once it is empty.
Remove(n) ==
  /\ kind[n] # "gone" /\ Children(n) = {}
  /\ kind' = [kind EXCEPT ![n] = "gone"]
  /\ UNCHANGED <<inode, size, shrunk>>
  /\ Changed

\* Something new gets the name, or takes the place of what had it.
Made == LastNode + changes + 1
Put(n, k) ==
  /\ Children(n) = {}
  /\ n = Root \/ kind[parent[n]] = "dir"
  /\ kind' = [kind EXCEPT ![n] = k]
  /\ inode' = [inode EXCEPT ![n] = Made]
  /\ \E s \in IF k = "file" THEN 0 .. LargestFile ELSE {0} : size' = [size EXCEPT ![Made] = s]
  /\ UNCHANGED shrunk
  /\ Changed

Others ==
  \/ \E f \in InUse : Grow(f) \/ Shrink(f)
  \/ \E n \in Node : Remove(n) \/ \E k \in Kind \ {"gone"} : Put(n, k)

Done == pc \in {"ok", "err"} /\ UNCHANGED vars

Next == Process \/ Awaited \/ Others \/ Done

\* A system call that returns by itself does so in the end; nobody need ever write to
\* a pipe.
Spec == Init /\ [][Next]_vars /\ WF_vars(Process)

-----------------------------------------------------------------------------
(* Properties.                                                             *)

\* Every variable has its type.
TypeOK ==
  /\ parent \in [Node -> Node] /\ kind \in [Node -> Kind]
  /\ inode \in [Node -> File] /\ size \in [File -> 0 .. LargestFile]
  /\ barred \subseteq Node
  /\ changes \in 0 .. MaxChanges /\ shrunk \subseteq File
  /\ via \in {"path", "fd"} /\ offset \in 0 .. LargestFile
  /\ pc \in {"visit", "list", "next", "open", "wait", "read", "ok", "err"}
  /\ at \in Node /\ seen \in 0 .. LargestFile /\ which \in File
  /\ stack \in Seq(SUBSET Node)
  /\ total \in 0 .. MaxTotalBytes
  /\ out \in Seq([node : Node, was : File, file : File, what : {"file", "dir", "pipe"},
                 size : 0 .. LargestFile, got : 0 .. LargestFile])
  /\ reading \in 1 .. Len(out) + 1

\* The limits bound what is held in memory, and what the reader is sent, however
\* the files change between stat, open and read: no more files, no larger ones
\* and no more bytes in all than WalkLimits allows, and never a byte more of a
\* file than its announced size.
EachWithinLimits ==
  /\ \A i \in DOMAIN out : out[i].got <= out[i].size
  /\ via = "path" =>
       /\ Len(out) <= MaxFiles \/ (MaxFiles = 0 /\ Len(out) <= 1)
       /\ \A i \in DOMAIN out : out[i].size <= MaxBytesPerFile

LimitsHold ==
  /\ EachWithinLimits
  /\ via = "path" => Sizes <= MaxTotalBytes

\* The process is in a call that waits for somebody to write.
Blocked == pc = "wait" \/ (pc = "read" /\ reading <= Len(out) /\ out[reading].what = "pipe")

\* A tree nobody touches is read whole, or refused for cause, and never waited for.
\* Whole: every file under the path, each once, symlinks and special files neither
\* reported nor followed, and every byte of it.  For cause: a file or the total is over
\* its limit, there are as many files as allowed and a name besides, or more directories
\* and files than descriptors; there is nothing at the path; or the system bars a name
\* there.  A descriptor that was given is refused if it is a directory, or barred.
Whole ==
  /\ {out[i].node : i \in DOMAIN out} = {n \in Node : kind[n] = "file"}
  /\ \A i, j \in DOMAIN out : out[i].node = out[j].node => i = j
  /\ \A i \in DOMAIN out : out[i].got = SizeAt(out[i].node)

\* What the files of these nodes hold in all.
Bytes(nodes) ==
  Total([i \in 1 .. LastNode + 1 |-> IF i - 1 \in nodes THEN SizeAt(i - 1) ELSE 0], LastNode + 1)

Cause ==
  LET found == {n \in Node : kind[n] = "file"}
      names == {n \in Node \ {Root} : kind[n] \notin {"file", "gone"}}
  IN  \/ kind[Root] = "gone"
      \/ \E n \in barred : kind[n] # "gone"
      \/ \E n \in found : SizeAt(n) > MaxBytesPerFile
      \/ Bytes(found) > MaxTotalBytes
      \/ Cardinality(found) > MaxFiles
      \/ Cardinality(found) = MaxFiles /\ names # {}
      \/ Cardinality({n \in Node : kind[n] \in {"dir", "file"}}) > MaxOpen

QuietTreeExact ==
  changes = 0 =>
    /\ via = "path" =>
         /\ pc = "ok" => Whole
         /\ pc = "err" => Cause
         /\ ~Blocked
    /\ via = "fd" /\ pc = "err" => kind[Root] = "dir" \/ Root \in barred

\* An entry ends up with fewer bytes than the size announced for it only if its
\* file lost bytes, if another one had taken the place of the file stat saw by the
\* time it was opened, or if --fd named a descriptor already read from.
ShortOnlyIfShrunk ==
  \A i \in 1 .. reading - 1 :
    out[i].got < out[i].size =>
      out[i].file \in shrunk \/ out[i].file # out[i].was \/ offset > 0

\* The walk and the reading end, whatever the others do to the files, unless they
\* wait for ever at a pipe nobody writes to.
Terminates == <>(pc \in {"ok", "err"}) \/ <>[]Blocked
=============================================================================
