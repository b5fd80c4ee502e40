------------------------------- MODULE Pipes -------------------------------
(***************************************************************************)
(* Descriptor tables and pipes, as seck-host and the readers rely on them. *)
(*                                                                         *)
(* nix::unistd::pipe() sets no close-on-exec flag, std::process::Command   *)
(* closes nothing in the child, and dup2 only overwrites its target: so    *)
(* what a child can reach is its parent's table at the fork, overwritten   *)
(* at a few numbers.  End-of-file and EPIPE follow from who still holds    *)
(* the opposite end, in any process.                                       *)
(*                                                                         *)
(* A table is a function from Fd to handles; a handle is one end of a      *)
(* pipe.  0..2 are always open (the Rust runtime sees to it) and are left  *)
(* out.                                                                    *)
(***************************************************************************)
EXTENDS Integers, Sequences

CONSTANTS
  MaxFd,     \* the last descriptor number RLIMIT_NOFILE allows
  PipeCap    \* how many units a pipe buffers before a writer blocks

ASSUME MaxFdAssumption   == MaxFd \in Nat /\ MaxFd >= 7
ASSUME PipeCapAssumption == PipeCap \in Nat \ {0}

Fd == 3 .. MaxFd

ReadEnd(p)  == <<p, "r">>
WriteEnd(p) == <<p, "w">>
Closed      == <<"none", "closed">>
Foreign     == <<"other", "open">>  \* a descriptor the host itself inherited

NoFds == [n \in Fd |-> Closed]

Free(t) == {n \in Fd : t[n] = Closed}

\* pipe(2) takes the two lowest free numbers, the read end first.
TwoLowest(t, r, w) ==
  /\ r \in Free(t)
  /\ w \in Free(t)
  /\ r < w
  /\ \A n \in Free(t) \ {r} : w <= n

WithPipe(t, p, r, w) == [t EXCEPT ![r] = ReadEnd(p), ![w] = WriteEnd(p)]

\* The number as_raw_fd() returned for a handle of this table.
NumberOf(t, h) == CHOOSE n \in Fd : t[n] = h

Dup2(t, src, dst) == [t EXCEPT ![dst] = t[src]]

\* Dropping the OwnedFd of every handle in H.
Dropping(t, H) == [n \in Fd |-> IF t[n] \in H THEN Closed ELSE t[n]]

\* `tables` maps each process to its table, `bufs` each pipe to what it holds.
Held(tables, h) == \E p \in DOMAIN tables : \E n \in Fd : tables[p][n] = h

Readable(bufs, h) == h[2] = "r" /\ bufs[h[1]] # <<>>

AtEof(tables, bufs, h) ==
  /\ h[2] = "r"
  /\ bufs[h[1]] = <<>>
  /\ ~Held(tables, WriteEnd(h[1]))

HasReader(tables, h) == Held(tables, ReadEnd(h[1]))

HasRoom(bufs, h) == Len(bufs[h[1]]) < PipeCap

Put(bufs, h, u) == [bufs EXCEPT ![h[1]] = Append(@, u)]
Pop(bufs, h)    == [bufs EXCEPT ![h[1]] = Tail(@)]
=============================================================================
