----------------------------- MODULE ModelStore -----------------------------
(***************************************************************************)
(* `seck models pull`: processes that download the same model, each into a *)
(* temporary file of its own beside the place where both will put it.  A   *)
(* pull may fail or be killed at any point, the server may send anything,  *)
(* and the machine may lose power, which costs a file that was never       *)
(* flushed any part of its end.                                            *)
(*                                                                         *)
(* A file is a sequence of blocks, and two files have the same digest if   *)
(* they are equal.                                                         *)
(***************************************************************************)
EXTENDS Naturals, Sequences

CONSTANTS
  Puller,      \* the processes
  MaxBlocks    \* bound: the blocks a server sends

ASSUME ModelStoreAssumption == MaxBlocks \in Nat /\ MaxBlocks >= 2

VARIABLES
  pull,      \* puller -> where it is
  tmp,       \* puller -> its temporary file, which is also what it has hashed
  dest,      \* the model in the store
  flushed,   \* has dest reached the disk?
  blackout   \* "none", or whether the power failed with dest flushed or not

modelVars == <<pull, tmp, dest, flushed, blackout>>

Block  == {"right", "wrong"}
Good   == <<"right", "right">>   \* what the manifest's digest is the digest of
NoFile == <<"none">>
ModelFiles == {NoFile} \cup UNION {[1 .. n -> Block] : n \in 0 .. MaxBlocks}

PullStages == {"idle", "connecting", "receiving", "hashed", "ok", "refused", "failed", "killed"}
PullOver   == {"ok", "refused", "failed", "killed"}

\* What is asked of a pull.  All but the first is refused before the network is
\* touched: --airgap, a name not in the manifest, an entry whose digest is a
\* placeholder, a URL of a host not on the list.
Wanted == {"listed", "airgap", "unknown", "placeholder", "elsewhere"}

-----------------------------------------------------------------------------
(* One pull.                                                               *)

ModelInit ==
  /\ pull = [p \in Puller |-> "idle"]
  /\ tmp = [p \in Puller |-> NoFile]
  /\ dest = NoFile
  /\ flushed = TRUE
  /\ blackout = "none"

PullIs(p, stage) == pull' = [pull EXCEPT ![p] = stage]
TmpIs(p, file)   == tmp' = [tmp EXCEPT ![p] = file]

Pull(p) ==
  /\ pull[p] = "idle"
  /\ \E what \in Wanted : PullIs(p, IF what = "listed" THEN "connecting" ELSE "refused")
  /\ UNCHANGED <<tmp, dest, flushed, blackout>>

\* Once the response has begun the temporary file is made; either may fail.
Connect(p) ==
  /\ pull[p] = "connecting"
  /\ \/ PullIs(p, "receiving") /\ TmpIs(p, <<>>)
     \/ PullIs(p, "failed") /\ UNCHANGED tmp
  /\ UNCHANGED <<dest, flushed, blackout>>

Receive(p) ==
  /\ pull[p] = "receiving"
  /\ Len(tmp[p]) < MaxBlocks
  /\ \E b \in Block : TmpIs(p, Append(tmp[p], b))
  /\ UNCHANGED <<pull, dest, flushed, blackout>>

\* On the way out of download_verified the temporary file is dropped.
TmpKept(p)    == tmp[p]
TmpDropped(p) == NoFile

GivesUpPull(p) == PullIs(p, "failed") /\ TmpIs(p, TmpDropped(p))

\* The connection breaks, or the disk is full.
ReceiveFails(p) ==
  /\ pull[p] = "receiving"
  /\ GivesUpPull(p)
  /\ UNCHANGED <<dest, flushed, blackout>>

LengthMatches(file) == Len(file) = Len(Good)
HashMatches(file)   == file = Good

BodyEnds(p) ==
  /\ pull[p] = "receiving"
  /\ IF HashMatches(tmp[p])
     THEN PullIs(p, "hashed") /\ UNCHANGED tmp
     ELSE GivesUpPull(p)
  /\ UNCHANGED <<dest, flushed, blackout>>

\* rename(2)
Persist(p) ==
  /\ pull[p] = "hashed"
  /\ \/ /\ PullIs(p, "ok")
        /\ dest' = tmp[p]
        /\ flushed' = FALSE
        /\ TmpIs(p, NoFile)
     \/ GivesUpPull(p) /\ UNCHANGED <<dest, flushed>>
  /\ UNCHANGED blackout

PullStep(p) ==
  Pull(p) \/ Connect(p) \/ Receive(p) \/ ReceiveFails(p) \/ BodyEnds(p) \/ Persist(p)

-----------------------------------------------------------------------------
(* What happens to it.                                                     *)

KillPuller(p) ==
  /\ pull[p] \in {"connecting", "receiving", "hashed"}
  /\ PullIs(p, "killed")
  /\ UNCHANGED <<tmp, dest, flushed, blackout>>

\* The system writes dest back when it likes: nothing asks it to.
Flush ==
  /\ ~flushed
  /\ flushed' = TRUE
  /\ UNCHANGED <<pull, tmp, dest, blackout>>

PowerFails ==
  /\ blackout = "none"
  /\ \E p \in Puller : pull[p] # "idle"
  /\ blackout' = IF flushed THEN "flushed" ELSE "unflushed"
  /\ pull' = [p \in Puller |-> IF pull[p] \in PullOver THEN pull[p] ELSE "killed"]
  /\ dest' \in IF flushed THEN {dest} ELSE {SubSeq(dest, 1, n) : n \in 0 .. Len(dest)}
  /\ flushed' = TRUE
  /\ UNCHANGED tmp

ModelNext ==
  \/ \E p \in Puller : PullStep(p) \/ KillPuller(p)
  \/ Flush
  \/ PowerFails

-----------------------------------------------------------------------------
(* Properties.                                                             *)

ModelTypeOK ==
  /\ pull \in [Puller -> PullStages]
  /\ tmp \in [Puller -> ModelFiles]
  /\ dest \in ModelFiles
  /\ flushed \in BOOLEAN
  /\ blackout \in {"none", "flushed", "unflushed"}

\* Whatever the servers send, whoever is killed and however pulls of one model
\* overlap: the store holds no model or the right one, and the right one once any
\* pull has said OK.  Only a power failure can damage it, and only before the file
\* was flushed.
DestVerified ==
  blackout # "unflushed" =>
    /\ dest \in {NoFile, Good}
    /\ (\E p \in Puller : pull[p] = "ok") => dest = Good

\* A pull that ends by itself leaves no temporary file, however it ends.
TmpCleared == \A p \in Puller : pull[p] \in {"ok", "refused", "failed"} => tmp[p] = NoFile
=============================================================================
