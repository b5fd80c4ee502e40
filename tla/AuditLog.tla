------------------------------ MODULE AuditLog ------------------------------
(***************************************************************************)
(* The audit log of seck-audit and the `seck audit` commands around it.    *)
(*                                                                         *)
(* There is one file a day.  Any number of processes may hold a Writer on  *)
(* it: Writer::open reads the file once, takes the hash of the last line   *)
(* for its tip, and append trusts that tip from then on; nothing locks the *)
(* file.  Appending is one write(2) in append mode, which a full disk or a *)
(* signal may cut short.  `seck audit init` makes the key pair in several  *)
(* steps, any of which may be the last.                                    *)
(*                                                                         *)
(* A record's hash is modelled by a number no other record has, its        *)
(* signature by the key that made it.  A line that is not one record (a    *)
(* truncated one, or two run together) is Junk.                            *)
(***************************************************************************)
EXTENDS Naturals, Sequences, SequencesExt, Loops

CONSTANTS
  Writer,       \* the processes that may append
  MaxRecords,   \* bound: records ever produced
  LastDay,      \* bound: the days that pass are 1 .. LastDay
  MaxKeys,      \* bound: key pairs ever generated
  Faults        \* what may go wrong: subset of {"torn", "interrupt"}

ASSUME BoundsAssumption == {MaxRecords, LastDay, MaxKeys} \subseteq Nat \ {0}
ASSUME FaultsAssumption == Faults \subseteq {"torn", "interrupt"}

Genesis == 0                                  \* "0" x 64
NoKey   == 0
Junk    == [prev |-> 0, this |-> 0, key |-> 0]
Day     == 1 .. LastDay
Id      == 1 .. MaxRecords
Key     == 1 .. MaxKeys

VARIABLES
  today,
  lines,      \* day -> the lines of its file
  ragged,     \* day -> its last line has no newline yet
  writer,     \* process -> its open Writer, or Shut
  next,       \* the hash of the next record produced
  salt,       \* salt.bin exists
  pk, sk,     \* the keys in device.pk and device.sk, or NoKey
  keys,       \* how many key pairs have been generated
  init,       \* where the one running `seck audit init` is
  acked,      \* day -> the records append returned Ok for, in order
  forked      \* days on which some record was chained to an outdated tip

auditVars == <<today, lines, ragged, writer, next, salt, pk, sk, keys, init, acked, forked>>

Shut == [day |-> 0, tip |-> Genesis, key |-> NoKey]
Open == {w \in Writer : writer[w] # Shut}

-----------------------------------------------------------------------------
(* Reading a file.                                                         *)

\* The tip Writer::open and `seck audit tip` take: the last line's hash if that
\* line is a record, the genesis sentinel otherwise.
Tip(ls) == IF ls = <<>> \/ Last(ls) = Junk THEN Genesis ELSE Last(ls).this

\* verify_chain, under the public key p.
VerifySignaturesOnly(ls, p) == \A i \in DOMAIN ls : ls[i] # Junk /\ ls[i].key = p
Verify(ls, p) ==
  \A i \in DOMAIN ls :
    /\ ls[i] # Junk
    /\ ls[i].prev = IF i = 1 THEN Genesis ELSE ls[i - 1].this
    /\ ls[i].key = p

-----------------------------------------------------------------------------
(* The writers.                                                            *)

AuditInit ==
  /\ today = 1
  /\ lines = [d \in Day |-> <<>>]
  /\ ragged = [d \in Day |-> FALSE]
  /\ writer = [w \in Writer |-> Shut]
  /\ next = 1
  /\ salt = FALSE /\ pk = NoKey /\ sk = NoKey
  /\ keys = 0
  /\ init = "idle"
  /\ acked = [d \in Day |-> <<>>]
  /\ forked = {}

KeysUnchanged == UNCHANGED <<salt, pk, sk, keys, init>>

\* Writer::open leaves what the file holds: truncate(false), and only when the
\* file is new.
Truncated(ls) == <<>>
Kept(ls)      == ls

OpenWriter(w) ==
  /\ writer[w] = Shut
  /\ sk # NoKey
  /\ writer' = [writer EXCEPT ![w] = [day |-> today, tip |-> Tip(lines[today]), key |-> sk]]
  /\ lines' = [lines EXCEPT ![today] = Kept(@)]
  /\ UNCHANGED <<today, ragged, next, acked, forked>>
  /\ KeysUnchanged

\* A line written after a ragged one runs into it.
PutOverRagged(ls, isRagged, line) ==
  IF isRagged THEN [ls EXCEPT ![Len(ls)] = line] ELSE Append(ls, line)
Put(ls, isRagged, line) == IF isRagged THEN [ls EXCEPT ![Len(ls)] = Junk] ELSE Append(ls, line)

\* The hash covers the timestamp: no two records have the same.
AfterUndated(n) == n
After(n)        == n + 1

Record(w) == [prev |-> writer[w].tip, this |-> next, key |-> writer[w].key]

\* Whether the line append writes ends in a newline.
NoNewline == TRUE
Newline   == FALSE

AppendRecord(w) ==
  LET d == writer[w].day
  IN  /\ w \in Open
      /\ next \in Id
      /\ lines' = [lines EXCEPT ![d] = Put(@, ragged[d], Record(w))]
      /\ ragged' = [ragged EXCEPT ![d] = Newline]
      /\ writer' = [writer EXCEPT ![w].tip = next]
      /\ next' = After(next)
      /\ acked' = [acked EXCEPT ![d] = Append(@, next)]
      /\ forked' = IF writer[w].tip # Tip(lines[d]) THEN forked \cup {d} ELSE forked
      /\ UNCHANGED today
      /\ KeysUnchanged

\* write_all fails half way: append returns the error, the Writer keeps its tip,
\* and the file keeps what was written: part of the record, or all of it but the
\* newline.
AppendTorn(w) ==
  LET d == writer[w].day
  IN  /\ "torn" \in Faults
      /\ w \in Open
      /\ next \in Id
      /\ \E line \in {Junk, Record(w)} :
           lines' = [lines EXCEPT ![d] = Put(@, ragged[d], line)]
      /\ ragged' = [ragged EXCEPT ![d] = TRUE]
      /\ next' = After(next)
      /\ forked' = IF writer[w].tip # Tip(lines[d]) THEN forked \cup {d} ELSE forked
      /\ UNCHANGED <<today, writer, acked>>
      /\ KeysUnchanged

\* The process ends, or is killed.
CloseWriter(w) ==
  /\ w \in Open
  /\ writer' = [writer EXCEPT ![w] = Shut]
  /\ UNCHANGED <<today, lines, ragged, next, acked, forked>>
  /\ KeysUnchanged

Midnight ==
  /\ today < LastDay
  /\ today' = today + 1
  /\ UNCHANGED <<lines, ragged, writer, next, acked, forked>>
  /\ KeysUnchanged

-----------------------------------------------------------------------------
(* seck audit init.                                                        *)

LogUnchanged == UNCHANGED <<today, lines, ragged, writer, next, acked, forked>>

\* It bails out when salt.bin exists; otherwise the salt is written first.
InitSalt ==
  /\ init = "idle"
  /\ ~salt
  /\ salt' = TRUE
  /\ init' = "passphrase"
  /\ UNCHANGED <<pk, sk, keys>>
  /\ LogUnchanged

\* The key pair is generated, whatever the passphrase; the public key first.
InitPublic ==
  /\ init = "passphrase"
  /\ keys < MaxKeys
  /\ keys' = keys + 1
  /\ pk' = keys + 1
  /\ init' = "secret"
  /\ UNCHANGED <<salt, sk>>
  /\ LogUnchanged

InitSecret ==
  /\ init = "secret"
  /\ sk' = keys
  /\ init' = "idle"
  /\ UNCHANGED <<salt, pk, keys>>
  /\ LogUnchanged

\* An empty passphrase bails out; so does an interrupt, at any point.
InitStops ==
  /\ "interrupt" \in Faults
  /\ init # "idle"
  /\ init' = "idle"
  /\ UNCHANGED <<salt, pk, sk, keys>>
  /\ LogUnchanged

\* "delete to re-init": the user follows the advice.
DeleteSalt ==
  /\ init = "idle"
  /\ salt
  /\ keys < MaxKeys
  /\ salt' = FALSE
  /\ UNCHANGED <<pk, sk, keys, init>>
  /\ LogUnchanged

-----------------------------------------------------------------------------
AuditNext ==
  \/ \E w \in Writer :
       OpenWriter(w) \/ AppendRecord(w) \/ AppendTorn(w) \/ CloseWriter(w)
  \/ Midnight
  \/ InitSalt \/ InitPublic \/ InitSecret \/ InitStops \/ DeleteSalt

AuditSpec == AuditInit /\ [][AuditNext]_auditVars

-----------------------------------------------------------------------------
(* Properties.                                                             *)

Line == [prev : 0 .. MaxRecords, this : 0 .. MaxRecords, key : 0 .. MaxKeys]

\* Every variable has its type; hashes in a file are those of records produced.
AuditTypeOK ==
  /\ today \in Day
  /\ lines \in [Day -> Seq(Line)]
  /\ ragged \in [Day -> BOOLEAN]
  /\ writer \in [Writer -> [day : 0 .. LastDay, tip : 0 .. MaxRecords, key : 0 .. MaxKeys]]
  /\ next \in 1 .. MaxRecords + 1
  /\ \A d \in Day : \A i \in DOMAIN lines[d] : lines[d][i].this < next
  /\ salt \in BOOLEAN
  /\ pk \in 0 .. keys /\ sk \in 0 .. keys
  /\ keys \in 0 .. MaxKeys
  /\ init \in {"idle", "passphrase", "secret"}
  /\ acked \in [Day -> Seq(Id)]
  /\ forked \subseteq Day

Torn(d)     == \E i \in DOMAIN lines[d] : lines[d][i] = Junk
SignedBy(d) == {lines[d][i].key : i \in DOMAIN lines[d]}

\* `seck audit verify` accepts a day's log exactly when no record was ever
\* chained to an outdated tip, no line is torn, and one key signed it all, the
\* one in device.pk.  So a fork, however it came about, is always reported; and
\* an undisturbed log is never rejected, however often its writers were closed
\* and opened again and whatever midnights came between.
VerifyExact ==
  \A d \in Day :
    Verify(lines[d], pk) <=> d \notin forked /\ ~Torn(d) /\ SignedBy(d) \subseteq {pk}

\* A log that verifies holds every record append said Ok to, in the order it
\* said so.
Acknowledged(hashes) == {r \in Line : Contains(hashes, r.this)}

VerifiedMeansComplete ==
  \A d \in Day :
    Verify(lines[d], pk) =>
      LET kept == Selected(lines[d], Acknowledged(acked[d]))
      IN  acked[d] = [i \in DOMAIN kept |-> kept[i].this]

\* A record append said Ok to that was readable once stays readable: no later
\* append, cut short or not, by any process, runs into its line.
AckedStays ==
  [][\A d \in Day : \A i \in DOMAIN lines[d] :
       Contains(acked[d], lines[d][i].this) =>
         i \in DOMAIN lines'[d] /\ lines'[d][i] = lines[d][i]]_auditVars

\* What verify has once rejected for its lines, under every key, it rejects for
\* good: no append, reopening or new key repairs a forked or torn log.
Hopeless(d) == \A p \in Key : ~Verify(lines[d], p)
DamageIsPermanent == [][\A d \in Day : Hopeless(d) => Hopeless(d)']_auditVars

\* What docs/AUDIT_LOG.md says of the file: each record's prev_sha3_256 is the
\* previous record's this_sha3_256.
ChainLinked ==
  \A d \in Day : \A i \in DOMAIN lines[d] :
    i > 1 => lines[d][i].prev = lines[d][i - 1].this
=============================================================================
