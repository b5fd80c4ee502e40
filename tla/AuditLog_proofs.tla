-------------------------- MODULE AuditLog_proofs --------------------------
(***************************************************************************)
(* For any number of writers, days, records and keys: verify accepts       *)
(* exactly the logs that were never forked nor torn and have one signer,   *)
(* what was acknowledged and readable stays so, and no damage heals.       *)
(*                                                                         *)
(* The argument is about one write: a line put into a file keeps the       *)
(* links of a file with no junk intact if and only if its writer's tip was *)
(* the file's.                                                             *)
(***************************************************************************)
EXTENDS AuditLog, Loops_proofs

\* A file as verify sees it, but for the signatures.
Whole(ls)     == \A i \in DOMAIN ls : ls[i] # Junk
LinkAt(ls, i) == ls[i].prev = IF i = 1 THEN Genesis ELSE ls[i - 1].this
Linked(ls)    == \A i \in DOMAIN ls : LinkAt(ls, i)

-----------------------------------------------------------------------------
(* The invariant.                                                          *)

OpenToday == \A w \in Writer : writer[w] # Shut => writer[w].day \in Day

AckedEarlier == \A d \in Day : \A i \in DOMAIN acked[d] : acked[d][i] < next

\* A line without its newline is the last of its file and was never acknowledged.
RaggedUnacked ==
  \A d \in Day : ragged[d] => lines[d] # <<>> /\ ~Contains(acked[d], Last(lines[d]).this)

LinkedUnlessForked ==
  \A d \in Day : Whole(lines[d]) => (Linked(lines[d]) <=> d \notin forked)

LogInv == AuditTypeOK /\ OpenToday /\ AckedEarlier /\ RaggedUnacked /\ LinkedUnlessForked

-----------------------------------------------------------------------------
(* One write.                                                              *)

LEMMA JunkIsALine == Junk \in Line
BY BoundsAssumption DEF Junk, Line

\* A line is added, or the ragged last line is spoilt.
LEMMA PutLine ==
  ASSUME NEW ls \in Seq(Line), NEW r \in BOOLEAN, r => ls # <<>>, NEW line \in Line
  PROVE  /\ Put(ls, r, line) \in Seq(Line)
         /\ Put(ls, r, line) # <<>>
         /\ r => /\ Len(Put(ls, r, line)) = Len(ls)
                 /\ Last(Put(ls, r, line)) = Junk
                 /\ \A i \in 1 .. Len(ls) : i # Len(ls) => Put(ls, r, line)[i] = ls[i]
         /\ ~r => /\ Len(Put(ls, r, line)) = Len(ls) + 1
                  /\ Last(Put(ls, r, line)) = line
                  /\ \A i \in 1 .. Len(ls) : Put(ls, r, line)[i] = ls[i]
<1>1. CASE r
  <2> DEFINE put == [ls EXCEPT ![Len(ls)] = Junk]
  <2>1. Put(ls, r, line) = put
    BY <1>1 DEF Put
  <2>2. Len(ls) \in 1 .. Len(ls)
    BY <1>1
  <2>3. put \in Seq(Line) /\ Len(put) = Len(ls)
    BY <2>2, JunkIsALine
  <2>4. put[Len(ls)] = Junk /\ \A i \in 1 .. Len(ls) : i # Len(ls) => put[i] = ls[i]
    BY <2>2
  <2>5. put # <<>>
    BY <2>2, <2>3
  <2> QED BY <1>1, <2>1, <2>3, <2>4, <2>5 DEF Last
<1>2. CASE ~r
  <2>1. Put(ls, r, line) = Append(ls, line)
    BY <1>2 DEF Put
  <2> QED BY <1>2, <2>1, AppendProperties DEF Last
<1> QED
  BY <1>1, <1>2

\* The file new is what Put makes of ls: one line more, or the ragged one spoilt.
PutBy(ls, r, line, new) ==
  /\ new \in Seq(Line) /\ new # <<>>
  /\ r => /\ Len(new) = Len(ls)
          /\ Last(new) = Junk
          /\ \A i \in 1 .. Len(ls) : i # Len(ls) => new[i] = ls[i]
  /\ ~r => /\ Len(new) = Len(ls) + 1
           /\ Last(new) = line
           /\ \A i \in 1 .. Len(ls) : new[i] = ls[i]

LEMMA PutHere ==
  ASSUME NEW ls \in Seq(Line), NEW r \in BOOLEAN, r => ls # <<>>, NEW line \in Line,
         NEW new, new = Put(ls, r, line)
  PROVE  PutBy(ls, r, line, new)
BY PutLine, Zenon DEF PutBy

\* What is put into a file leaves it without junk and linked only if the file was
\* so, and the line continues it.
LEMMA LinksOfPut ==
  ASSUME NEW ls \in Seq(Line), NEW r \in BOOLEAN, r => ls # <<>>, NEW line \in Line,
         Whole(Put(ls, r, line))
  PROVE  /\ ~r /\ Whole(ls)
         /\ Linked(Put(ls, r, line)) <=> Linked(ls) /\ line.prev = Tip(ls)
<1> DEFINE put == Put(ls, r, line)
           n   == Len(ls)
<1>1. /\ put \in Seq(Line) /\ put # <<>>
      /\ r => Last(put) = Junk
      /\ ~r => /\ Len(put) = n + 1
               /\ Last(put) = line
               /\ \A i \in 1 .. n : put[i] = ls[i]
  BY PutLine
<1>2. ~r
  <2>1. Len(put) \in DOMAIN put
    BY <1>1
  <2> QED BY <1>1, <2>1 DEF Whole, Last
<1>3. n \in Nat /\ DOMAIN ls = 1 .. n /\ DOMAIN put = 1 .. n + 1
  BY <1>1, <1>2
<1>4. \A i \in 1 .. n : put[i] = ls[i]
  BY <1>1, <1>2
<1>5. put[n + 1] = line
  BY <1>1, <1>2 DEF Last
<1> HIDE DEF put, n
<1>6. Whole(ls)
  <2>1. Whole(put)
    BY DEF put
  <2> QED BY <1>3, <1>4, <2>1 DEF Whole
<1>7. Tip(ls) = IF n = 0 THEN Genesis ELSE put[n].this
  <2>1. CASE n = 0
    BY <1>3, <2>1 DEF n, Tip
  <2>2. CASE n # 0
    <3>1. n \in DOMAIN ls /\ ls # <<>> /\ Last(ls) = ls[n]
      BY <1>3, <2>2 DEF n, Last
    <3>2. Last(ls) # Junk
      BY <1>6, <3>1 DEF Whole
    <3>3. put[n] = ls[n]
      BY <1>3, <1>4, <3>1
    <3> QED BY <2>2, <3>1, <3>2, <3>3 DEF Tip
  <2> QED BY <2>1, <2>2
<1>8. \A i \in 1 .. n : LinkAt(put, i) <=> LinkAt(ls, i)
  <2> TAKE i \in 1 .. n
  <2>1. i = 1 \/ i - 1 \in 1 .. n
    BY <1>3
  <2> QED BY <1>4, <2>1 DEF LinkAt
<1>9. LinkAt(put, n + 1) <=> line.prev = Tip(ls)
  BY <1>3, <1>5, <1>7 DEF LinkAt
<1>10. Linked(put) <=> Linked(ls) /\ line.prev = Tip(ls)
  <2>1. \A i \in 1 .. n + 1 : i \in 1 .. n \/ i = n + 1
    BY <1>3
  <2>2. n + 1 \in 1 .. n + 1 /\ 1 .. n \subseteq 1 .. n + 1
    BY <1>3
  <2> QED BY <1>3, <1>8, <1>9, <2>1, <2>2 DEF Linked
<1> QED
  BY <1>2, <1>6, <1>10 DEF put

-----------------------------------------------------------------------------
(* Each step keeps the invariant.                                          *)

LEMMA LogInvInit == AuditInit => LogInv
<1> SUFFICES ASSUME AuditInit PROVE LogInv
  OBVIOUS
<1>1. AuditTypeOK
  <2>1. /\ 1 \in Day /\ 0 \in 0 .. MaxKeys /\ 1 \in 1 .. MaxRecords + 1
        /\ Shut \in [day : 0 .. LastDay, tip : 0 .. MaxRecords, key : 0 .. MaxKeys]
    BY BoundsAssumption DEF Day, Shut, Genesis, NoKey
  <2>2. /\ lines \in [Day -> Seq(Line)] /\ \A d \in Day : DOMAIN lines[d] = {}
        /\ acked \in [Day -> Seq(Id)]
    BY DEF AuditInit
  <2>3. /\ ragged \in [Day -> BOOLEAN]
        /\ writer \in [Writer -> [day : 0 .. LastDay, tip : 0 .. MaxRecords, key : 0 .. MaxKeys]]
    BY <2>1 DEF AuditInit
  <2>4. pk \in 0 .. keys /\ sk \in 0 .. keys /\ keys \in 0 .. MaxKeys
    BY <2>1 DEF AuditInit, NoKey
  <2> QED BY <2>1, <2>2, <2>3, <2>4 DEF AuditInit, AuditTypeOK
<1>2. OpenToday /\ AckedEarlier /\ RaggedUnacked
  BY DEF AuditInit, OpenToday, AckedEarlier, RaggedUnacked
<1>3. LinkedUnlessForked
  BY DEF AuditInit, LinkedUnlessForked, Linked
<1> QED
  BY <1>1, <1>2, <1>3 DEF LogInv

\* What a write of append, whole or cut short, does to the files.
LEMMA WriteKeeps ==
  ASSUME LogInv, NEW w \in Open, next \in Id, NEW line \in {Junk, Record(w)},
         lines' = [lines EXCEPT ![writer[w].day] = Put(@, ragged[writer[w].day], line)],
         forked' = IF writer[w].tip # Tip(lines[writer[w].day])
                   THEN forked \cup {writer[w].day} ELSE forked
  PROVE  /\ writer[w].day \in Day
         /\ lines' \in [Day -> Seq(Line)]
         /\ \A e \in Day : e # writer[w].day => lines'[e] = lines[e]
         /\ lines'[writer[w].day] # <<>>
         /\ Last(lines'[writer[w].day]) \in {Junk, line}
         /\ \A e \in Day : \A i \in DOMAIN lines'[e] : lines'[e][i].this < next + 1
         /\ forked' \subseteq Day
         /\ LinkedUnlessForked'
<1> DEFINE d == writer[w].day
           put == Put(lines[d], ragged[d], line)
<1>1. d \in Day /\ w \in Writer
  BY DEF LogInv, OpenToday, Open
<1>2. line \in Line
  <2>1. Record(w) \in Line
    BY <1>1, BoundsAssumption DEF LogInv, AuditTypeOK, Record, Line, Id
  <2> QED BY <2>1, JunkIsALine
<1>3. lines[d] \in Seq(Line) /\ ragged[d] \in BOOLEAN /\ (ragged[d] => lines[d] # <<>>)
  BY <1>1 DEF LogInv, AuditTypeOK, RaggedUnacked
<1>4. /\ lines'[d] = put /\ \A e \in Day : e # d => lines'[e] = lines[e]
      /\ DOMAIN lines' = Day
  BY <1>1 DEF LogInv, AuditTypeOK
<1>5. /\ put \in Seq(Line) /\ put # <<>>
      /\ Last(put) \in {Junk, line}
      /\ ragged[d] => /\ Len(put) = Len(lines[d])
                      /\ \A i \in 1 .. Len(lines[d]) : i # Len(lines[d]) => put[i] = lines[d][i]
      /\ ~ragged[d] => /\ Len(put) = Len(lines[d]) + 1
                       /\ \A i \in 1 .. Len(lines[d]) : put[i] = lines[d][i]
  <2>1. PutBy(lines[d], ragged[d], line, put)
    BY <1>2, <1>3, PutHere, Zenon
  <2> QED BY <2>1, Zenon DEF PutBy
<1>6. lines' \in [Day -> Seq(Line)]
  <2>1. lines \in [Day -> Seq(Line)] /\ lines' = [lines EXCEPT ![d] = put]
    BY DEF LogInv, AuditTypeOK
  <2>2. put \in Seq(Line)
    BY <1>5
  <2> HIDE DEF put
  <2> QED BY <2>1, <2>2
<1>7. ASSUME NEW e \in Day, NEW i \in DOMAIN lines'[e] PROVE lines'[e][i].this < next + 1
  <2>0. next \in Nat
    BY BoundsAssumption DEF Id
  <2>1. CASE e # d
    <3>1. lines[e][i].this < next /\ lines[e][i].this \in Nat
      <4>1. i \in DOMAIN lines[e] /\ lines[e] \in Seq(Line)
        BY <1>4, <1>7, <2>1 DEF LogInv, AuditTypeOK
      <4>2. lines[e][i] \in Line
        BY <4>1
      <4> QED BY <4>1, <4>2, <1>7, BoundsAssumption DEF LogInv, AuditTypeOK, Line
    <3> QED BY <1>4, <2>0, <2>1, <3>1
  <2>2. CASE e = d /\ i = Len(put)
    <3>1. lines'[e][i] \in {Junk, line}
      BY <1>4, <1>5, <2>2 DEF Last
    <3>2. line.this \in {0, next}
      BY DEF Record, Junk
    <3>3. Junk.this = 0
      BY DEF Junk
    <3> QED BY <2>0, <3>1, <3>2, <3>3
  <2>3. CASE e = d /\ i # Len(put)
    <3>1. i \in 1 .. Len(put)
      BY <1>4, <1>5, <1>7, <2>3
    <3>2. i \in 1 .. Len(lines[d]) /\ put[i] = lines[d][i]
      BY <1>3, <1>5, <2>3, <3>1
    <3>3. lines[d][i] \in Line /\ lines[d][i].this < next
      BY <1>1, <1>3, <3>2 DEF LogInv, AuditTypeOK
    <3>4. lines[d][i].this \in Nat
      BY <3>3, BoundsAssumption DEF Line
    <3> QED BY <1>4, <2>0, <2>3, <3>2, <3>3, <3>4
  <2> QED BY <2>1, <2>2, <2>3
<1>8. forked' \subseteq Day
  BY <1>1 DEF LogInv, AuditTypeOK
<1>9. ASSUME NEW e \in Day, Whole(lines'[e]) PROVE Linked(lines'[e]) <=> e \notin forked'
  <2>1. CASE e # d
    <3>1. e \in forked' <=> e \in forked
      BY <2>1
    <3> QED BY <1>4, <1>9, <2>1, <3>1 DEF LogInv, LinkedUnlessForked
  <2>2. CASE e = d
    <3>1. Whole(put)
      BY <1>4, <1>9, <2>2
    <3>2. Whole(lines[d]) /\ (Linked(put) <=> Linked(lines[d]) /\ line.prev = Tip(lines[d]))
      BY <1>2, <1>3, <3>1, LinksOfPut
    <3>3. line = Record(w)
      <4>1. Len(put) \in DOMAIN put
        BY <1>5
      <4> QED BY <1>5, <3>1, <4>1, <1>2, <1>3, PutLine, LinksOfPut DEF Whole, Last
    <3>4. line.prev = writer[w].tip
      BY <3>3 DEF Record
    <3>5. Linked(lines[d]) <=> d \notin forked
      BY <1>1, <3>2 DEF LogInv, LinkedUnlessForked
    <3> QED BY <1>1, <1>4, <2>2, <3>2, <3>4, <3>5
  <2> QED BY <2>1, <2>2
<1> QED
  BY <1>1, <1>4, <1>5, <1>6, <1>7, <1>8, <1>9 DEF LinkedUnlessForked

LEMMA AppendRecordKeeps == ASSUME LogInv, NEW w \in Writer, AppendRecord(w) PROVE LogInv'
<1> DEFINE d == writer[w].day
<1>1. /\ w \in Open /\ next \in Id
      /\ lines' = [lines EXCEPT ![d] = Put(@, ragged[d], Record(w))]
      /\ ragged' = [ragged EXCEPT ![d] = FALSE]
      /\ writer' = [writer EXCEPT ![w].tip = next]
      /\ next' = next + 1
      /\ acked' = [acked EXCEPT ![d] = Append(@, next)]
      /\ forked' = IF writer[w].tip # Tip(lines[d]) THEN forked \cup {d} ELSE forked
      /\ UNCHANGED <<today, salt, pk, sk, keys, init>>
  BY DEF AppendRecord, After, Newline, KeysUnchanged
<1>2. /\ d \in Day
      /\ lines' \in [Day -> Seq(Line)]
      /\ \A e \in Day : e # d => lines'[e] = lines[e]
      /\ \A e \in Day : \A i \in DOMAIN lines'[e] : lines'[e][i].this < next'
      /\ forked' \subseteq Day
      /\ LinkedUnlessForked'
  BY <1>1, WriteKeeps
<1>3. next \in 1 .. MaxRecords /\ MaxRecords \in Nat /\ next' \in 1 .. MaxRecords + 1
  BY <1>1, BoundsAssumption DEF Id
<1>4. acked \in [Day -> Seq(Id)] /\ acked' \in [Day -> Seq(Id)]
  BY <1>1, <1>2 DEF LogInv, AuditTypeOK
<1>5. AuditTypeOK'
  <2>1. ragged' \in [Day -> BOOLEAN]
    BY <1>1 DEF LogInv, AuditTypeOK
  <2>2. writer' \in [Writer -> [day : 0 .. LastDay, tip : 0 .. MaxRecords, key : 0 .. MaxKeys]]
    <3>1. next \in 0 .. MaxRecords
      BY <1>3
    <3>2. writer \in [Writer -> [day : 0 .. LastDay, tip : 0 .. MaxRecords, key : 0 .. MaxKeys]]
      BY DEF LogInv, AuditTypeOK
    <3>3. [writer[w] EXCEPT !.tip = next]
            \in [day : 0 .. LastDay, tip : 0 .. MaxRecords, key : 0 .. MaxKeys]
      BY <3>1, <3>2
    <3>4. writer' = [writer EXCEPT ![w] = [writer[w] EXCEPT !.tip = next]]
      BY <1>1
    <3> QED BY <3>2, <3>3, <3>4
  <2> QED BY <1>1, <1>2, <1>3, <1>4, <2>1, <2>2 DEF LogInv, AuditTypeOK
<1>6. OpenToday'
  <2>1. \A v \in Writer : writer'[v].day = writer[v].day
    BY <1>1 DEF LogInv, AuditTypeOK
  <2>2. \A v \in Writer : v # w => writer'[v] = writer[v]
    BY <1>1 DEF LogInv, AuditTypeOK
  <2> QED BY <1>2, <2>1, <2>2 DEF LogInv, OpenToday
<1>7. AckedEarlier'
  <2> SUFFICES ASSUME NEW e \in Day, NEW i \in DOMAIN acked'[e] PROVE acked'[e][i] < next + 1
    BY <1>1 DEF AckedEarlier
  <2>1. \A j \in DOMAIN acked[e] : acked[e][j] < next /\ acked[e][j] \in Nat
    <3>1. acked[e] \in Seq(Id)
      BY <1>4
    <3> QED BY <3>1, BoundsAssumption DEF LogInv, AckedEarlier, Id
  <2>2. CASE e # d
    BY <1>1, <1>3, <1>4, <2>1, <2>2
  <2>3. CASE e = d
    <3>1. acked'[e] = Append(acked[e], next) /\ acked[e] \in Seq(Id)
      BY <1>1, <1>4, <2>3
    <3>2. i \in 1 .. Len(acked[e]) \/ i = Len(acked[e]) + 1
      BY <3>1
    <3>3. i \in 1 .. Len(acked[e]) => acked'[e][i] = acked[e][i]
      BY <3>1
    <3>4. i = Len(acked[e]) + 1 => acked'[e][i] = next
      BY <1>1, <3>1, AppendProperties
    <3> QED BY <1>3, <2>1, <3>1, <3>2, <3>3, <3>4
  <2> QED BY <2>2, <2>3
<1>8. RaggedUnacked'
  <2>1. \A e \in Day : ragged'[e] => e # d /\ ragged[e]
    BY <1>1, <1>2 DEF LogInv, AuditTypeOK
  <2>2. \A e \in Day : e # d => lines'[e] = lines[e] /\ acked'[e] = acked[e]
    BY <1>1, <1>2, <1>4
  <2> QED BY <2>1, <2>2 DEF LogInv, RaggedUnacked
<1> QED
  BY <1>2, <1>5, <1>6, <1>7, <1>8 DEF LogInv

LEMMA AppendTornKeeps == ASSUME LogInv, NEW w \in Writer, AppendTorn(w) PROVE LogInv'
<1> DEFINE d == writer[w].day
<1>1. PICK line \in {Junk, Record(w)} :
        lines' = [lines EXCEPT ![d] = Put(@, ragged[d], line)]
  BY DEF AppendTorn
<1>2. /\ w \in Open /\ next \in Id
      /\ ragged' = [ragged EXCEPT ![d] = TRUE]
      /\ next' = next + 1
      /\ forked' = IF writer[w].tip # Tip(lines[d]) THEN forked \cup {d} ELSE forked
      /\ UNCHANGED <<today, writer, acked, salt, pk, sk, keys, init>>
  BY DEF AppendTorn, After, KeysUnchanged
<1>3. /\ d \in Day
      /\ lines' \in [Day -> Seq(Line)]
      /\ \A e \in Day : e # d => lines'[e] = lines[e]
      /\ lines'[d] # <<>> /\ Last(lines'[d]) \in {Junk, line}
      /\ \A e \in Day : \A i \in DOMAIN lines'[e] : lines'[e][i].this < next'
      /\ forked' \subseteq Day
      /\ LinkedUnlessForked'
  BY <1>1, <1>2, WriteKeeps
<1>4. next \in 1 .. MaxRecords /\ MaxRecords \in Nat /\ next' \in 1 .. MaxRecords + 1
  BY <1>2, BoundsAssumption DEF Id
<1>5. AuditTypeOK'
  BY <1>2, <1>3, <1>4 DEF LogInv, AuditTypeOK
<1>6. OpenToday'
  BY <1>2 DEF LogInv, OpenToday
<1>7. \A e \in Day : \A i \in DOMAIN acked[e] : acked[e][i] \in Nat \ {0} /\ acked[e][i] < next
  <2>1. \A e \in Day : acked[e] \in Seq(Id)
    BY DEF LogInv, AuditTypeOK
  <2> QED BY <2>1, BoundsAssumption DEF LogInv, AckedEarlier, Id
<1>8. AckedEarlier'
  BY <1>2, <1>4, <1>7 DEF AckedEarlier
<1>9. RaggedUnacked'
  <2> SUFFICES ASSUME NEW e \in Day, ragged'[e]
               PROVE  lines'[e] # <<>> /\ ~Contains(acked[e], Last(lines'[e]).this)
    BY <1>2 DEF RaggedUnacked
  <2>1. CASE e # d
    BY <1>2, <1>3, <2>1 DEF LogInv, AuditTypeOK, RaggedUnacked
  <2>2. CASE e = d
    <3>1. Last(lines'[e]).this \in {0, next}
      BY <1>3, <2>2 DEF Junk, Record
    <3>2. DOMAIN acked[e] = 1 .. Len(acked[e])
      BY DEF LogInv, AuditTypeOK
    <3>3. ~Contains(acked[e], Last(lines'[e]).this)
      BY <1>4, <1>7, <3>1, <3>2 DEF Contains
    <3> QED BY <1>3, <2>2, <3>3
  <2> QED BY <2>1, <2>2
<1> QED
  BY <1>3, <1>5, <1>6, <1>8, <1>9 DEF LogInv

LEMMA OpenWriterKeeps == ASSUME LogInv, NEW w \in Writer, OpenWriter(w) PROVE LogInv'
<1>1. /\ writer' = [writer EXCEPT ![w] = [day |-> today, tip |-> Tip(lines[today]), key |-> sk]]
      /\ UNCHANGED <<today, ragged, next, acked, forked, salt, pk, sk, keys, init>>
  BY DEF OpenWriter, KeysUnchanged
<1>2. today \in Day /\ today \in 0 .. LastDay /\ sk \in 0 .. MaxKeys
  BY BoundsAssumption DEF LogInv, AuditTypeOK, Day
<1>3. lines' = lines
  BY DEF OpenWriter, Kept, LogInv, AuditTypeOK
<1>4. Tip(lines[today]) \in 0 .. MaxRecords
  <2>1. lines[today] \in Seq(Line)
    BY <1>2 DEF LogInv, AuditTypeOK
  <2>2. lines[today] # <<>> => Last(lines[today]) \in Line
    BY <2>1 DEF Last
  <2> QED BY <2>2, BoundsAssumption DEF Tip, Line, Genesis
<1>5. AuditTypeOK'
  BY <1>1, <1>2, <1>3, <1>4 DEF LogInv, AuditTypeOK
<1>6. OpenToday'
  BY <1>1, <1>2 DEF LogInv, AuditTypeOK, OpenToday
<1>7. AckedEarlier' /\ RaggedUnacked' /\ LinkedUnlessForked'
  BY <1>1, <1>3 DEF LogInv, AckedEarlier, RaggedUnacked, LinkedUnlessForked
<1> QED
  BY <1>5, <1>6, <1>7 DEF LogInv

LEMMA CloseWriterKeeps == ASSUME LogInv, NEW w \in Writer, CloseWriter(w) PROVE LogInv'
<1>1. /\ writer' = [writer EXCEPT ![w] = Shut]
      /\ UNCHANGED <<today, lines, ragged, next, acked, forked, salt, pk, sk, keys, init>>
  BY DEF CloseWriter, KeysUnchanged
<1>2. Shut \in [day : 0 .. LastDay, tip : 0 .. MaxRecords, key : 0 .. MaxKeys]
  BY BoundsAssumption DEF Shut, Genesis, NoKey
<1>3. AuditTypeOK'
  BY <1>1, <1>2 DEF LogInv, AuditTypeOK
<1>4. OpenToday'
  BY <1>1 DEF LogInv, AuditTypeOK, OpenToday
<1>5. AckedEarlier' /\ RaggedUnacked' /\ LinkedUnlessForked'
  BY <1>1 DEF LogInv, AckedEarlier, RaggedUnacked, LinkedUnlessForked
<1> QED
  BY <1>3, <1>4, <1>5 DEF LogInv

\* Steps that touch no file and no writer.
LEMMA OthersKeepLog ==
  ASSUME LogInv,
         Midnight \/ InitSalt \/ InitPublic \/ InitSecret \/ InitStops \/ DeleteSalt
           \/ UNCHANGED auditVars
  PROVE  LogInv'
<1>1. UNCHANGED <<lines, ragged, writer, next, acked, forked>>
  BY DEF Midnight, InitSalt, InitPublic, InitSecret, InitStops, DeleteSalt, LogUnchanged, auditVars
<1>2. AuditTypeOK'
  <2>0. {MaxRecords, LastDay, MaxKeys} \subseteq Nat /\ keys \in 0 .. MaxKeys
    BY BoundsAssumption DEF LogInv, AuditTypeOK
  <2>1. today' \in Day
    BY <2>0 DEF LogInv, AuditTypeOK, Day, Midnight, InitSalt, InitPublic, InitSecret, InitStops,
           DeleteSalt, LogUnchanged, auditVars
  <2>2. salt' \in BOOLEAN /\ init' \in {"idle", "passphrase", "secret"}
    BY DEF LogInv, AuditTypeOK, Midnight, InitSalt, InitPublic, InitSecret, InitStops,
           DeleteSalt, KeysUnchanged, auditVars
  <2>3. keys' \in 0 .. MaxKeys /\ pk' \in 0 .. keys' /\ sk' \in 0 .. keys'
    BY <2>0 DEF LogInv, AuditTypeOK, Midnight, InitSalt, InitPublic, InitSecret, InitStops,
           DeleteSalt, KeysUnchanged, auditVars
  <2> QED BY <1>1, <2>1, <2>2, <2>3 DEF LogInv, AuditTypeOK
<1>3. OpenToday' /\ AckedEarlier' /\ RaggedUnacked' /\ LinkedUnlessForked'
  BY <1>1 DEF LogInv, OpenToday, AckedEarlier, RaggedUnacked, LinkedUnlessForked
<1> QED
  BY <1>2, <1>3 DEF LogInv

LEMMA LogStepKeeps == ASSUME LogInv, [AuditNext]_auditVars PROVE LogInv'
BY OpenWriterKeeps, AppendRecordKeeps, AppendTornKeeps, CloseWriterKeeps, OthersKeepLog
   DEF AuditNext

\* The invariant holds whatever writers, midnights, faults and re-keyings do.
THEOREM LogStaysConsistent == AuditSpec => []LogInv
BY LogInvInit, LogStepKeeps, PTL DEF AuditSpec

\* The hashes of a file's lines.
Hashes(ls) == [i \in DOMAIN ls |-> ls[i].this]

LEMMA HashesOfOneMore ==
  ASSUME NEW s \in Seq(Line), NEW line \in Line
  PROVE  Hashes(Append(s, line)) = Append(Hashes(s), line.this)
<1>1. PICK m \in [Line -> Nat] : m = [l \in Line |-> l.this]
  <2>1. \A l \in Line : l.this \in Nat
    BY BoundsAssumption DEF Line
  <2>2. [l \in Line |-> l.this] \in [Line -> Nat]
    BY <2>1
  <2> QED BY <2>2, Zenon
<1>2. \A t \in Seq(Line) : Hashes(t) = Each(t, m)
  BY <1>1 DEF Hashes, Each
<1>3. Append(s, line) \in Seq(Line)
  BY AppendProperties
<1>4. EachGrows(s, line, m)
  BY EachOfOneMore, Zenon
<1> QED
  BY <1>1, <1>2, <1>3, <1>4 DEF EachGrows

LEMMA HashesAreNumbers ==
  ASSUME NEW ls \in Seq(Line), NEW line \in Line
  PROVE  line.this \in Nat /\ \A i \in 1 .. Len(ls) : ls[i] \in Line /\ ls[i].this \in Nat
<1>1. \A l \in Line : l.this \in Nat
  BY BoundsAssumption DEF Line
<1>2. \A i \in 1 .. Len(ls) : ls[i] \in Line
  OBVIOUS
<1> QED
  BY <1>1, <1>2

LEMMA ContainsOneMore ==
  ASSUME NEW s \in Seq(Nat), NEW n \in Nat
  PROVE  \A x : Contains(Append(s, n), x) <=> Contains(s, x) \/ x = n
<1>1. PICK t : t = Append(s, n)
  OBVIOUS
<1>2. /\ Len(t) = Len(s) + 1 /\ t[Len(s) + 1] = n
      /\ \A i \in 1 .. Len(s) : t[i] = s[i]
  BY <1>1, AppendProperties
<1>3. Len(s) \in Nat
  OBVIOUS
<1>4. ASSUME NEW x PROVE Contains(t, x) <=> Contains(s, x) \/ x = n
  <2>1. \A i \in 1 .. Len(s) + 1 : i \in 1 .. Len(s) \/ i = Len(s) + 1
    BY <1>3
  <2>2. Len(s) + 1 \in 1 .. Len(s) + 1 /\ 1 .. Len(s) \subseteq 1 .. Len(s) + 1
    BY <1>3
  <2> QED BY <1>2, <2>1, <2>2, Zenon DEF Contains
<1> QED
  BY <1>1, <1>4, Zenon

\* A line that append says Ok to is selected besides those that were.
LEMMA OneMoreAcked ==
  ASSUME NEW ls \in Seq(Line), NEW ac \in Seq(Nat), NEW line \in Line,
         \A i \in 1 .. Len(ls) : ls[i].this < line.this,
         ac = Hashes(Selected(ls, Acknowledged(ac)))
  PROVE  Append(ac, line.this) =
           Hashes(Selected(Append(ls, line), Acknowledged(Append(ac, line.this))))
<1>1. line.this \in Nat /\ \A i \in 1 .. Len(ls) : ls[i] \in Line /\ ls[i].this \in Nat
  BY HashesAreNumbers
<1>2. PICK A : A = Acknowledged(ac)
  OBVIOUS
<1>3. PICK B : B = Acknowledged(Append(ac, line.this))
  OBVIOUS
<1>4. \A x : Contains(Append(ac, line.this), x) <=> Contains(ac, x) \/ x = line.this
  BY <1>1, ContainsOneMore, Zenon
<1>5. line \in B
  BY <1>3, <1>4, Zenon DEF Acknowledged
<1>6. ASSUME NEW i \in 1 .. Len(ls) PROVE ls[i] \in A <=> ls[i] \in B
  <2>1. ls[i].this # line.this
    BY <1>1
  <2> QED BY <1>2, <1>3, <1>4, <2>1, Zenon DEF Acknowledged
<1>7. SelectAlike(ls, A, B)
  BY <1>6, SelectedAlike, Zenon
<1>8. SelectedGrows(ls, line, B)
  BY SelectedAppend, Zenon
<1>9. Selected(Append(ls, line), B) = Append(Selected(ls, A), line)
  BY <1>5, <1>7, <1>8, Zenon DEF SelectAlike, SelectedGrows
<1>10. Selected(ls, A) \in Seq(Line)
  BY SelectedType, Zenon
<1>11. Hashes(Append(Selected(ls, A), line)) = Append(Hashes(Selected(ls, A)), line.this)
  BY <1>10, HashesOfOneMore, Zenon
<1> QED
  BY <1>2, <1>3, <1>9, <1>11, Zenon

\* One that it did not say Ok to is not.
LEMMA OneMoreUnacked ==
  ASSUME NEW ls \in Seq(Line), NEW ac, NEW line \in Line, ~Contains(ac, line.this)
  PROVE  Selected(Append(ls, line), Acknowledged(ac)) = Selected(ls, Acknowledged(ac))
<1>1. line \notin Acknowledged(ac)
  BY DEF Acknowledged
<1>2. SelectedGrows(ls, line, Acknowledged(ac))
  BY SelectedAppend, Zenon
<1> QED
  BY <1>1, <1>2, Zenon DEF SelectedGrows

\* What was acknowledged is in the file, in order, as long as there is no junk in it.
AckedIn(ls, ac) == Whole(ls) => ac = Hashes(Selected(ls, Acknowledged(ac)))
AckedInFile     == \A d \in Day : AckedIn(lines[d], acked[d])

LEMMA AckedInFileInit == ASSUME AuditInit PROVE AckedInFile
<1>1. Hashes(<<>>) = <<>>
  BY DEF Hashes
<1>2. \A d \in Day : lines[d] = <<>> /\ acked[d] = <<>>
  BY DEF AuditInit
<1>3. AckedIn(<<>>, <<>>)
  BY <1>1, SelectedOfNone, Zenon DEF AckedIn
<1> QED
  BY <1>2, <1>3, Zenon DEF AckedInFile

\* A line that is put into a file.
LEMMA PutKeepsAcked ==
  ASSUME NEW ls \in Seq(Line), NEW r \in BOOLEAN, r => ls # <<>>, NEW ac \in Seq(Nat),
         NEW line \in Line, AckedIn(ls, ac)
  PROVE  /\ ~Contains(ac, line.this) => AckedIn(Put(ls, r, line), ac)
         /\ (\A i \in 1 .. Len(ls) : ls[i].this < line.this) =>
              AckedIn(Put(ls, r, line), Append(ac, line.this))
<1> SUFFICES ASSUME Whole(Put(ls, r, line))
             PROVE  /\ ~Contains(ac, line.this) =>
                         ac = Hashes(Selected(Put(ls, r, line), Acknowledged(ac)))
                    /\ (\A i \in 1 .. Len(ls) : ls[i].this < line.this) =>
                         Append(ac, line.this) =
                           Hashes(Selected(Put(ls, r, line), Acknowledged(Append(ac, line.this))))
  BY Zenon DEF AckedIn
<1>1. ~r /\ Whole(ls)
  BY LinksOfPut
<1>2. Put(ls, r, line) = Append(ls, line)
  BY <1>1 DEF Put
<1>3. ac = Hashes(Selected(ls, Acknowledged(ac)))
  BY <1>1 DEF AckedIn
<1> QED
  BY <1>2, <1>3, OneMoreAcked, OneMoreUnacked, Zenon

LEMMA AckedInFileStep ==
  ASSUME LogInv, AckedInFile, [AuditNext]_auditVars
  PROVE  AckedInFile'
<1> SUFFICES ASSUME NEW d \in Day PROVE AckedIn(lines'[d], acked'[d])
  BY DEF AckedInFile
<1>1. /\ lines[d] \in Seq(Line) /\ ragged[d] \in BOOLEAN /\ (ragged[d] => lines[d] # <<>>)
      /\ acked[d] \in Seq(Nat) /\ \A i \in 1 .. Len(acked[d]) : acked[d][i] \in Nat \ {0}
  <2>1. acked[d] \in Seq(Id) /\ Id \subseteq Nat
    BY BoundsAssumption DEF LogInv, AuditTypeOK, Id
  <2>2. acked[d] \in Seq(Nat)
    BY <2>1, SeqMonotonic, Zenon
  <2>3. \A i \in 1 .. Len(acked[d]) : acked[d][i] \in Nat \ {0}
    <3>1. \A i \in 1 .. Len(acked[d]) : acked[d][i] \in Id
      BY <2>1
    <3> QED BY <3>1, BoundsAssumption DEF Id
  <2> QED BY <2>2, <2>3 DEF LogInv, AuditTypeOK, RaggedUnacked
<1>2. /\ \A i \in 1 .. Len(lines[d]) : lines[d][i].this < next
      /\ \A i \in 1 .. Len(acked[d]) : acked[d][i] < next
  BY <1>1 DEF LogInv, AuditTypeOK, AckedEarlier
<1>3. AckedIn(lines[d], acked[d])
  BY DEF AckedInFile
<1>4. CASE lines'[d] = lines[d] /\ acked'[d] = acked[d]
  BY <1>3, <1>4
<1>5. ASSUME NEW w \in Writer, AppendRecord(w), writer[w].day = d
      PROVE  AckedIn(lines'[d], acked'[d])
  <2>1. /\ next \in Id
        /\ lines'[d] = Put(lines[d], ragged[d], Record(w))
        /\ acked'[d] = Append(acked[d], next)
    BY <1>5 DEF AppendRecord, LogInv, AuditTypeOK
  <2>2. Record(w) \in Line /\ Record(w).this = next
    BY <1>5, <2>1, BoundsAssumption DEF LogInv, AuditTypeOK, Record, Line, Id
  <2> QED BY <1>1, <1>2, <1>3, <2>1, <2>2, PutKeepsAcked, Zenon
<1>6. ASSUME NEW w \in Writer, AppendTorn(w), writer[w].day = d
      PROVE  AckedIn(lines'[d], acked'[d])
  <2>1. PICK line \in {Junk, Record(w)} :
          lines' = [lines EXCEPT ![writer[w].day] = Put(@, ragged[writer[w].day], line)]
    BY <1>6 DEF AppendTorn
  <2>2. next \in Id /\ acked' = acked
    BY <1>6 DEF AppendTorn
  <2>3. lines'[d] = Put(lines[d], ragged[d], line)
    BY <1>6, <2>1 DEF LogInv, AuditTypeOK
  <2>4. line \in Line /\ line.this \in {0, next}
    <3>1. Record(w) \in Line /\ Record(w).this = next
      BY <1>6, <2>2, BoundsAssumption DEF LogInv, AuditTypeOK, Record, Line, Id
    <3> QED BY <3>1, JunkIsALine DEF Junk
  <2>5. ~Contains(acked[d], line.this)
    <3>1. \A i \in 1 .. Len(acked[d]) : acked[d][i] # line.this
      BY <1>1, <1>2, <2>2, <2>4, BoundsAssumption DEF Id
    <3> QED BY <3>1 DEF Contains
  <2> QED BY <1>1, <1>3, <2>2, <2>3, <2>4, <2>5, PutKeepsAcked, Zenon
<1>7. ASSUME NEW w \in Writer, AppendRecord(w) \/ AppendTorn(w), writer[w].day # d
      PROVE  lines'[d] = lines[d] /\ acked'[d] = acked[d]
  BY <1>7 DEF AppendRecord, AppendTorn, LogInv, AuditTypeOK
<1>8. ASSUME NEW w \in Writer, OpenWriter(w) \/ CloseWriter(w)
      PROVE  lines'[d] = lines[d] /\ acked'[d] = acked[d]
  BY <1>8 DEF OpenWriter, Kept, CloseWriter, LogInv, AuditTypeOK
<1>9. ASSUME Midnight \/ InitSalt \/ InitPublic \/ InitSecret \/ InitStops \/ DeleteSalt
               \/ UNCHANGED auditVars
      PROVE  lines'[d] = lines[d] /\ acked'[d] = acked[d]
  BY <1>9 DEF Midnight, InitSalt, InitPublic, InitSecret, InitStops, DeleteSalt, LogUnchanged,
              auditVars
<1> QED
  BY <1>4, <1>5, <1>6, <1>7, <1>8, <1>9 DEF AuditNext

-----------------------------------------------------------------------------
(* The properties.                                                         *)

\* `seck audit verify` accepts a day's log if and only if nothing was chained to an
\* outdated tip, no line is torn, and the key in device.pk signed all of it.
THEOREM VerifyIsExact == AuditSpec => []VerifyExact
<1>1. ASSUME LogInv, NEW d \in Day
      PROVE  Verify(lines[d], pk) <=> d \notin forked /\ ~Torn(d) /\ SignedBy(d) \subseteq {pk}
  <2>1. Verify(lines[d], pk) <=> /\ Whole(lines[d]) /\ Linked(lines[d])
                                 /\ \A i \in DOMAIN lines[d] : lines[d][i].key = pk
    BY DEF Verify, Whole, Linked, LinkAt
  <2>2. Torn(d) <=> ~Whole(lines[d])
    BY DEF Torn, Whole
  <2>3. SignedBy(d) \subseteq {pk} <=> \A i \in DOMAIN lines[d] : lines[d][i].key = pk
    BY DEF SignedBy
  <2>4. Whole(lines[d]) => (Linked(lines[d]) <=> d \notin forked)
    BY <1>1 DEF LogInv, LinkedUnlessForked
  <2> QED BY <2>1, <2>2, <2>3, <2>4
<1>2. LogInv => VerifyExact
  BY <1>1 DEF VerifyExact
<1> QED
  BY <1>2, LogStaysConsistent, PTL

\* What one step does to the files: one of them, at most, gets one line put into it.
LEMMA StepsPutLines ==
  ASSUME LogInv, [AuditNext]_auditVars, NEW d \in Day
  PROVE  \/ lines'[d] = lines[d]
         \/ \E line \in Line : lines'[d] = Put(lines[d], ragged[d], line)
<1>1. ASSUME NEW w \in Writer, AppendRecord(w) \/ AppendTorn(w)
      PROVE  \/ lines'[d] = lines[d]
             \/ \E line \in Line : lines'[d] = Put(lines[d], ragged[d], line)
  <2>1. PICK line \in {Junk, Record(w)} :
          lines' = [lines EXCEPT ![writer[w].day] = Put(@, ragged[writer[w].day], line)]
    BY <1>1 DEF AppendRecord, AppendTorn
  <2>2. w \in Open /\ next \in Id
    BY <1>1 DEF AppendRecord, AppendTorn
  <2>3. Record(w) \in Line
    BY <2>2, BoundsAssumption DEF LogInv, AuditTypeOK, Record, Line, Id
  <2> QED BY <2>1, <2>3, JunkIsALine DEF LogInv, AuditTypeOK
<1>2. ASSUME NEW w \in Writer, OpenWriter(w) PROVE lines'[d] = lines[d]
  BY <1>2 DEF OpenWriter, Kept, LogInv, AuditTypeOK
<1>3. ASSUME NEW w \in Writer, CloseWriter(w) PROVE lines'[d] = lines[d]
  BY <1>3 DEF CloseWriter
<1>4. ASSUME Midnight \/ InitSalt \/ InitPublic \/ InitSecret \/ InitStops \/ DeleteSalt
               \/ UNCHANGED auditVars
      PROVE  lines'[d] = lines[d]
  BY <1>4 DEF Midnight, InitSalt, InitPublic, InitSecret, InitStops, DeleteSalt, LogUnchanged,
              auditVars
<1> QED
  BY <1>1, <1>2, <1>3, <1>4 DEF AuditNext

\* No later write, whole or cut short, by any process, runs into a line whose record
\* append acknowledged.
THEOREM AcknowledgedStays == AuditSpec => AckedStays
<1>1. ASSUME LogInv, [AuditNext]_auditVars, NEW d \in Day, NEW i \in DOMAIN lines[d],
             Contains(acked[d], lines[d][i].this)
      PROVE  i \in DOMAIN lines'[d] /\ lines'[d][i] = lines[d][i]
  <2>1. CASE lines'[d] = lines[d]
    BY <1>1, <2>1
  <2>2. ASSUME NEW line \in Line, lines'[d] = Put(lines[d], ragged[d], line)
        PROVE  i \in DOMAIN lines'[d] /\ lines'[d][i] = lines[d][i]
    <3>1. /\ lines[d] \in Seq(Line) /\ ragged[d] \in BOOLEAN
          /\ ragged[d] => lines[d] # <<>> /\ ~Contains(acked[d], Last(lines[d]).this)
      BY <1>1 DEF LogInv, AuditTypeOK, RaggedUnacked
    <3>2. ragged[d] => i # Len(lines[d])
      BY <1>1, <3>1 DEF Last
    <3>3. i \in 1 .. Len(lines[d])
      BY <1>1, <3>1
    <3>4. PutBy(lines[d], ragged[d], line, lines'[d])
      BY <2>2, <3>1, PutHere, Zenon
    <3>5. i \in DOMAIN lines'[d]
      BY <3>1, <3>3, <3>4 DEF PutBy
    <3> QED BY <3>1, <3>2, <3>3, <3>4, <3>5 DEF PutBy
  <2> QED BY <1>1, <2>1, <2>2, StepsPutLines
<1>2. LogInv /\ [AuditNext]_auditVars =>
        [\A d \in Day : \A i \in DOMAIN lines[d] :
           Contains(acked[d], lines[d][i].this) =>
             i \in DOMAIN lines'[d] /\ lines'[d][i] = lines[d][i]]_auditVars
  BY <1>1
<1> QED
  BY <1>2, LogStaysConsistent, PTL DEF AuditSpec, AckedStays

\* A log that verifies holds every record append said Ok to, in the order it said so:
\* whatever files were torn, forked or reopened on the way, nothing acknowledged is
\* missing from a log that is accepted.
THEOREM VerifiedIsComplete == AuditSpec => []VerifiedMeansComplete
<1>1. AuditInit => LogInv /\ AckedInFile
  BY LogInvInit, AckedInFileInit
<1>2. LogInv /\ AckedInFile /\ [AuditNext]_auditVars => (LogInv /\ AckedInFile)'
  BY LogStepKeeps, AckedInFileStep
<1>3. LogInv /\ AckedInFile => VerifiedMeansComplete
  <2> SUFFICES ASSUME AckedInFile, NEW d \in Day, Verify(lines[d], pk)
               PROVE  acked[d] = Hashes(Selected(lines[d], Acknowledged(acked[d])))
    BY DEF VerifiedMeansComplete, Hashes
  <2>1. Whole(lines[d])
    BY DEF Verify, Whole
  <2> QED BY <2>1 DEF AckedInFile, AckedIn
<1> QED
  BY <1>1, <1>2, <1>3, PTL DEF AuditSpec

\* A log that no key verifies never verifies again.
THEOREM NoDamageHeals == AuditSpec => DamageIsPermanent
<1>1. ASSUME LogInv, [AuditNext]_auditVars, NEW d \in Day, NEW p \in Key, Verify(lines'[d], p)
      PROVE  Verify(lines[d], p)
  <2>1. CASE lines'[d] = lines[d]
    BY <1>1, <2>1
  <2>2. ASSUME NEW line \in Line, lines'[d] = Put(lines[d], ragged[d], line)
        PROVE  Verify(lines[d], p)
    <3>1. /\ lines[d] \in Seq(Line) /\ ragged[d] \in BOOLEAN /\ (ragged[d] => lines[d] # <<>>)
      BY <1>1 DEF LogInv, AuditTypeOK, RaggedUnacked
    <3>2. /\ Whole(lines'[d]) /\ Linked(lines'[d])
          /\ \A i \in DOMAIN lines'[d] : lines'[d][i].key = p
      BY <1>1 DEF Verify, Whole, Linked, LinkAt
    <3>3. ~ragged[d] /\ Whole(lines[d]) /\ Linked(lines[d])
      BY <2>2, <3>1, <3>2, LinksOfPut
    <3>4. PutBy(lines[d], ragged[d], line, lines'[d])
      BY <2>2, <3>1, PutHere, Zenon
    <3>5. \A i \in DOMAIN lines[d] : lines[d][i].key = p
      <4> TAKE i \in DOMAIN lines[d]
      <4>1. i \in 1 .. Len(lines[d]) /\ i \in DOMAIN lines'[d]
        BY <3>1, <3>3, <3>4 DEF PutBy
      <4> QED BY <3>2, <3>3, <3>4, <4>1 DEF PutBy
    <3> QED BY <3>3, <3>5 DEF Verify, Whole, Linked, LinkAt
  <2> QED BY <2>1, <2>2, <1>1, StepsPutLines
<1>2. LogInv /\ [AuditNext]_auditVars =>
        [\A d \in Day : Hopeless(d) => Hopeless(d)']_auditVars
  BY <1>1 DEF Hopeless
<1> QED
  BY <1>2, LogStaysConsistent, PTL DEF AuditSpec, DamageIsPermanent
=============================================================================
