---------------------------- MODULE Loops_proofs ----------------------------
(***************************************************************************)
(* Induction over the natural numbers for sets instead of predicates, what *)
(* a loop over a sequence computes, and the selection of Loops.            *)
(***************************************************************************)
EXTENDS Loops, Integers, SequenceTheorems, NaturalsInduction, WellFoundedInduction, TLAPS

-----------------------------------------------------------------------------
(* Induction.                                                              *)

\* A set of natural numbers has a least one.
LEMMA LeastNat ==
  ASSUME NEW T \in SUBSET Nat, T # {}
  PROVE  \E n \in T : \A m \in T : n <= m
<1>1. IsWellFoundedOn(OpToRel(<, Nat), Nat)
  BY NatLessThanWellFounded
<1>2. PICK x \in T : \A y \in T : ~(<<y, x>> \in OpToRel(<, Nat))
  BY <1>1, WFMin
<1>3. \A y \in T : ~(y < x)
  BY <1>2 DEF OpToRel
<1> QED
  BY <1>3

\* A set that has 0 and the successor of each number in it has them all.
LEMMA NatInductionOnSets ==
  ASSUME NEW T, 0 \in T, \A n \in Nat : n \in T => n + 1 \in T
  PROVE  Nat \subseteq T
<1> DEFINE U == Nat \ T
<1> SUFFICES ASSUME U # {} PROVE FALSE
  OBVIOUS
<1>1. PICK n \in U : \A m \in U : n <= m
  BY LeastNat
<1>2. n # 0 /\ n - 1 \in Nat /\ n - 1 \notin U
  BY <1>1
<1> QED
  BY <1>1, <1>2

\* The same up to a limit.
LEMMA InductionUpTo ==
  ASSUME NEW N \in Nat, NEW T, 0 \in T, \A n \in 1 .. N : n - 1 \in T => n \in T
  PROVE  0 .. N \subseteq T
<1> DEFINE U == {n \in Nat : n <= N => n \in T}
<1>1. 0 \in U
  OBVIOUS
<1>2. ASSUME NEW n \in Nat, n \in U PROVE n + 1 \in U
  <2>1. CASE n + 1 <= N
    <3>1. n \in T /\ n + 1 \in 1 .. N /\ (n + 1) - 1 = n
      BY <1>2, <2>1
    <3> QED BY <3>1
  <2> QED BY <2>1
<1>3. Nat \subseteq U
  <2> HIDE DEF U
  <2> QED BY <1>1, <1>2, NatInductionOnSets
<1> QED
  BY <1>3

-----------------------------------------------------------------------------
(* Loops.                                                                  *)

\* A loop that begins with b and whose n-th turn makes G[n][a] of a has values
\* for every n.
Run(f, A, N, b, G) ==
  /\ f \in [0 .. N -> A]
  /\ f[0] = b
  /\ \A n \in 1 .. N : f[n] = G[n][f[n - 1]]

LEMMA LoopRuns ==
  ASSUME NEW A, NEW N \in Nat, NEW b \in A, NEW G \in [1 .. N -> [A -> A]]
  PROVE  \E f : Run(f, A, N, b, G)
<1> DEFINE T == {k \in Nat : \E f : Run(f, A, k, b, G)}
<1>1. 0 \in T
  <2>1. Run([n \in {0} |-> b], A, 0, b, G)
    BY DEF Run
  <2> QED BY <2>1
<1>2. ASSUME NEW n \in 1 .. N, n - 1 \in T PROVE n \in T
  <2>1. PICK f : Run(f, A, n - 1, b, G)
    BY <1>2
  <2>2. PICK g : g = [k \in 0 .. n |-> IF k = n THEN G[n][f[n - 1]] ELSE f[k]]
    OBVIOUS
  <2>3. f[n - 1] \in A
    BY <2>1 DEF Run
  <2>4. G[n][f[n - 1]] \in A
    BY <2>3
  <2>5. g \in [0 .. n -> A]
    BY <2>1, <2>2, <2>4 DEF Run
  <2>6. g[0] = b /\ \A k \in 1 .. n : g[k] = G[k][g[k - 1]]
    BY <2>1, <2>2 DEF Run
  <2>7. Run(g, A, n, b, G)
    BY <2>5, <2>6 DEF Run
  <2> QED BY <2>7
<1>3. 0 .. N \subseteq T
  <2> HIDE DEF T
  <2> QED BY <1>1, <1>2, InductionUpTo
<1> QED
  BY <1>3

\* Two loops that agree at the start and keep agreeing agree throughout.
KeepAgreeing(f, g, N) ==
  /\ f[0] = g[0]
  /\ \A n \in 1 .. N : f[n - 1] = g[n - 1] => f[n] = g[n]

LEMMA LoopsAgree ==
  ASSUME NEW N \in Nat, NEW f, NEW g, KeepAgreeing(f, g, N)
  PROVE  \A n \in 0 .. N : f[n] = g[n]
<1> DEFINE T == {n \in 0 .. N : f[n] = g[n]}
<1>1. 0 \in T
  BY DEF KeepAgreeing
<1>2. \A n \in 1 .. N : n - 1 \in T => n \in T
  BY DEF KeepAgreeing
<1>3. 0 .. N \subseteq T
  <2> HIDE DEF T
  <2> QED BY <1>1, <1>2, InductionUpTo
<1> QED
  BY <1>3

-----------------------------------------------------------------------------
(* Selected.                                                               *)

\* The selection from each prefix.
Selects(f, s, S) ==
  /\ f[0] = <<>>
  /\ \A n \in 1 .. Len(s) : f[n] = IF s[n] \in S THEN Append(f[n - 1], s[n]) ELSE f[n - 1]

LEMMA SelectionRuns ==
  ASSUME NEW E, NEW s \in Seq(E), NEW S
  PROVE  \E f \in [0 .. Len(s) -> Seq(E)] : Selects(f, s, S) /\ f[Len(s)] = Selected(s, S)
<1>1. PICK N \in Nat : N = Len(s)
  OBVIOUS
<1>2. \A n \in 1 .. N : s[n] \in E
  BY <1>1
<1> DEFINE Turn(n, a) == IF s[n] \in S THEN Append(a, s[n]) ELSE a
           G == [n \in 1 .. N |-> [a \in Seq(E) |-> Turn(n, a)]]
           Upto(f) == f = [n \in 0 .. N |-> IF n = 0 THEN <<>> ELSE Turn(n, f[n - 1])]
<1>3. \A n \in 1 .. N : \A a \in Seq(E) : Turn(n, a) \in Seq(E)
  BY <1>2, AppendProperties
<1>4. Selected(s, S) = (CHOOSE f : Upto(f))[N]
  BY <1>1, Zenon DEF Selected
<1>5. \A n \in 1 .. N : \A a : Turn(n, a) = IF s[n] \in S THEN Append(a, s[n]) ELSE a
  OBVIOUS
<1> HIDE DEF Turn
<1>6. PICK g : Run(g, Seq(E), N, <<>>, G)
  <2>1. G \in [1 .. N -> [Seq(E) -> Seq(E)]]
    BY <1>3
  <2>2. <<>> \in Seq(E)
    OBVIOUS
  <2> HIDE DEF G
  <2> QED BY <2>1, <2>2, LoopRuns
<1>7. g \in [0 .. N -> Seq(E)] /\ g[0] = <<>> /\ \A n \in 1 .. N : g[n] = Turn(n, g[n - 1])
  <2>1. \A n \in 1 .. N : \A a \in Seq(E) : G[n][a] = Turn(n, a)
    OBVIOUS
  <2> HIDE DEF G
  <2>2. g \in [0 .. N -> Seq(E)] /\ g[0] = <<>> /\ \A n \in 1 .. N : g[n] = G[n][g[n - 1]]
    BY <1>6, Zenon DEF Run
  <2>3. \A n \in 1 .. N : g[n - 1] \in Seq(E)
    BY <2>2
  <2> QED BY <2>1, <2>2, <2>3
<1>8. Upto(g)
  BY <1>7
<1>9. ASSUME NEW f, Upto(f)
      PROVE  f[N] = g[N]
  <2>1. f[0] = <<>> /\ \A n \in 1 .. N : f[n] = Turn(n, f[n - 1])
    BY <1>9
  <2>2. KeepAgreeing(f, g, N)
    BY <1>7, <2>1, Zenon DEF KeepAgreeing
  <2>3. \A n \in 0 .. N : f[n] = g[n]
    BY <2>2, LoopsAgree, Zenon
  <2> QED BY <2>3
<1>10. g[N] = Selected(s, S)
  <2> HIDE DEF Upto
  <2> QED BY <1>4, <1>8, <1>9
<1> QED
  BY <1>1, <1>5, <1>7, <1>10 DEF Selects

\* Of nothing nothing is selected.
LEMMA SelectedOfNone ==
  ASSUME NEW S
  PROVE  Selected(<<>>, S) = <<>>
<1>0. <<>> \in Seq({S})
  OBVIOUS
<1>1. PICK s \in Seq({S}) : s = <<>>
  BY <1>0, Zenon
<1>2. PICK f \in [0 .. Len(s) -> Seq({S})] : Selects(f, s, S) /\ f[Len(s)] = Selected(s, S)
  BY SelectionRuns, Zenon
<1>3. Len(s) = 0
  BY <1>1
<1> QED
  BY <1>1, <1>2, <1>3 DEF Selects

\* What is selected from s are members of s.
LEMMA SelectedType ==
  ASSUME NEW E, NEW s \in Seq(E), NEW S
  PROVE  Selected(s, S) \in Seq(E)
<1>1. PICK f \in [0 .. Len(s) -> Seq(E)] : Selects(f, s, S) /\ f[Len(s)] = Selected(s, S)
  BY SelectionRuns, Zenon
<1>2. Len(s) \in 0 .. Len(s)
  OBVIOUS
<1> QED
  BY <1>1, <1>2

\* What is selected is in S.
LEMMA SelectedMembers ==
  ASSUME NEW E, NEW s \in Seq(E), NEW S
  PROVE  Selected(s, S) \in Seq(E \cap S)
<1>1. PICK f \in [0 .. Len(s) -> Seq(E)] : Selects(f, s, S) /\ f[Len(s)] = Selected(s, S)
  BY SelectionRuns, Zenon
<1>2. PICK N \in Nat : N = Len(s)
  OBVIOUS
<1> DEFINE T == {n \in 0 .. N : f[n] \in Seq(E \cap S)}
<1>3. 0 \in T
  BY <1>1 DEF Selects
<1>4. ASSUME NEW n \in 1 .. N, n - 1 \in T PROVE n \in T
  <2>1. f[n] = IF s[n] \in S THEN Append(f[n - 1], s[n]) ELSE f[n - 1]
    BY <1>1, <1>2, Zenon DEF Selects
  <2>2. s[n] \in E /\ f[n - 1] \in Seq(E \cap S) /\ n \in 0 .. N
    BY <1>2, <1>4
  <2>3. f[n] \in Seq(E \cap S)
    BY <2>1, <2>2, AppendProperties
  <2> QED BY <2>2, <2>3
<1>5. N \in T
  <2>1. 0 .. N \subseteq T
    <3> HIDE DEF T
    <3> QED BY <1>3, <1>4, InductionUpTo
  <2> QED BY <2>1
<1> QED
  BY <1>1, <1>2, <1>5

\* One more member is selected by itself.
SelectedGrows(s, e, S) ==
  Selected(Append(s, e), S) = IF e \in S THEN Append(Selected(s, S), e) ELSE Selected(s, S)

LEMMA SelectedAppend ==
  ASSUME NEW E, NEW s \in Seq(E), NEW e \in E, NEW S
  PROVE  SelectedGrows(s, e, S)
<1>1. PICK t : t = Append(s, e)
  OBVIOUS
<1>2. /\ t \in Seq(E) /\ Len(t) = Len(s) + 1 /\ t[Len(s) + 1] = e
      /\ \A n \in 1 .. Len(s) : t[n] = s[n]
  BY <1>1, AppendProperties
<1>3. PICK f \in [0 .. Len(s) -> Seq(E)] : Selects(f, s, S) /\ f[Len(s)] = Selected(s, S)
  BY SelectionRuns, Zenon
<1>4. PICK g \in [0 .. Len(t) -> Seq(E)] : Selects(g, t, S) /\ g[Len(t)] = Selected(t, S)
  BY <1>2, SelectionRuns, Zenon
<1>5. PICK N \in Nat : N = Len(s)
  OBVIOUS
<1>6. KeepAgreeing(f, g, N)
  BY <1>2, <1>3, <1>4, <1>5 DEF Selects, KeepAgreeing
<1>7. \A n \in 0 .. N : f[n] = g[n]
  BY <1>6, LoopsAgree, Zenon
<1>8. g[N + 1] = IF e \in S THEN Append(g[N], e) ELSE g[N]
  <2>1. N + 1 \in 1 .. Len(t) /\ (N + 1) - 1 = N
    BY <1>2, <1>5
  <2>2. g[N + 1] = IF t[N + 1] \in S THEN Append(g[(N + 1) - 1], t[N + 1]) ELSE g[(N + 1) - 1]
    BY <1>4, <2>1, Zenon DEF Selects
  <2> QED BY <1>2, <1>5, <2>1, <2>2, Zenon
<1>9. g[N] = Selected(s, S)
  BY <1>3, <1>5, <1>7
<1>10. g[N + 1] = Selected(t, S)
  BY <1>2, <1>4, <1>5
<1> QED
  BY <1>1, <1>8, <1>9, <1>10, Zenon DEF SelectedGrows

\* Two sets that have the same members of s select the same.
SelectAlike(s, S, T) == Selected(s, S) = Selected(s, T)

LEMMA SelectedAlike ==
  ASSUME NEW E, NEW s \in Seq(E), NEW S, NEW T,
         \A n \in 1 .. Len(s) : s[n] \in S <=> s[n] \in T
  PROVE  SelectAlike(s, S, T)
<1>1. PICK f \in [0 .. Len(s) -> Seq(E)] : Selects(f, s, S) /\ f[Len(s)] = Selected(s, S)
  BY SelectionRuns, Zenon
<1>2. PICK g \in [0 .. Len(s) -> Seq(E)] : Selects(g, s, T) /\ g[Len(s)] = Selected(s, T)
  BY SelectionRuns, Zenon
<1>3. PICK N \in Nat : N = Len(s)
  OBVIOUS
<1>4. KeepAgreeing(f, g, N)
  <2>1. f[0] = g[0]
    BY <1>1, <1>2, Zenon DEF Selects
  <2>2. ASSUME NEW n \in 1 .. N, f[n - 1] = g[n - 1]
        PROVE  f[n] = g[n]
    <3>1. f[n] = IF s[n] \in S THEN Append(f[n - 1], s[n]) ELSE f[n - 1]
      BY <1>1, <1>3, <2>2, Zenon DEF Selects
    <3>2. g[n] = IF s[n] \in T THEN Append(g[n - 1], s[n]) ELSE g[n - 1]
      BY <1>2, <1>3, <2>2, Zenon DEF Selects
    <3>3. s[n] \in S <=> s[n] \in T
      BY <1>3, <2>2, Zenon
    <3> QED BY <2>2, <3>1, <3>2, <3>3, Zenon
  <2> QED BY <2>1, <2>2, Zenon DEF KeepAgreeing
<1>5. \A n \in 0 .. N : f[n] = g[n]
  BY <1>4, LoopsAgree, Zenon
<1> QED
  BY <1>1, <1>2, <1>3, <1>5 DEF SelectAlike

-----------------------------------------------------------------------------
(* A function applied to each member.                                      *)

Each(s, m) == [i \in DOMAIN s |-> m[s[i]]]

LEMMA EachType ==
  ASSUME NEW E, NEW F, NEW s \in Seq(E), NEW m \in [E -> F]
  PROVE  /\ Each(s, m) \in Seq(F) /\ Len(Each(s, m)) = Len(s)
         /\ \A i \in 1 .. Len(s) : Each(s, m)[i] = m[s[i]]
<1>1. PICK N \in Nat : N = Len(s)
  OBVIOUS
<1>2. DOMAIN s = 1 .. N /\ \A i \in 1 .. N : s[i] \in E
  BY <1>1
<1>3. PICK g : g = Each(s, m)
  OBVIOUS
<1>4. g \in [1 .. N -> F] /\ \A i \in 1 .. N : g[i] = m[s[i]]
  BY <1>2, <1>3 DEF Each
<1>5. g \in Seq(F) /\ Len(g) = N
  BY <1>4
<1> QED
  BY <1>1, <1>3, <1>4, <1>5

EachGrows(s, e, m) == Each(Append(s, e), m) = Append(Each(s, m), m[e])

LEMMA EachOfOneMore ==
  ASSUME NEW E, NEW F, NEW s \in Seq(E), NEW e \in E, NEW m \in [E -> F]
  PROVE  EachGrows(s, e, m)
<1>1. PICK t : t = Append(s, e)
  OBVIOUS
<1>2. /\ t \in Seq(E) /\ Len(t) = Len(s) + 1 /\ t[Len(s) + 1] = e
      /\ \A i \in 1 .. Len(s) : t[i] = s[i]
  BY <1>1, AppendProperties
<1>3. PICK g : g = Each(s, m)
  OBVIOUS
<1>4. g \in Seq(F) /\ Len(g) = Len(s) /\ \A i \in 1 .. Len(s) : g[i] = m[s[i]]
  BY <1>3, EachType
<1>5. PICK h : h = Each(t, m)
  OBVIOUS
<1>6. h \in Seq(F) /\ Len(h) = Len(t) /\ \A i \in 1 .. Len(t) : h[i] = m[t[i]]
  BY <1>2, <1>5, EachType
<1>7. PICK k : k = Append(g, m[e])
  OBVIOUS
<1>8. /\ k \in Seq(F) /\ Len(k) = Len(g) + 1 /\ k[Len(g) + 1] = m[e]
      /\ \A i \in 1 .. Len(g) : k[i] = g[i]
  <2>1. m[e] \in F
    OBVIOUS
  <2> QED BY <1>4, <1>7, <2>1, AppendProperties
<1>9. \A i \in 1 .. Len(h) : h[i] = k[i]
  <2> TAKE i \in 1 .. Len(h)
  <2>1. CASE i \in 1 .. Len(s)
    BY <1>2, <1>4, <1>6, <1>8, <2>1
  <2>2. CASE i = Len(s) + 1
    BY <1>2, <1>4, <1>6, <1>8, <2>2
  <2> QED BY <1>2, <1>6, <2>1, <2>2
<1>10. h = k
  BY <1>2, <1>4, <1>6, <1>8, <1>9, SeqEqual
<1> QED
  BY <1>1, <1>3, <1>5, <1>7, <1>10, Zenon DEF EachGrows

-----------------------------------------------------------------------------
(* Total.                                                                  *)

\* The total of each prefix.
Totals(h, f, N) ==
  /\ h \in [0 .. N -> Nat]
  /\ h[0] = 0
  /\ \A n \in 1 .. N : h[n] = h[n - 1] + f[n]

LEMMA TotalRuns ==
  ASSUME NEW N \in Nat, NEW f \in [1 .. N -> Nat]
  PROVE  \E h : Totals(h, f, N) /\ h[N] = Total(f, N)
<1> DEFINE Turn(n, a) == a + f[n]
           G == [n \in 1 .. N |-> [a \in Nat |-> Turn(n, a)]]
           Upto(h) == h = [n \in 0 .. N |-> IF n = 0 THEN 0 ELSE Turn(n, h[n - 1])]
<1>1. \A n \in 1 .. N : \A a \in Nat : Turn(n, a) \in Nat
  OBVIOUS
<1>2. Total(f, N) = (CHOOSE h : Upto(h))[N]
  BY Zenon DEF Total
<1>3. \A n, a : Turn(n, a) = a + f[n]
  OBVIOUS
<1> HIDE DEF Turn
<1>4. PICK g : Run(g, Nat, N, 0, G)
  <2>1. G \in [1 .. N -> [Nat -> Nat]]
    BY <1>1
  <2>2. 0 \in Nat
    OBVIOUS
  <2> HIDE DEF G
  <2> QED BY <2>1, <2>2, LoopRuns
<1>5. g \in [0 .. N -> Nat] /\ g[0] = 0 /\ \A n \in 1 .. N : g[n] = Turn(n, g[n - 1])
  <2>1. \A n \in 1 .. N : \A a \in Nat : G[n][a] = Turn(n, a)
    OBVIOUS
  <2> HIDE DEF G
  <2>2. g \in [0 .. N -> Nat] /\ g[0] = 0 /\ \A n \in 1 .. N : g[n] = G[n][g[n - 1]]
    BY <1>4, Zenon DEF Run
  <2>3. \A n \in 1 .. N : g[n - 1] \in Nat
    BY <2>2
  <2> QED BY <2>1, <2>2, <2>3
<1>6. Upto(g)
  BY <1>5
<1>7. ASSUME NEW h, Upto(h)
      PROVE  h[N] = g[N]
  <2>1. h[0] = 0 /\ \A n \in 1 .. N : h[n] = Turn(n, h[n - 1])
    BY <1>7
  <2>2. KeepAgreeing(h, g, N)
    BY <1>5, <2>1, Zenon DEF KeepAgreeing
  <2>3. \A n \in 0 .. N : h[n] = g[n]
    BY <2>2, LoopsAgree, Zenon
  <2> QED BY <2>3
<1>8. g[N] = Total(f, N)
  <2> HIDE DEF Upto
  <2> QED BY <1>2, <1>6, <1>7
<1> QED
  BY <1>3, <1>5, <1>8 DEF Totals

LEMMA TotalType ==
  ASSUME NEW N \in Nat, NEW f \in [1 .. N -> Nat]
  PROVE  Total(f, N) \in Nat
<1>1. PICK h : Totals(h, f, N) /\ h[N] = Total(f, N)
  BY TotalRuns, Zenon
<1> QED
  BY <1>1 DEF Totals

\* The total of nothing, or of nothing but zeros.
LEMMA TotalOfZeros ==
  ASSUME NEW N \in Nat, NEW f \in [1 .. N -> Nat], \A n \in 1 .. N : f[n] = 0
  PROVE  Total(f, N) = 0
<1>1. PICK h : Totals(h, f, N) /\ h[N] = Total(f, N)
  BY TotalRuns, Zenon
<1> DEFINE T == {n \in 0 .. N : h[n] = 0}
<1>2. 0 \in T
  BY <1>1 DEF Totals
<1>3. \A n \in 1 .. N : n - 1 \in T => n \in T
  BY <1>1 DEF Totals
<1>4. 0 .. N \subseteq T
  <2> HIDE DEF T
  <2> QED BY <1>2, <1>3, InductionUpTo
<1> QED
  BY <1>1, <1>4

\* What does not shrink has no smaller total.
TotalAtMost(f, g, N) == Total(f, N) <= Total(g, N)

LEMMA TotalGrows ==
  ASSUME NEW N \in Nat, NEW f \in [1 .. N -> Nat], NEW g \in [1 .. N -> Nat],
         \A n \in 1 .. N : f[n] <= g[n]
  PROVE  TotalAtMost(f, g, N)
<1>1. PICK h : Totals(h, f, N) /\ h[N] = Total(f, N)
  BY TotalRuns, Zenon
<1>2. PICK k : Totals(k, g, N) /\ k[N] = Total(g, N)
  BY TotalRuns, Zenon
<1> DEFINE T == {n \in 0 .. N : h[n] <= k[n]}
<1>3. 0 \in T
  BY <1>1, <1>2 DEF Totals
<1>4. ASSUME NEW n \in 1 .. N, n - 1 \in T PROVE n \in T
  <2>1. /\ h[n - 1] \in Nat /\ k[n - 1] \in Nat /\ f[n] \in Nat /\ g[n] \in Nat
        /\ h[n] = h[n - 1] + f[n] /\ k[n] = k[n - 1] + g[n] /\ n \in 0 .. N
    BY <1>1, <1>2 DEF Totals
  <2> QED BY <1>4, <2>1
<1>5. 0 .. N \subseteq T
  <2> HIDE DEF T
  <2> QED BY <1>3, <1>4, InductionUpTo
<1> QED
  BY <1>1, <1>2, <1>5 DEF TotalAtMost

\* One member that is larger by d makes the total larger by d.
TotalLarger(f, g, N, d) == Total(g, N) = Total(f, N) + d

LEMMA TotalOfOneLarger ==
  ASSUME NEW N \in Nat, NEW f \in [1 .. N -> Nat], NEW g \in [1 .. N -> Nat],
         NEW m \in 1 .. N, NEW d \in Nat, g[m] = f[m] + d,
         \A n \in 1 .. N : n # m => g[n] = f[n]
  PROVE  TotalLarger(f, g, N, d)
<1>1. PICK h : Totals(h, f, N) /\ h[N] = Total(f, N)
  BY TotalRuns, Zenon
<1>2. PICK k : Totals(k, g, N) /\ k[N] = Total(g, N)
  BY TotalRuns, Zenon
<1> DEFINE T == {n \in 0 .. N : k[n] = IF n < m THEN h[n] ELSE h[n] + d}
<1>3. 0 \in T
  BY <1>1, <1>2 DEF Totals
<1>4. ASSUME NEW n \in 1 .. N, n - 1 \in T PROVE n \in T
  <2>1. /\ h[n - 1] \in Nat /\ f[n] \in Nat /\ n \in 0 .. N
        /\ h[n] = h[n - 1] + f[n] /\ k[n] = k[n - 1] + g[n]
    <3>1. n - 1 \in 0 .. N /\ n \in 0 .. N /\ f[n] \in Nat
      OBVIOUS
    <3>2. h \in [0 .. N -> Nat] /\ h[n] = h[n - 1] + f[n] /\ k[n] = k[n - 1] + g[n]
      BY <1>1, <1>2, Zenon DEF Totals
    <3> QED BY <3>1, <3>2
  <2>2. k[n - 1] = IF n - 1 < m THEN h[n - 1] ELSE h[n - 1] + d
    BY <1>4
  <2>3. n < m => n - 1 < m /\ n # m
    OBVIOUS
  <2>4. n > m => ~(n - 1 < m) /\ n # m
    OBVIOUS
  <2>5. k[n] = IF n < m THEN h[n] ELSE h[n] + d
    <3>1. CASE n < m
      BY <2>1, <2>2, <2>3, <3>1
    <3>2. CASE n = m
      BY <2>1, <2>2, <3>2
    <3>3. CASE n > m
      BY <2>1, <2>2, <2>4, <3>3
    <3> QED BY <3>1, <3>2, <3>3
  <2> QED BY <2>1, <2>5
<1>5. 0 .. N \subseteq T
  <2> HIDE DEF T
  <2> QED BY <1>3, <1>4, InductionUpTo
<1>6. k[N] = h[N] + d
  BY <1>5
<1> QED
  BY <1>1, <1>2, <1>6 DEF TotalLarger

\* A longer loop adds what comes last, and equal members give equal totals.
TotalStep(f, g, N) == Total(g, N + 1) = Total(f, N) + g[N + 1]

LEMMA TotalOfOneMore ==
  ASSUME NEW N \in Nat, NEW f \in [1 .. N -> Nat], NEW g \in [1 .. N + 1 -> Nat],
         \A n \in 1 .. N : g[n] = f[n]
  PROVE  TotalStep(f, g, N)
<1>1. PICK h : Totals(h, f, N) /\ h[N] = Total(f, N)
  BY TotalRuns, Zenon
<1>2. PICK M \in Nat : M = N + 1
  OBVIOUS
<1>3. g \in [1 .. M -> Nat]
  BY <1>2
<1>4. PICK k : Totals(k, g, M) /\ k[M] = Total(g, M)
  BY <1>3, TotalRuns, Zenon
<1>5. KeepAgreeing(h, k, N)
  BY <1>1, <1>2, <1>4 DEF Totals, KeepAgreeing
<1>6. h[N] = k[N]
  BY <1>5, LoopsAgree
<1>7. k[M] = k[N] + g[M]
  BY <1>2, <1>4 DEF Totals
<1> QED
  BY <1>1, <1>2, <1>4, <1>6, <1>7 DEF TotalStep
=============================================================================
