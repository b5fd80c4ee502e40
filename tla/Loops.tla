-------------------------------- MODULE Loops --------------------------------
(***************************************************************************)
(* Loops over a sequence as recursive functions over its prefixes, the     *)
(* form that both TLC evaluates and Loops_proofs reasons about.            *)
(***************************************************************************)
EXTENDS Naturals, Sequences

\* The members of s that are in S, in the order of s.
Selected(s, S) ==
  LET upTo[n \in 0 .. Len(s)] ==
        IF n = 0 THEN <<>>
        ELSE IF s[n] \in S THEN Append(upTo[n - 1], s[n]) ELSE upTo[n - 1]
  IN  upTo[Len(s)]

\* f[1] + ... + f[N].
Total(f, N) ==
  LET upTo[n \in 0 .. N] == IF n = 0 THEN 0 ELSE upTo[n - 1] + f[n]
  IN  upTo[N]
=============================================================================
