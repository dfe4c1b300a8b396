--------------------------- MODULE MCPublishedLease ---------------------------
(***************************************************************************)
(* A small instance: two claims, so that one may displace the other.       *)
(* Focus bounds the exploration: any two of a displaced claim, a second    *)
(* commit, a second pull request, a moved target branch and a reconciler   *)
(* at work beside them, not all of them at once; renewals come on top of   *)
(* one less.                                                               *)
(***************************************************************************)
EXTENDS PublishedLease, TLC

Symmetry == Permutations(Claim) \cup Permutations(Reconciler)

Total(f) == LET sum[S \in SUBSET Claim] ==
                  IF S = {} THEN 0 ELSE LET c == CHOOSE x \in S : TRUE IN f[c] + sum[S \ {c}]
            IN  sum[Claim]

Focus ==
  LET size == Total(head) + Len(prs) + Tip
              + Cardinality({r \in Reconciler : watch[r] # None})
  IN  size <= 6 /\ (Total(renewed) > 0 => size + Total(renewed) <= 5)
=============================================================================
