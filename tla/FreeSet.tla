------------------------------ MODULE FreeSet ------------------------------
(***************************************************************************)
(* What spot/priv/freelist.hh promises: a free_list stands for a set S of  *)
(* integers, and register_n(n) takes n consecutive ones out of it, from    *)
(* the smallest run of consecutive integers that is long enough.  Module   *)
(* FreeList shows that the list of ranges of freelist.cc does this.        *)
(***************************************************************************)
EXTENDS Integers

(* The n integers from b on.                                               *)
Block(b, n) == b .. (b + n - 1)

(* The maximal runs of consecutive integers of S, as pairs of bounds.      *)
Runs(S) == {r \in S \X S : /\ r[1] .. r[2] \subseteq S /\ r[1] <= r[2]
                           /\ r[1] - 1 \notin S /\ r[2] + 1 \notin S}

Length(r) == r[2] - r[1] + 1

(* The runs in which n consecutive integers can be found.                  *)
LongRuns(S, n) == {r \in Runs(S) : Length(r) >= n}

Fits(S, n) == LongRuns(S, n) # {}

(* r is shorter than q, or as short and not after it.                      *)
Better(r, q) == \/ Length(r) < Length(q)
                \/ Length(r) = Length(q) /\ r[1] <= q[1]

(* Where register_n(n) finds its n integers when they fit.                 *)
BestFit(S, n) ==
  (CHOOSE r \in LongRuns(S, n) : \A q \in LongRuns(S, n) : Better(r, q))[1]
=============================================================================
