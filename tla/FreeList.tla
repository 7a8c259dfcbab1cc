------------------------------ MODULE FreeList ------------------------------
(***************************************************************************)
(* free_list (spot/priv/freelist.cc): a set of free integers kept as a     *)
(* list of disjoint ranges [first, second = length], with the extend() of  *)
(* bdd_allocator (spot/priv/bddalloc.cc) behind it.  The loops are those   *)
(* of the code; the properties compare them with the sets of FreeSet, on   *)
(* which BddDict is built.                                                 *)
(***************************************************************************)
EXTENDS FreeSet, SequencesExt

CONSTANTS
  MaxVar,     \* bound on the integers on the list
  MaxN        \* bound on the integers asked for at once

ASSUME FreeListAssumption == MaxVar \in Nat /\ MaxN \in Nat

VARIABLES
  fl,         \* the list of ranges
  lvarnum     \* bdd_allocator::lvarnum

vars == <<fl, lvarnum>>

pos_length(b, n) == [first |-> b, second |-> n]

End(r) == r.first + r.second

larger(a, b) == IF a > b THEN a ELSE b
smaller(a, b) == IF a < b THEN a ELSE b

(* The end of insert(): r absorbs the ranges of rest it now touches.       *)
RECURSIVE Absorb(_, _)
Absorb(r, rest) ==
  IF rest # << >> /\ Head(rest).first <= End(r)
  THEN Absorb(pos_length(r.first, larger(End(Head(rest)), End(r)) - r.first), Tail(rest))
  ELSE <<r>> \o rest

(* insert(base, n) on the list l, whose ranges before base are skipped.    *)
RECURSIVE insert(_, _, _)
insert(l, base, n) ==
  IF l = << >> \/ Head(l).first > base + n THEN <<pos_length(base, n)>> \o l
  ELSE LET cur == Head(l)
           b   == smaller(cur.first, base)
       IN  IF base > End(cur) THEN <<cur>> \o insert(Tail(l), base, n)
           ELSE IF cur.first <= base /\ End(cur) >= base + n THEN l
           ELSE Absorb(pos_length(b, larger(End(cur), base + n) - b), Tail(l))

(* remove(i, base, n): what is left of the range r.                        *)
Cut(r, base, n) ==
  IF base = r.first
  THEN IF r.second = n THEN << >> ELSE <<pos_length(r.first + n, r.second - n)>>
  ELSE IF base + n = End(r) THEN <<pos_length(r.first, r.second - n)>>
  ELSE <<pos_length(r.first, base - r.first),
         pos_length(base + n, End(r) - base - n)>>

(* remove(base, n)                                                         *)
RECURSIVE remove(_, _, _)
remove(l, base, n) ==
  IF l = << >> \/ Head(l).first >= base + n THEN l
  ELSE LET cur == Head(l)
           b   == larger(base, cur.first)
       IN  (IF End(cur) >= base THEN Cut(cur, b, smaller(End(cur), base + n) - b)
                                ELSE <<cur>>)
           \o remove(Tail(l), base, n)

(* Mutant: the first range that is long enough, not the best.              *)
RECURSIVE Browse_First(_, _, _, _)
Browse_First(l, n, i, best) ==
  IF i > Len(l) THEN best
  ELSE IF l[i].second = n THEN i
  ELSE Browse_First(l, n, i + 1, IF l[i].second > n /\ best = 0 THEN i ELSE best)

(* The loop of register_n(n) over the ranges from index i on; best is an   *)
(* index, 0 for fl.end().                                                  *)
RECURSIVE Browse(_, _, _, _)
Browse(l, n, i, best) ==
  IF i > Len(l) THEN best
  ELSE IF l[i].second = n THEN i
  ELSE Browse(l, n, i + 1, IF /\ l[i].second > n
                              /\ best = 0 \/ l[i].second < l[best].second
                           THEN i ELSE best)

(* Mutant: an emptied range stays on the list.                             *)
register_n_KeepsEmpty(n) ==
  LET best == Browse(fl, n, 1, 0)
  IN  IF best # 0
      THEN [base |-> fl[best].first, lvarnum |-> lvarnum,
            fl |-> [fl EXCEPT ![best] = pos_length(@.first + n, @.second - n)]]
      ELSE IF fl # << >> /\ End(Last(fl)) = lvarnum
      THEN [base |-> Last(fl).first, lvarnum |-> lvarnum + (n - Last(fl).second),
            fl |-> Front(fl)]
      ELSE [base |-> lvarnum, lvarnum |-> lvarnum + n, fl |-> fl]

(* register_n(n), and bdd_allocator::extend(n) when nothing fits: the      *)
(* integer returned, the list and lvarnum afterwards.                      *)
register_n(n) ==
  LET best == Browse(fl, n, 1, 0)
  IN  IF best # 0
      THEN [base |-> fl[best].first, lvarnum |-> lvarnum,
            fl |-> SubSeq(fl, 1, best - 1) \o Cut(fl[best], fl[best].first, n)
                                           \o SubSeq(fl, best + 1, Len(fl))]
      ELSE IF fl # << >> /\ End(Last(fl)) = lvarnum
      THEN [base |-> Last(fl).first, lvarnum |-> lvarnum + (n - Last(fl).second),
            fl |-> Front(fl)]
      ELSE [base |-> lvarnum, lvarnum |-> lvarnum + n, fl |-> fl]

-----------------------------------------------------------------------------
Init == \E k \in 0..MaxVar : lvarnum = k /\ fl = <<pos_length(0, k)>>

RegisterN(n) ==
  /\ register_n(n).lvarnum <= MaxVar
  /\ fl' = register_n(n).fl /\ lvarnum' = register_n(n).lvarnum

ReleaseN(base, n) ==
  /\ base + n <= lvarnum
  /\ fl' = insert(fl, base, n) /\ UNCHANGED lvarnum

(* Only the anonymous lists of bdd_dict are cut this way.                  *)
RemoveN(base, n) ==
  /\ base + n <= lvarnum
  /\ fl' = remove(fl, base, n) /\ UNCHANGED lvarnum

Next == \/ \E n \in 1..MaxN : RegisterN(n)
        \/ \E base \in 0..MaxVar, n \in 1..MaxN : ReleaseN(base, n)
        \/ \E base \in 0..MaxVar, n \in 1..MaxN : RemoveN(base, n)

Spec == Init /\ [][Next]_vars

-----------------------------------------------------------------------------
(* The integers on a list.                                                 *)
Elements(l) == UNION {Block(l[i].first, l[i].second) : i \in DOMAIN l}

Canonical(l) ==
  \A i \in DOMAIN l : /\ l[i].first >= 0 /\ l[i].second > 0
                      /\ i > 1 => End(l[i - 1]) < l[i].first

(* The ranges are non-empty, sorted, and never adjacent or overlapping:    *)
(* register_n() would miss free integers split over two ranges.  (Only the *)
(* initial range of a BuDDy without variables is empty.)                   *)
RangesAreCanonical == Canonical(fl) \/ fl = <<pos_length(0, 0)>>

(* On a canonical list, insert() merges all the ranges it touches into the *)
(* canonical list of the union, whether or not the integers were free;     *)
(* remove() takes exactly the integers asked for out of every range it     *)
(* cuts, drops or splits, and its asserts on what is left hold.            *)
(* register_n() is the best fit of FreeSet, and when nothing fits extend() *)
(* grows the last free run instead of starting after it.                   *)
ListsComputeSets ==
  LET S == Elements(fl)
  IN /\ Canonical(fl) => \A base \in 0..MaxVar, n \in 1..MaxN :
          /\ Canonical(insert(fl, base, n)) /\ Canonical(remove(fl, base, n))
          /\ Elements(insert(fl, base, n)) = S \cup Block(base, n)
          /\ Elements(remove(fl, base, n)) = S \ Block(base, n)
     /\ \A n \in 1..MaxN :
          LET r == register_n(n)
          IN /\ Elements(r.fl) = S \ Block(r.base, n)
             /\ IF Fits(S, n) THEN r.base = BestFit(S, n)
                ELSE /\ r.lvarnum = r.base + n
                     /\ r.base .. (lvarnum - 1) \subseteq S /\ r.base - 1 \notin S
=============================================================================
