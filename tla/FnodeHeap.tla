----------------------------- MODULE FnodeHeap -----------------------------
(***************************************************************************)
(* How spot/tl/formula.cc stores formulas: every formula is one node of    *)
(* class fnode, shared by all who use it, that counts its references and   *)
(* is found again in the tables of maps_t when the same one is asked for.  *)
(*                                                                         *)
(* Each operator takes the heap h and returns the one it leaves.  The      *)
(* constructors own the references they are passed: they hand them on to   *)
(* a new node or destroy() them.  The identifiers are abstracted to what   *)
(* they are for: 0, 1 and 2 are the constants, and the operands of         *)
(* commutative operators are sorted.                                       *)
(***************************************************************************)
EXTENDS Integers, SequencesExt

CONSTANTS
  Names,       \* names of atomic propositions
  NodeBound,   \* bound on the addresses of nodes: no operation needs more
  RefMod,      \* refs_ is counted modulo 2^16
  MaxMod       \* min_ and max_ are bytes: modulo 2^8

ff == 0
tt == 1
eword == 2
NULL == -1

Addr == 3 .. NodeBound

(* UINT8_MAX                                                               *)
unbounded == MaxMod - 1

no_node == [op |-> "none", ch |-> << >>, min |-> 0, max |-> 0, refs |-> 0, saturated |-> FALSE]

(* The static members of fnode and maps_t.                                 *)
EmptyHeap ==
  [node |-> [a \in Addr |-> no_node], uniq |-> {}, name2ap |-> [n \in Names |-> NULL],
   one_star |-> NULL]

Live(h) == {a \in Addr : h.node[a].op # "none"}

is(h, a, o) == a \in Addr /\ h.node[a].op = o

(* Mutant: nothing is recorded when the counter wraps around.              *)
clone_Wraps(h, a) ==
  IF a \notin Addr THEN h
  ELSE [h EXCEPT !.node[a].refs = (@ + 1) % RefMod]

(* The references to constants are not counted: nothing depends on them.   *)
clone(h, a) ==
  IF a \notin Addr THEN h
  ELSE LET r == (h.node[a].refs + 1) % RefMod
       IN [h EXCEPT !.node[a].refs = r,
                    !.node[a].saturated = @ \/ r = 0]

clone_all(h, v) == FoldLeft(clone, h, v)

(* destroy() for each of v.                                                *)
RECURSIVE destroy_all(_, _)

(* Mutant: the deleted node stays in the table.                            *)
destroy_aux_Listed(h, a) ==
  LET f == h.node[a]
      unlinked ==
        IF f.op = "ap"
        THEN [h EXCEPT !.name2ap = [n \in Names |-> IF @[n] = a THEN NULL ELSE @[n]]]
        ELSE destroy_all(h, f.ch)
  IN [unlinked EXCEPT !.node[a] = no_node]

(* destroy_aux()                                                           *)
destroy_aux(h, a) ==
  LET f == h.node[a]
      unlinked ==
        IF f.op = "ap"
        THEN [h EXCEPT !.name2ap = [n \in Names |-> IF @[n] = a THEN NULL ELSE @[n]]]
        ELSE destroy_all([h EXCEPT !.uniq = @ \ {a}], f.ch)
  IN [unlinked EXCEPT !.node[a] = no_node]

destroy(h, a) ==
  IF a \notin Addr THEN h
  ELSE IF h.node[a].refs > 0 THEN [h EXCEPT !.node[a].refs = @ - 1]
  ELSE IF h.node[a].saturated THEN h
  ELSE destroy_aux(h, a)

destroy_all(h, v) == IF v = << >> THEN h ELSE destroy_all(destroy(h, Head(v)), Tail(v))

-----------------------------------------------------------------------------
Result(h, a) == [h |-> h, f |-> a]

(* new fnode(o, v, min, max)                                               *)
new(h, o, v, min, max) ==
  LET unused == Addr \ Live(h)
      a == CHOOSE x \in unused : \A y \in unused : x <= y
  IN Result([h EXCEPT !.node[a] = [op |-> o, ch |-> v, min |-> min, max |-> max,
                                   refs |-> 0, saturated |-> FALSE]], a)

(* formula_cmp: the nodes of uniq equal to the one to be built.            *)
Equal(h, o, v, min, max) ==
  {u \in h.uniq : LET f == h.node[u]
                  IN f.op = o /\ f.ch = v /\ f.min = min /\ f.max = max}

(* unique(new fnode(o, v, min, max))                                       *)
unique(h, o, v, min, max) ==
  LET same == Equal(h, o, v, min, max)
      n == new(h, o, v, min, max)
  IN IF same # {} THEN LET u == CHOOSE u \in same : TRUE
                       IN Result(clone(destroy_all(h, v), u), u)
     ELSE Result([n.h EXCEPT !.uniq = @ \cup {n.f}], n.f)

ap(h, name) ==
  IF h.name2ap[name] # NULL
  THEN Result(clone(h, h.name2ap[name]), h.name2ap[name])
  ELSE LET n == new(h, "ap", << >>, 0, 0)
       IN Result([n.h EXCEPT !.name2ap[name] = n.f], n.f)

-----------------------------------------------------------------------------
(* is_.accepting_eword, as setup_props() computes it.                      *)
RECURSIVE accepts_eword(_, _)
accepts_eword(h, a) ==
  \/ a = eword
  \/ /\ is(h, a, "Star")
     /\ h.node[a].min = 0 \/ accepts_eword(h, h.node[a].ch[1])
  \/ /\ is(h, a, "Concat")
     /\ \A i \in DOMAIN h.node[a].ch : accepts_eword(h, h.node[a].ch[i])
=============================================================================
