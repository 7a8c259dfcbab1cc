------------------------------- MODULE Fnode -------------------------------
(***************************************************************************)
(* The constructors of formulas of spot/tl/formula.cc with their trivial   *)
(* identities: unop(), binop(), multop() for And, Or and Concat, and       *)
(* bunop() for Star; and the clients that hold formulas, class formula of  *)
(* spot/tl/formula.hh.                                                     *)
(***************************************************************************)
EXTENDS FnodeMeaning, BagsExt

CONSTANTS
  UnOps, BinOps, MultOps,   \* the operators the clients use
  Ranges,      \* the ranges of the stars they write
  LiveBound,   \* bound on the number of nodes between two operations
  HeldBound,   \* bound on the number of formulas the clients hold
  OperandBound,   \* bound on the number of operands of a node
  StarBound    \* bound on the ranges of the stars that are operands

VARIABLES
  heap,   \* the nodes and tables
  held    \* the references that the clients own, a bag of nodes

vars == <<heap, held>>

Init == heap = EmptyHeap /\ held = EmptyBag

-----------------------------------------------------------------------------
(* Mutant: the reference to f is not given up.                             *)
Involution_Leak(h, f) ==
  LET c == h.node[f].ch[1] IN Result(clone(h, c), c)

(* !!c = c                                                                 *)
Involution(h, f) ==
  LET c == h.node[f].ch[1] IN Result(destroy(clone(h, c), f), c)

unop(h, o, f) ==
  CASE o \in {"F", "G"} /\ (is(h, f, o) \/ f \in {ff, tt}) -> Result(h, f)
    [] o = "Not" /\ f = tt -> Result(h, ff)
    [] o = "Not" /\ f = ff -> Result(h, tt)
    [] o = "Not" /\ is(h, f, "Not") -> Involution(h, f)
    [] o = "X" /\ f = tt -> Result(h, f)
    [] o = "strong_X" /\ f = ff -> Result(h, f)
    [] OTHER -> unique(h, o, <<f>>, 0, 0)

(* Two references are given up, and a constant returned.                   *)
Drop(h, f, g, const) == Result(destroy(destroy(h, f), g), const)

Keep(h, lost, kept) == Result(destroy(h, lost), kept)

(* Mutant: 1 W f = f.                                                      *)
BinopUW_Swapped(h, o, f, g) ==
  CASE o = "U" /\ (g \in {tt, ff} \/ f = ff \/ f = g) -> Keep(h, f, g)
    [] o = "W" /\ (g = tt \/ f = ff \/ f = g) -> Keep(h, f, g)
    [] o = "W" /\ f = tt -> Keep(h, f, g)
    [] OTHER -> unique(h, o, <<f, g>>, 0, 0)

BinopUW(h, o, f, g) ==
  CASE o = "U" /\ (g \in {tt, ff} \/ f = ff \/ f = g) -> Keep(h, f, g)
    [] o = "W" /\ (g = tt \/ f = ff \/ f = g) -> Keep(h, f, g)
    [] o = "W" /\ f = tt -> Keep(h, g, f)
    [] OTHER -> unique(h, o, <<f, g>>, 0, 0)

BinopRM(h, o, f, g) ==
  CASE o = "R" /\ (g \in {tt, ff} \/ f = tt \/ f = g) -> Keep(h, f, g)
    [] o = "M" /\ (g = ff \/ f = tt \/ f = g) -> Keep(h, f, g)
    [] o = "M" /\ f = ff -> Keep(h, g, f)
    [] OTHER -> unique(h, o, <<f, g>>, 0, 0)

(* f <= g: the operands of Xor and Equiv are sorted, constants first.      *)
BinopSorted(h, o, f, g) ==
  CASE f = (IF o = "Xor" THEN tt ELSE ff) -> unop(h, "Not", g)
    [] f = (IF o = "Xor" THEN ff ELSE tt) -> Result(h, g)
    [] f = g -> Drop(h, f, g, IF o = "Xor" THEN ff ELSE tt)
    [] OTHER -> unique(h, o, <<f, g>>, 0, 0)

BinopImplies(h, f, g) ==
  CASE f = tt -> Result(h, g)
    [] f = ff -> Keep(h, g, tt)
    [] g = tt -> Keep(h, f, g)
    [] g = ff -> unop(h, "Not", f)
    [] f = g -> Drop(h, f, g, tt)
    [] OTHER -> unique(h, "Implies", <<f, g>>, 0, 0)

binop(h, o, f, g) ==
  CASE o \in {"Xor", "Equiv"} ->
         IF f <= g THEN BinopSorted(h, o, f, g) ELSE BinopSorted(h, o, g, f)
    [] o = "Implies" -> BinopImplies(h, f, g)
    [] o \in {"U", "W"} -> BinopUW(h, o, f, g)
    [] o \in {"R", "M"} -> BinopRM(h, o, f, g)

-----------------------------------------------------------------------------
(* Mutant: the gaps between the ranges are ignored.                        *)
Mergeable_Always(i, j, k) == TRUE

(* The ranges i*k..j*k and i*(k+1)..j*(k+1) are adjacent or overlap.       *)
Mergeable(i, j, k) == i * (k + 1) <= j * k + 1

(* Exp[*i..j][*k..l] = Exp[*ik..jl], where the products are bytes.         *)
Nested(h, f, min, max) ==
  LET n == h.node[f]
      exp == n.ch[1]
      fits == n.max = unbounded \/ Mergeable(n.min, n.max, min)
      hi == IF n.max = unbounded \/ max = unbounded THEN unbounded ELSE (max * n.max) % MaxMod
  IN IF fits THEN unique(destroy(clone(h, exp), f), "Star", <<exp>>, (min * n.min) % MaxMod, hi)
     ELSE unique(h, "Star", <<f>>, min, max)

(* bunop(op::Star, f, min, max)                                            *)
bunop(h, f, min, max) ==
  CASE f = eword -> Result(h, eword)
    [] f = ff /\ min = 0 -> Result(h, eword)
    [] f = ff /\ min > 0 -> Result(h, f)
    [] f \notin {eword, ff} /\ max = 0 -> Keep(h, f, eword)
    [] f \notin {eword, ff} /\ max > 0 /\ min = 1 /\ max = 1 -> Result(h, f)
    [] OTHER -> IF is(h, f, "Star") THEN Nested(h, f, min, max)
                ELSE unique(h, "Star", <<f>>, min, max)

(* one_star(): 1[*] is built when it is first needed, and stays.           *)
StoreOneStar(r) == [r.h EXCEPT !.one_star = r.f]

one_star(h) ==
  IF h.one_star # NULL THEN h ELSE StoreOneStar(bunop(h, tt, 0, unbounded))

-----------------------------------------------------------------------------
(* A vector of references, with the heap.                                  *)
Vec(h, v) == [h |-> h, v |-> v]

(* Inline children of the same kind, and remove null pointers.             *)
Inlined(h, o, v) ==
  FoldLeft(LAMBDA a, f :
             IF f = NULL THEN a
             ELSE IF ~is(h, f, o) THEN Vec(a.h, Append(a.v, f))
             ELSE Vec(destroy(clone_all(a.h, h.node[f].ch), f), a.v \o h.node[f].ch),
           Vec(h, << >>), v)

(* Remove neutral elements and, from a sorted vector, duplicates.          *)
Deduplicated(in, neutral, sorted) ==
  FoldLeft(LAMBDA a, f :
             IF f = neutral \/ (sorted /\ a.v # << >> /\ f = Last(a.v))
             THEN Vec(destroy(a.h, f), a.v)
             ELSE Vec(a.h, Append(a.v, f)),
           Vec(in.h, << >>), in.v)

(* Concat: of adjacent operands that accept the empty word and are 1[*]    *)
(* for some, only a 1[*] is left.                                          *)
Absorbed(h, v) ==
  LET os == h.one_star
      Near(i, j) == \A k \in (i .. j) \cup (j .. i) : accepts_eword(h, v[k])
      Eaten(i) == \E j \in DOMAIN v : v[j] = os /\ Near(i, j)
      First(i) == Eaten(i) /\ ~(i > 1 /\ accepts_eword(h, v[i - 1]))
  IN FoldLeftDomain(LAMBDA a, i :
             IF ~Eaten(i) THEN Vec(a.h, Append(a.v, v[i]))
             ELSE IF First(i) THEN Vec(clone(destroy(a.h, v[i]), os), Append(a.v, os))
             ELSE Vec(destroy(a.h, v[i]), a.v),
           Vec(h, << >>), v)

(* Exp and its range, of Exp[*min..max] or of Exp itself.                  *)
Base(h, f) == IF is(h, f, "Star") THEN h.node[f].ch[1] ELSE f
Low(h, f) == IF is(h, f, "Star") THEN h.node[f].min ELSE 1
High(h, f) == IF is(h, f, "Star") THEN h.node[f].max ELSE 1

(* The sum of two ends of ranges; it only is a byte when bunop() gets it.  *)
Plus(i, j) == IF i = unbounded \/ j = unbounded THEN unbounded ELSE i + j

Byte(n) == n % MaxMod

(* Concat: adjacent f[*i..j] and f[*k..l] become f[*i+k..j+l].  a.v has    *)
(* what was merged so far, and a.min and a.max the range that its last     *)
(* element stands for; a.n is the number of operands in it.                *)
Flushed(v, r) == Vec(destroy(r.h, Last(v)), Append(Front(v), r.f))

Flush(a) ==
  IF a.n <= 1 THEN Vec(a.h, a.v)
  ELSE LET exp == Base(a.h, Last(a.v))
       IN Flushed(a.v, bunop(clone(a.h, exp), exp, Byte(a.min), Byte(a.max)))

Started(a, f) ==
  [h |-> a.h, v |-> Append(a.v, f), n |-> 1, min |-> Low(a.h, f), max |-> High(a.h, f)]

Merged(in) ==
  Flush(FoldLeft(
    LAMBDA a, f :
      IF a.n > 0 /\ Base(a.h, f) = Base(a.h, Last(a.v))
      THEN [h |-> destroy(a.h, f), v |-> a.v, n |-> a.n + 1,
            min |-> Plus(a.min, Low(a.h, f)), max |-> Plus(a.max, High(a.h, f))]
      ELSE Started(Flush(a), f),
    [h |-> in.h, v |-> << >>, n |-> 0, min |-> 0, max |-> 0], in.v))

neutral(o) == CASE o = "And" -> tt [] o = "Or" -> ff [] o = "Concat" -> eword

abs(o) == CASE o = "And" -> ff [] o = "Or" -> tt [] o = "Concat" -> ff

(* What is left of the operands of o once they are simplified.             *)
Simplified(in, o) ==
  IF o = "Concat" THEN Merged(Deduplicated(Absorbed(one_star(in.h), in.v), neutral(o), FALSE))
  ELSE Deduplicated([in EXCEPT !.v = SortSeq(@, <)], neutral(o), TRUE)

(* The node for the simplified operands s, if it takes one.                *)
Node(s, o) ==
  CASE s.v = << >> -> Result(s.h, neutral(o))
    [] Len(s.v) = 1 -> Result(s.h, s.v[1])
    [] OTHER -> unique(s.h, o, s.v, 0, 0)

MultopOf(in, o) ==
  IF abs(o) \in ToSet(in.v)
  THEN Result(destroy_all(IF o = "Concat" THEN one_star(in.h) ELSE in.h, in.v), abs(o))
  ELSE Node(Simplified(in, o), o)

multop(h, o, v) == MultopOf(Inlined(h, o, v), o)

-----------------------------------------------------------------------------
(* The clients                                                             *)

(* What may be an operand of a temporal operator, and of a SERE one.       *)
is_ltl(f) == f # eword /\ ~is(heap, f, "Star") /\ ~is(heap, f, "Concat")

is_sere(f) ==
  f \in {ff, tt, eword} \/ is(heap, f, "ap") \/ is(heap, f, "Star") \/ is(heap, f, "Concat")

Held == BagToSet(held) \cup {ff, tt, eword}

(* The clients own the references v and want them back as the one of r.    *)
Owned(v) == \A f \in Addr : Cardinality({i \in DOMAIN v : v[i] = f}) <= CopiesIn(f, held)

Given(v) == SelectSeq(v, LAMBDA f : f \in Addr)

(* The ranges are those of bytes: the stars the clients use stay small.    *)
Small(h) ==
  \A a \in Live(h) : h.node[a].op = "Star" =>
    h.node[a].min <= StarBound /\ h.node[a].max \in 0 .. StarBound \cup {unbounded}

Build(v, r) ==
  /\ Owned(v) /\ Cardinality(Live(r.h)) <= LiveBound /\ Small(r.h)
  /\ heap' = r.h
  /\ held' = LET rest == FoldLeft(LAMBDA b, f : b (-) SetToBag({f}), held, Given(v))
             IN IF r.f \in Addr THEN rest (+) SetToBag({r.f}) ELSE rest
  /\ BagCardinality(held') <= HeldBound
  /\ r.f \in Addr => Len(r.h.node[r.f].ch) <= OperandBound

Ap(name) == Build(<< >>, ap(heap, name))

Unop(o, f) == is_ltl(f) /\ Build(<<f>>, unop(heap, o, f))

Binop(o, f, g) == is_ltl(f) /\ is_ltl(g) /\ Build(<<f, g>>, binop(heap, o, f, g))

Fits(o, v) ==
  \A i \in DOMAIN v :
    v[i] = NULL \/ IF o = "Concat" THEN is_sere(v[i]) ELSE is_ltl(v[i])

Multop(o, v) == Fits(o, v) /\ Build(v, multop(heap, o, v))

Star(f, r) == is_sere(f) /\ Build(<<f>>, bunop(heap, f, r[1], r[2]))

(* formula(const formula&), and after ~formula() also operator=()          *)
Copy(f) ==
  /\ BagCardinality(held) < HeldBound
  /\ heap' = clone(heap, f)
  /\ held' = held (+) SetToBag({f})

(* ~formula()                                                              *)
Delete(f) ==
  /\ heap' = destroy(heap, f)
  /\ held' = held (-) SetToBag({f})

Next ==
  \/ \E n \in Names : Ap(n)
  \/ \E o \in UnOps, f \in Held : Unop(o, f)
  \/ \E o \in BinOps, f, g \in Held : Binop(o, f, g)
  \/ \E o \in MultOps, f, g \in Held \cup {NULL} : Multop(o, <<f, g>>)
  \/ \E f \in Held, r \in Ranges : Star(f, r)
  \/ \E f \in BagToSet(held) : Copy(f)
  \/ \E f \in BagToSet(held) : Delete(f)

Spec == Init /\ [][Next]_vars

-----------------------------------------------------------------------------
(* The references to a: from the clients' b, from nodes, from one_star_.   *)
References(h, b, a) ==
  CopiesIn(a, b)
    + Cardinality({<<u, i>> \in Live(h) \X (1 .. OperandBound) :
                     i \in DOMAIN h.node[u].ch /\ h.node[u].ch[i] = a})
    + (IF h.one_star = a THEN 1 ELSE 0)

Exact(h, b) ==
  \A a \in Live(h) : h.node[a].saturated \/ h.node[a].refs + 1 = References(h, b, a)

(* So it is when the clients own the result r as well.                     *)
ExactWith(r) == Exact(r.h, IF r.f \in Addr THEN held (+) SetToBag({r.f}) ELSE held)

(* "reference count - 1": every constructor hands on or gives up each of   *)
(* the references it gets, whatever identity applies, so that refs_ counts *)
(* them exactly until it saturates; a node nobody refers to is gone, and   *)
(* instances_check() finds none when the clients hold none.                *)
RefsAreExact ==
  /\ Exact(heap, held)
  /\ \A o \in {"Xor", "Implies", "W", "R"}, f, g \in {x \in Held : is_ltl(x)} :
       ExactWith(binop(clone(clone(heap, f), g), o, f, g))

(* No client and no node refers to a node that was deleted, even when      *)
(* reference counters have wrapped around.                                 *)
NoDangling ==
  /\ BagToSet(held) \subseteq Live(heap)
  /\ \A u \in Live(heap) : ToSet(heap.node[u].ch) \cap Addr \subseteq Live(heap)

(* Between k and k+1 times the range of the star c lies a number.          *)
Skips(c, k) == c.max # unbounded /\ (c.max * k) + 1 .. (c.min * (k + 1)) - 1 # {}

(* What the constructors leave of a node n: And and Or have at least two   *)
(* operands, none twice, none of the same kind, no constant; Concat has at *)
(* least two, none of them a Concat, [*0] or 0; there is no double         *)
(* negation, and a star of a star only where the ranges leave a gap.       *)
Irreducible(n) ==
  LET kids == ToSet(n.ch)
  IN /\ n.op \in {"And", "Or"} =>
          /\ Len(n.ch) >= 2 /\ Cardinality(kids) = Len(n.ch)
          /\ kids \cap {ff, tt} = {}
          /\ \A k \in kids : ~is(heap, k, n.op)
     /\ n.op = "Concat" =>
          /\ Len(n.ch) >= 2 /\ kids \cap {ff, eword} = {}
          /\ \A k \in kids : ~is(heap, k, "Concat")
     /\ n.op \in {"Not", "F", "G"} => ~is(heap, n.ch[1], n.op)
     /\ n.op = "Star" =>
          /\ n.ch[1] \notin {ff, eword} /\ <<n.min, n.max>> \notin {<<0, 0>>, <<1, 1>>}
          /\ is(heap, n.ch[1], "Star") => Skips(heap.node[n.ch[1]], n.min)

(* Two nodes are never the same formula, so that formulas are compared by  *)
(* address; the tables hold exactly the nodes there are; and each node is  *)
(* one that the constructors do not simplify.                              *)
FormulasAreCanonical ==
  /\ \A a, b \in Live(heap) :
       /\ heap.node[a].op = "ap" <=> \E n \in Names : heap.name2ap[n] = a
       /\ heap.node[a].op # "ap" <=> a \in heap.uniq
       /\ a # b /\ heap.node[a].op # "ap" =>
            \/ heap.node[a].op # heap.node[b].op \/ heap.node[a].ch # heap.node[b].ch
            \/ heap.node[a].min # heap.node[b].min \/ heap.node[a].max # heap.node[b].max
  /\ heap.uniq \subseteq Live(heap)
  /\ \A n \in Names : heap.name2ap[n] \in Live(heap) \cup {NULL}
  /\ \A a \in Live(heap) : Irreducible(heap.node[a])

(* What the constructors make of constants is the same in every state.     *)
Telling(v) == ToSet(v) \cap Addr # {} \/ heap = EmptyHeap

(* r is the node for o, v and the range, unsimplified.                     *)
Plain(r, o, v, min, max) ==
  /\ is(r.h, r.f, o)
  /\ r.h.node[r.f].ch = v /\ r.h.node[r.f].min = min /\ r.h.node[r.f].max = max

(* r is what an operator o should return for the operands v: their node,   *)
(* or a formula that means the same.                                       *)
SameLtl(o, v, r, held_at) ==
  Plain(r, o, v, 0, 0) \/ \A w \in Lasso :
    Holds(r.h, r.f, w) = LtlOp(w, o, [i \in DOMAIN v |-> held_at[v[i], w]])

(* The trivial identities of unop(), binop() and multop() keep the meaning *)
(* of LTL formulas, whatever the operands were simplified to before.       *)
LtlIsKept ==
  LET Args == {f \in Held : is_ltl(f)}
      Pairs == {v \in Args \X Args : Telling(v)}
      at == [f \in Args, w \in Lasso |-> Holds(heap, f, w)]
  IN /\ \A o \in {"Not", "X", "strong_X", "F", "G"}, f \in {x \in Args : Telling(<<x>>)} :
          SameLtl(o, <<f>>, unop(clone(heap, f), o, f), at)
     /\ \A o \in {"Xor", "Equiv", "Implies", "U", "W", "R", "M"}, v \in Pairs :
          SameLtl(o, v, binop(clone_all(heap, v), o, v[1], v[2]), at)
     /\ \A o \in {"And", "Or"}, v \in Pairs :
          SameLtl(o, v, multop(clone_all(heap, v), o, v), at)

(* f[*min..max] matches what it should.                                    *)
StarKept(f, min, max) ==
  LET r == bunop(clone(heap, f), f, min, max)
  IN \/ Plain(r, "Star", <<f>>, min, max)
     \/ Language(r.h, r.f) = StarOf(Language(heap, f), min, max)

(* v[1];v[2] matches what it should.                                       *)
ConcatKept(v) ==
  LET r == multop(clone_all(heap, v), "Concat", v)
  IN \/ Plain(r, "Concat", v, 0, 0)
     \/ Language(r.h, r.f) = CatOf(heap, v)

(* The stars of SEREs that the clients may write.                          *)
Starred ==
  {<<f, min, max>> \in Held \X (0 .. 2) \X (0 .. 2 \cup {unbounded}) :
     is_sere(f) /\ min <= max /\ Telling(<<f>>)}

(* f is Exp[*i..] with i >= 2, of which [*0..max] has to leave a gap.      *)
Gap(f, min) == is(heap, f, "Star") /\ heap.node[f].min >= 2 /\ heap.node[f].max = unbounded /\ min = 0

(* "f[*i..j];f[*k..l] -> f[*i+k..j+l]", the absorption of 1[*] and the     *)
(* nested stars: the identities of multop() and bunop() keep the words     *)
(* that a SERE matches, but for Exp[*i..][*0..max].                        *)
SereIsKept ==
  /\ \A s \in Starred : Gap(s[1], s[2]) \/ StarKept(s[1], s[2], s[3])
  /\ LET Args == {f \in Held : is_sere(f)}
     IN \A v \in {u \in Args \X Args : Telling(u)} : ConcatKept(v)

(* "We can merge these intervals into [i*min..j*max] iff the first are     *)
(* adjacent or overlap": a star of a star matches what it should, also     *)
(* when the inner one is not bounded.                                      *)
NestedStarIsKept == \A s \in Starred : StarKept(s[1], s[2], s[3])
=============================================================================
