---------------------------- MODULE FnodeMeaning ----------------------------
(***************************************************************************)
(* What the formulas of FnodeHeap mean, after doc/tl/tl.tex: the reference *)
(* against which the trivial identities of the constructors are judged.    *)
(***************************************************************************)
EXTENDS FnodeHeap

CONSTANTS
  Lasso,    \* infinite words: letters, and where to go after the last one
  Length    \* bound on the length of the finite words

-----------------------------------------------------------------------------
(* LTL on a lasso: the positions where a formula holds.                    *)
Pos(w) == 1 .. Len(w.letters)

(* The position k letters after i.                                         *)
After(w, i, k) ==
  LET n == Len(w.letters)
  IN IF i + k <= n THEN i + k ELSE w.loop + ((i + k - n - 1) % (n - w.loop + 1))

Far(w) == 0 .. Len(w.letters)

Until(w, F, G) ==
  {i \in Pos(w) : \E k \in Far(w) : /\ After(w, i, k) \in G
                                    /\ \A j \in 0 .. k - 1 : After(w, i, j) \in F}

Always(w, F) == {i \in Pos(w) : \A k \in Far(w) : After(w, i, k) \in F}

(* The operator o on operands that hold at the positions S[1], S[2]...     *)
LtlOp(w, o, S) ==
  LET All == Pos(w)
  IN CASE o = "Not" -> All \ S[1]
       [] o \in {"X", "strong_X"} -> {i \in All : After(w, i, 1) \in S[1]}
       [] o = "F" -> Until(w, All, S[1])
       [] o = "G" -> Always(w, S[1])
       [] o = "Xor" -> (S[1] \ S[2]) \cup (S[2] \ S[1])
       [] o = "Equiv" -> (S[1] \cap S[2]) \cup (All \ (S[1] \cup S[2]))
       [] o = "Implies" -> (All \ S[1]) \cup S[2]
       [] o = "U" -> Until(w, S[1], S[2])
       [] o = "W" -> Until(w, S[1], S[2]) \cup Always(w, S[1])
       [] o = "M" -> Until(w, S[2], S[1] \cap S[2])
       [] o = "R" -> Until(w, S[2], S[1] \cap S[2]) \cup Always(w, S[2])
       [] o = "And" -> {i \in All : \A k \in DOMAIN S : i \in S[k]}
       [] o = "Or" -> {i \in All : \E k \in DOMAIN S : i \in S[k]}

RECURSIVE Holds(_, _, _)
Holds(h, f, w) ==
  CASE f = ff -> {}
    [] f = tt -> Pos(w)
    [] is(h, f, "ap") -> {i \in Pos(w) : \E n \in w.letters[i] : h.name2ap[n] = f}
    [] OTHER -> LET n == h.node[f]
                IN LtlOp(w, n.op, [k \in DOMAIN n.ch |-> Holds(h, n.ch[k], w)])

-----------------------------------------------------------------------------
(* SERE on finite words of at most Length letters, one name per letter.    *)
Words == UNION {[1 .. n -> Names] : n \in 0 .. Length}

Cat(A, B) == {u \o v : u \in A, v \in B} \cap Words

(* A concatenated n times with itself.                                     *)
RECURSIVE Power(_, _)
Power(A, n) == IF n = 0 THEN {<< >>} ELSE Cat(A, Power(A, n - 1))

(* More than Length factors that are not empty make no word of Words.      *)
StarOf(A, min, max) ==
  LET Cap(n) == IF n > Length THEN Length + 1 ELSE n
  IN UNION {Power(A, n) : n \in Cap(min) .. (IF max = unbounded THEN Length + 1 ELSE Cap(max))}

RECURSIVE Language(_, _), CatOf(_, _)
Language(h, f) ==
  CASE f = ff -> {}
    [] f = tt -> {<<n>> : n \in Names}
    [] f = eword -> {<< >>}
    [] is(h, f, "ap") -> {<<n>> : n \in {x \in Names : h.name2ap[x] = f}}
    [] is(h, f, "Star") -> StarOf(Language(h, h.node[f].ch[1]), h.node[f].min, h.node[f].max)
    [] is(h, f, "Concat") -> CatOf(h, h.node[f].ch)

CatOf(h, v) == IF v = << >> THEN {<< >>} ELSE Cat(Language(h, Head(v)), CatOf(h, Tail(v)))
=============================================================================
