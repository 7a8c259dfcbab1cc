------------------------------ MODULE MCFnode ------------------------------
(* Instances of Fnode.                                                     *)
EXTENDS Fnode

CONSTANTS p1, p2

(* Nothing tells the names apart.                                          *)
MCSymmetry == Permutations(Names)

(* The word w with its names exchanged.                                    *)
Renamed(w, p) == [w EXCEPT !.letters = [i \in DOMAIN @ |-> {p[n] : n \in @[i]}]]

(* Words in which every letter is followed by other ones, and in which one *)
(* name holds from some position on; what permutes the names permutes them.*)
MCLasso ==
  {Renamed(w, p) : p \in MCSymmetry,
     w \in {[letters |-> <<{}, {p1}, {p1, p2}, {p2}>>, loop |-> 1],
            [letters |-> <<{p1, p2}, {}, {p2}, {p1}>>, loop |-> 4],
            [letters |-> <<{p2}, {}, {p1}, {p1, p2}>>, loop |-> 3]}}

(* Bounded ranges with one length and with several, and open ones.         *)
MCRanges == {<<0, 1>>, <<1, 2>>, <<2, 2>>, <<0, unbounded>>}

MCOpenRanges == {<<2, unbounded>>}
=============================================================================
