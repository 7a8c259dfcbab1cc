--------------------------- MODULE BddDictProofs ---------------------------
(***************************************************************************)
(* The invariants of bdd_dict, for any number of owners, formulas and      *)
(* variables, and whatever other users of BuDDy do to its variable count.  *)
(***************************************************************************)
EXTENDS BddDict, WellFoundedInduction, TLAPS

-----------------------------------------------------------------------------
(* What BestFit returns, for every set of naturals.                        *)

(* A non-empty set of naturals has a least element.                        *)
LEMMA NatMin ==
  ASSUME NEW T \in SUBSET Nat, T # {}
  PROVE  \E x \in T : \A y \in T : x <= y
<1> DEFINE R == {ss \in Nat \X Nat : ss[1] < ss[2]}
<1>1. IsWellFoundedOn(R, Nat)
  BY NatLessThanWellFounded, Zenon DEF OpToRel
<1>2. PICK x \in T : \A y \in T : ~(<<y, x>> \in R)
  BY <1>1, WFMin, Zenon
<1>3. \A y \in Nat : y < x => <<y, x>> \in R
  BY x \in Nat
<1> HIDE DEF R
<1>4. \A y \in T : ~(y < x)
  BY <1>2, <1>3, Zenon
<1>5. QED
  BY <1>4

(* A run is made of naturals and has a positive length.                    *)
LEMMA RunFacts ==
  ASSUME NEW S \in SUBSET Nat, NEW n \in Nat \ {0}, NEW r \in LongRuns(S, n)
  PROVE  /\ r[1] \in S /\ r[1] \in Nat /\ r[2] \in Nat
         /\ Length(r) \in Nat /\ Length(r) >= n
         /\ Block(r[1], n) \subseteq S
<1>1. /\ r \in S \X S /\ r[1] .. r[2] \subseteq S /\ r[1] <= r[2]
      /\ r[2] - r[1] + 1 >= n
  BY DEF LongRuns, Runs, Length
<1>2. r[1] \in S /\ r[2] \in S
  BY <1>1
<1>3. r[1] \in Nat /\ r[2] \in Nat
  BY <1>2
<1>4. Block(r[1], n) \subseteq r[1] .. r[2]
  BY <1>1, <1>3 DEF Block
<1>5. Length(r) \in Nat /\ Length(r) >= n
  BY <1>1, <1>3 DEF Length
<1>6. QED
  BY <1>1, <1>2, <1>3, <1>4, <1>5

(* Among the runs that are long enough, there is a best one.               *)
LEMMA BestExists ==
  ASSUME NEW S \in SUBSET Nat, NEW n \in Nat \ {0}, Fits(S, n)
  PROVE  \E r \in LongRuns(S, n) : \A q \in LongRuns(S, n) : Better(r, q)
<1> DEFINE L    == LongRuns(S, n)
           lens == {Length(r) : r \in L}
<1>1. L # {} /\ \A r \in L : Length(r) \in Nat /\ r[1] \in Nat
  BY RunFacts DEF Fits
<1> HIDE DEF L
<1>2. PICK m \in lens : \A k \in lens : m <= k
  <2>1. lens \in SUBSET Nat /\ lens # {}
    BY <1>1
  <2>2. QED
    BY <2>1, NatMin
<1> DEFINE short  == {r \in L : Length(r) = m}
           starts == {r[1] : r \in short}
<1>3. PICK b \in starts : \A c \in starts : b <= c
  <2>1. starts \in SUBSET Nat /\ starts # {}
    BY <1>1, <1>2
  <2>2. QED
    BY <2>1, NatMin
<1>4. PICK r \in short : r[1] = b
  BY <1>3
<1>5. ASSUME NEW q \in L PROVE Better(r, q)
  <2>1. CASE q \in short
    <3>1. q[1] \in starts
      BY <2>1
    <3>2. b <= q[1]
      BY <3>1, <1>3
    <3>3. Length(r) = Length(q) /\ r[1] <= q[1]
      BY <2>1, <3>2, <1>4
    <3>4. QED
      BY <3>3 DEF Better
  <2>2. CASE q \notin short
    <3>1. Length(q) \in lens /\ Length(q) # m /\ Length(r) = m
      BY <2>2, <1>4
    <3>2. m <= Length(q) /\ m \in Nat /\ Length(q) \in Nat
      BY <3>1, <1>1, <1>2
    <3>3. Length(r) < Length(q)
      BY <3>1, <3>2
    <3>4. QED
      BY <3>3 DEF Better
  <2>3. QED
    BY <2>1, <2>2
<1>6. QED
  BY <1>4, <1>5 DEF L

(* register_n() returns n consecutive integers of the list when it has     *)
(* them.                                                                   *)
THEOREM BestFitFacts ==
  ASSUME NEW S \in SUBSET Nat, NEW n \in Nat \ {0}, Fits(S, n)
  PROVE  BestFit(S, n) \in Nat /\ Block(BestFit(S, n), n) \subseteq S
<1> DEFINE r == CHOOSE r \in LongRuns(S, n) : \A q \in LongRuns(S, n) : Better(r, q)
<1>1. r \in LongRuns(S, n)
  BY BestExists, Zenon
<1> HIDE DEF r
<1>2. r[1] \in Nat /\ Block(r[1], n) \subseteq S
  BY <1>1, RunFacts
<1>3. QED
  BY <1>2 DEF r, BestFit

-----------------------------------------------------------------------------
(* The dictionary                                                          *)
Inv == TypeOK /\ FreeIsUnused /\ AnonListsAreLive /\ NoNullPriv /\ MapsAgree

USE BddDictAssumption

(* Where extend() finds the free variables at the end of the space.        *)
LEMMA TailFacts ==
  ASSUME TypeOK
  PROVE  /\ TailStart \in 0..lvarnum
         /\ (TailStart .. (lvarnum - 1)) \subseteq fl
         /\ TailStart - 1 \notin fl
<1> DEFINE T == {b \in 0..lvarnum : (b .. (lvarnum - 1)) \subseteq fl}
<1>1. lvarnum \in Nat /\ fl \subseteq Nat /\ T \in SUBSET Nat
  BY DEF TypeOK, Block
<1>2. lvarnum \in T
  BY <1>1
<1>3. PICK x \in T : \A y \in T : x <= y
  BY <1>1, <1>2, NatMin
<1>4. x - 1 \notin fl
  <2> SUFFICES ASSUME x - 1 \in fl PROVE FALSE
    OBVIOUS
  <2>1. x - 1 \in 0..lvarnum /\ ((x - 1) .. (lvarnum - 1)) \subseteq fl
    BY <1>1, <1>3
  <2>2. QED
    BY <2>1, <1>1, <1>3
<1>5. \E b \in 0..lvarnum : (b .. (lvarnum - 1)) \subseteq fl /\ b - 1 \notin fl
  BY <1>3, <1>4
<1>6. QED
  BY <1>5, Zenon DEF TailStart

(* What allocate_variables(n) hands out: n variables of the dictionary     *)
(* that were free or not counted yet, and are not free any more.           *)
LEMMA AllocFacts ==
  ASSUME TypeOK, NEW n \in Nat \ {0}, allocate_variables(n).varnum <= MaxVar
  PROVE  LET a == allocate_variables(n)
         IN  /\ a.base \in Nat
             /\ a.varnum \in 0..MaxVar /\ varnum <= a.varnum
             /\ a.lvarnum \in 0..a.varnum /\ lvarnum <= a.lvarnum
             /\ Block(a.base, n) \subseteq Block(0, a.lvarnum)
             /\ a.fl \subseteq fl /\ a.fl \cap Block(a.base, n) = {}
             /\ \A v \in Block(a.base, n) : v \in fl \/ v >= lvarnum
<1>1. /\ lvarnum \in Nat /\ varnum \in Nat /\ MaxVar \in Nat
      /\ lvarnum <= varnum /\ varnum <= MaxVar
      /\ fl \subseteq Block(0, lvarnum) /\ fl \in SUBSET Nat
  BY DEF TypeOK, Block
<1>2. CASE Fits(fl, n)
  <2> DEFINE b == BestFit(fl, n)
  <2>1. b \in Nat /\ Block(b, n) \subseteq fl
    BY <1>1, <1>2, BestFitFacts
  <2> HIDE DEF b
  <2>2. allocate_variables(n) = [base |-> b, fl |-> fl \ Block(b, n),
                                 varnum |-> varnum, lvarnum |-> lvarnum]
    BY <1>2 DEF allocate_variables, b
  <2>3. Block(b, n) \subseteq Block(0, lvarnum) /\ (fl \ Block(b, n)) \cap Block(b, n) = {}
    BY <2>1, <1>1
  <2>4. QED
    BY <2>1, <2>2, <2>3, <1>1
<1>3. CASE ~Fits(fl, n)
  <2> DEFINE b == TailStart
             m == extvarnum(n - (lvarnum - b))
  <2>1. b \in 0..lvarnum /\ (b .. (lvarnum - 1)) \subseteq fl
    BY TailFacts
  <2>2. allocate_variables(n) = [base |-> b, fl |-> fl \ (b .. (lvarnum - 1)),
                                 varnum |-> m, lvarnum |-> m]
    BY <1>3 DEF allocate_variables
  <2> HIDE DEF b
  <2>3. m \in Nat /\ varnum <= m /\ b + n <= m
    BY <1>1, <2>1 DEF extvarnum
  <2> HIDE DEF m
  <2>4. Block(b, n) \subseteq Block(0, m)
    BY <2>1, <2>3 DEF Block
  <2>5. (fl \ (b .. (lvarnum - 1))) \cap Block(b, n) = {}
    BY <1>1, <2>1 DEF Block
  <2>6. \A v \in Block(b, n) : v \in fl \/ v >= lvarnum
    BY <1>1, <2>1 DEF Block
  <2>7. m <= MaxVar
    BY <2>2
  <2>8. QED
    BY <1>1, <2>1, <2>2, <2>3, <2>4, <2>5, <2>6, <2>7
<1>4. QED
  BY <1>2, <1>3

(* What is handed out had no use, no owner and no place on a list.         *)
LEMMA AllocUnused ==
  ASSUME Inv, NEW n \in Nat \ {0}, allocate_variables(n).varnum <= MaxVar
  PROVE  \A v \in Block(allocate_variables(n).base, n) :
           /\ v \in Var /\ v \notin Used /\ type[v] = "anon" /\ refs[v] = {}
           /\ \A k \in Key : v \notin anon_fl[k]
<1> DEFINE a == allocate_variables(n)
<1>1. /\ a.lvarnum \in Nat /\ a.lvarnum <= MaxVar
      /\ Block(a.base, n) \subseteq Block(0, a.lvarnum)
      /\ \A v \in Block(a.base, n) : v \in fl \/ v >= lvarnum
  BY AllocFacts DEF Inv
<1> HIDE DEF a
<1>2. \A v \in Block(a.base, n) : v \in Var
  BY <1>1 DEF Block, Var
<1>3. \A v \in Block(a.base, n) : v \notin Used
  BY <1>1, <1>2 DEF Inv, TypeOK, FreeIsUnused, Block
<1>4. \A v \in Block(a.base, n) : type[v] = "anon" /\ refs[v] = {}
  BY <1>2, <1>3 DEF Inv, MapsAgree, Used
<1>5. \A v \in Block(a.base, n) : \A k \in Key : v \notin anon_fl[k]
  BY <1>3 DEF Inv, AnonListsAreLive
<1>6. QED
  BY <1>2, <1>3, <1>4, <1>5 DEF a

(* allocate_variables(1) returns a variable within the bound.              *)
LEMMA AllocOne ==
  ASSUME Inv, allocate_variables(1).varnum <= MaxVar
  PROVE  allocate_variables(1).base \in Var
<1>1. allocate_variables(1).base \in Nat
  BY AllocFacts DEF Inv
<1>2. allocate_variables(1).base \in Block(allocate_variables(1).base, 1)
  BY <1>1 DEF Block
<1>3. QED
  BY <1>2, AllocUnused

(* The invariant holds for a new dictionary.                               *)
LEMMA InitInv == Init => Inv
<1> SUFFICES ASSUME Init PROVE Inv
  OBVIOUS
<1> USE DEF Init
<1>1. varnum \in 0..MaxVar /\ nullptr \in Key /\ Var \subseteq Nat
  BY DEF Key, Var
<1>2. TypeOK
  BY <1>1 DEF TypeOK, Block, Key
<1>3. Used = {}
  BY DEF Used
<1>4. FreeIsUnused
  BY <1>1, <1>3 DEF FreeIsUnused, Block, Var
<1>5. AnonListsAreLive /\ NoNullPriv
  BY <1>1, <1>3 DEF AnonListsAreLive, NoNullPriv
<1>6. MapsAgree
  BY <1>1 DEF MapsAgree
<1>7. QED
  BY <1>2, <1>4, <1>5, <1>6 DEF Inv

-----------------------------------------------------------------------------
(* A step that only adds an owner to variables in use.                     *)
LEMMA ReferenceUsed ==
  ASSUME Inv, NEW me \in Owner, NEW V \in SUBSET Used, Reference(V, me),
         UNCHANGED <<varnum, lvarnum, fl, size, type, form, var_map, acc_map>>
  PROVE  /\ refs' \in [Var -> SUBSET Owner]
         /\ Used' = Used /\ MapsAgree'
<1>1. refs' \in [Var -> SUBSET Owner]
  BY DEF Reference, Inv, TypeOK
<1>2. \A v \in Var : refs'[v] = IF v \in V THEN refs[v] \cup {me} ELSE refs[v]
  BY DEF Reference
<1>3. Used' = Used
  BY <1>2 DEF Used
<1>4. MapsAgree'
  BY <1>3 DEF MapsAgree, Inv
<1>5. QED
  BY <1>1, <1>3, <1>4

(* Registering a formula that is already known.                            *)
LEMMA OldFormulaInv ==
  ASSUME Inv, NEW me \in Owner, NEW v \in Var, type[v] # "anon", Reference({v}, me),
         UNCHANGED <<varnum, lvarnum, fl, size, type, form, var_map, acc_map,
                     lists, anon_fl, priv>>
  PROVE  Inv'
<1>1. {v} \in SUBSET Used
  BY DEF Inv, MapsAgree
<1>2. refs' \in [Var -> SUBSET Owner] /\ Used' = Used /\ MapsAgree'
  BY <1>1, ReferenceUsed
<1>3. TypeOK'
  BY <1>2 DEF Inv, TypeOK
<1>4. FreeIsUnused' /\ AnonListsAreLive'
  BY <1>2 DEF Inv, FreeIsUnused, AnonListsAreLive
<1>5. NoNullPriv'
  <2>1. \A w \in Var : type[w] = "anon" => refs'[w] = refs[w]
    BY DEF Reference
  <2>2. QED
    BY <1>2, <2>1 DEF Inv, NoNullPriv, Used
<1>6. QED
  BY <1>2, <1>3, <1>4, <1>5 DEF Inv

(* Registering a formula for which a variable is allocated.                *)
LEMMA NewFormulaFacts ==
  ASSUME Inv, NEW me \in Owner, NEW t \in {"var", "acc"}, NEW f \in Formula,
         NewFormulaVariable(t, f, me), UNCHANGED <<lists, anon_fl, priv>>,
         var_map' \in [Formula -> Var \cup {-1}],
         acc_map' \in [Formula -> Var \cup {-1}],
         NEW b, b = allocate_variables(1).base
  PROVE  /\ TypeOK' /\ FreeIsUnused' /\ AnonListsAreLive' /\ NoNullPriv'
         /\ b \in Var /\ b \notin Used /\ type[b] = "anon"
         /\ Used' = Used \cup {b}
         /\ \A v \in Var : /\ type'[v] = IF v = b THEN t ELSE type[v]
                           /\ form'[v] = IF v = b THEN f ELSE form[v]
<1> DEFINE a == allocate_variables(1)
<1>1. a.varnum <= MaxVar /\ varnum' = a.varnum /\ fl' = a.fl /\ lvarnum' = a.lvarnum
  BY DEF NewFormulaVariable, Allocated
<1>2. /\ b \in Nat /\ a.varnum \in 0..MaxVar /\ varnum <= a.varnum
      /\ a.lvarnum \in 0..a.varnum /\ lvarnum <= a.lvarnum
      /\ Block(b, 1) \subseteq Block(0, a.lvarnum)
      /\ a.fl \subseteq fl /\ a.fl \cap Block(b, 1) = {}
  BY <1>1, AllocFacts DEF Inv
<1>3. Block(b, 1) = {b}
  BY <1>2 DEF Block
<1>4. /\ b \in Var /\ b \notin Used /\ type[b] = "anon" /\ refs[b] = {}
      /\ \A k \in Key : b \notin anon_fl[k]
  BY <1>1, <1>3, AllocUnused
<1>5. /\ type' = [type EXCEPT ![b] = t] /\ form' = [form EXCEPT ![b] = f]
      /\ Reference({b}, me) /\ size' = varnum'
  BY DEF NewFormulaVariable
<1> HIDE DEF a
<1>6. \A v \in Var : /\ type'[v] = IF v = b THEN t ELSE type[v]
                     /\ form'[v] = IF v = b THEN f ELSE form[v]
                     /\ refs'[v] = IF v = b THEN refs[v] \cup {me} ELSE refs[v]
  BY <1>5 DEF Inv, TypeOK, Reference
<1>7. Used' = Used \cup {b}
  BY ZenonT(30), <1>4, <1>6 DEF Used
<1>8. fl' \subseteq fl /\ b \notin fl' /\ b < lvarnum' /\ lvarnum' \in 0..varnum'
  BY <1>1, <1>2, <1>3 DEF Block
<1>9. TypeOK'
  <2>1. type' \in [Var -> {"anon", "var", "acc"}] /\ form' \in [Var -> Formula \cup {nil}]
    BY <1>4, <1>5 DEF Inv, TypeOK
  <2>2. refs' \in [Var -> SUBSET Owner]
    BY <1>5 DEF Inv, TypeOK, Reference
  <2>3. fl' \subseteq Block(0, lvarnum')
    <3>1. Block(0, lvarnum) \subseteq Block(0, lvarnum')
      BY <1>1, <1>2 DEF Inv, TypeOK, Block
    <3>2. QED
      BY <3>1, <1>8 DEF Inv, TypeOK
  <2>4. QED
    BY <1>1, <1>2, <1>5, <1>8, <2>1, <2>2, <2>3 DEF Inv, TypeOK
<1>10. FreeIsUnused'
  <2>1. Used' \subseteq Block(0, lvarnum')
    <3>1. b \in Block(0, lvarnum')
      BY <1>1, <1>2, <1>3
    <3>2. Block(0, lvarnum) \subseteq Block(0, lvarnum')
      BY <1>1, <1>2 DEF Inv, TypeOK, Block
    <3>3. QED
      BY <3>1, <3>2, <1>7 DEF Inv, FreeIsUnused
  <2>2. Used' \subseteq Block(0, size')
    BY <1>1, <1>2, <1>5, <2>1 DEF Block
  <2>3. \A v \in fl' : v \in fl /\ v # b /\ v \in Var
    BY <1>8 DEF Inv, TypeOK, Block, Var
  <2>4. QED
    BY <1>6, <1>7, <2>1, <2>2, <2>3 DEF Inv, FreeIsUnused
<1>11. AnonListsAreLive'
  <2>1. {v \in Used' : type'[v] = "anon"} = {v \in Used : type[v] = "anon"}
    BY ZenonT(30), <1>4, <1>6, <1>7 DEF Used
  <2>2. QED
    BY <2>1 DEF Inv, AnonListsAreLive
<1>12. NoNullPriv'
  BY <1>6, <1>7 DEF Inv, NoNullPriv, Used
<1>13. QED
  BY <1>4, <1>6, <1>7, <1>9, <1>10, <1>11, <1>12

(* register_proposition() keeps the invariant.                             *)
LEMMA PropositionInv ==
  ASSUME Inv, NEW f \in Formula, NEW me \in Owner, register_proposition(f, me)
  PROVE  Inv'
<1>1. CASE var_map[f] # -1
  <2>1. var_map[f] \in Var /\ type[var_map[f]] = "var"
    BY <1>1 DEF Inv, TypeOK, MapsAgree
  <2>2. QED
    BY <1>1, <2>1, OldFormulaInv DEF register_proposition, NotAllocated
<1>2. CASE var_map[f] = -1
  <2> DEFINE b == allocate_variables(1).base
  <2>1. /\ NewFormulaVariable("var", f, me) /\ UNCHANGED <<acc_map, lists, anon_fl, priv>>
        /\ var_map' = [var_map EXCEPT ![f] = b]
    BY <1>2 DEF register_proposition
  <2>2. b \in Var
    <3>1. allocate_variables(1).varnum <= MaxVar
      BY <2>1 DEF NewFormulaVariable, Allocated
    <3>2. QED
      BY <3>1, AllocOne
  <2> HIDE DEF b
  <2>3. var_map' \in [Formula -> Var \cup {-1}] /\ acc_map' \in [Formula -> Var \cup {-1}]
    BY <2>1, <2>2 DEF Inv, TypeOK
  <2>4. /\ TypeOK' /\ FreeIsUnused' /\ AnonListsAreLive' /\ NoNullPriv'
        /\ b \notin Used /\ type[b] = "anon" /\ Used' = Used \cup {b}
        /\ \A v \in Var : /\ type'[v] = IF v = b THEN "var" ELSE type[v]
                          /\ form'[v] = IF v = b THEN f ELSE form[v]
    BY <2>1, <2>3, NewFormulaFacts DEF b
  <2>5. \A g \in Formula : var_map'[g] = (IF g = f THEN b ELSE var_map[g]) /\ acc_map'[g] = acc_map[g]
    BY <2>1 DEF Inv, TypeOK
  <2>6. \A v \in Var : type'[v] # "anon" => v \in Used' /\ form'[v] \in Formula
    BY <2>4 DEF Inv, MapsAgree
  <2>7. ASSUME NEW g \in Formula, NEW v \in Var
        PROVE  /\ var_map'[g] = v <=> type'[v] = "var" /\ form'[v] = g
               /\ acc_map'[g] = v <=> type'[v] = "acc" /\ form'[v] = g
    <3>1. /\ var_map[g] = v <=> type[v] = "var" /\ form[v] = g
          /\ acc_map[g] = v <=> type[v] = "acc" /\ form[v] = g
          /\ var_map[f] = v <=> type[v] = "var" /\ form[v] = f
          /\ acc_map[f] = v <=> type[v] = "acc" /\ form[v] = f
      BY DEF Inv, MapsAgree
    <3>2. CASE v = b
      BY <3>1, <3>2, <2>2, <2>4, <2>5
    <3>3. CASE v # b
      BY <1>2, <3>1, <3>3, <2>4, <2>5, -1 \notin Var DEF Var
    <3>4. QED
      BY <3>2, <3>3
  <2>8. MapsAgree'
    BY <2>6, <2>7 DEF MapsAgree
  <2>9. QED
    BY <2>4, <2>8 DEF Inv
<1>3. QED
  BY <1>1, <1>2

(* register_acceptance_variable() keeps the invariant.                     *)
LEMMA AcceptanceInv ==
  ASSUME Inv, NEW f \in Formula, NEW me \in Owner, register_acceptance_variable(f, me)
  PROVE  Inv'
<1>1. CASE acc_map[f] # -1
  <2>1. acc_map[f] \in Var /\ type[acc_map[f]] = "acc"
    BY <1>1 DEF Inv, TypeOK, MapsAgree
  <2>2. QED
    BY <1>1, <2>1, OldFormulaInv DEF register_acceptance_variable, NotAllocated
<1>2. CASE acc_map[f] = -1
  <2> DEFINE b == allocate_variables(1).base
  <2>1. /\ NewFormulaVariable("acc", f, me) /\ UNCHANGED <<var_map, lists, anon_fl, priv>>
        /\ acc_map' = [acc_map EXCEPT ![f] = b]
    BY <1>2 DEF register_acceptance_variable
  <2>2. b \in Var
    <3>1. allocate_variables(1).varnum <= MaxVar
      BY <2>1 DEF NewFormulaVariable, Allocated
    <3>2. QED
      BY <3>1, AllocOne
  <2> HIDE DEF b
  <2>3. var_map' \in [Formula -> Var \cup {-1}] /\ acc_map' \in [Formula -> Var \cup {-1}]
    BY <2>1, <2>2 DEF Inv, TypeOK
  <2>4. /\ TypeOK' /\ FreeIsUnused' /\ AnonListsAreLive' /\ NoNullPriv'
        /\ b \notin Used /\ type[b] = "anon" /\ Used' = Used \cup {b}
        /\ \A v \in Var : /\ type'[v] = IF v = b THEN "acc" ELSE type[v]
                          /\ form'[v] = IF v = b THEN f ELSE form[v]
    BY <2>1, <2>3, NewFormulaFacts DEF b
  <2>5. \A g \in Formula : acc_map'[g] = (IF g = f THEN b ELSE acc_map[g]) /\ var_map'[g] = var_map[g]
    BY <2>1 DEF Inv, TypeOK
  <2>6. \A v \in Var : type'[v] # "anon" => v \in Used' /\ form'[v] \in Formula
    BY <2>4 DEF Inv, MapsAgree
  <2>7. ASSUME NEW g \in Formula, NEW v \in Var
        PROVE  /\ var_map'[g] = v <=> type'[v] = "var" /\ form'[v] = g
               /\ acc_map'[g] = v <=> type'[v] = "acc" /\ form'[v] = g
    <3>1. /\ var_map[g] = v <=> type[v] = "var" /\ form[v] = g
          /\ acc_map[g] = v <=> type[v] = "acc" /\ form[v] = g
          /\ var_map[f] = v <=> type[v] = "var" /\ form[v] = f
          /\ acc_map[f] = v <=> type[v] = "acc" /\ form[v] = f
      BY DEF Inv, MapsAgree
    <3>2. CASE v = b
      BY <3>1, <3>2, <2>2, <2>4, <2>5
    <3>3. CASE v # b
      BY <1>2, <3>1, <3>3, <2>4, <2>5, -1 \notin Var DEF Var
    <3>4. QED
      BY <3>2, <3>3
  <2>8. MapsAgree'
    BY <2>6, <2>7 DEF MapsAgree
  <2>9. QED
    BY <2>4, <2>8 DEF Inv
<1>3. QED
  BY <1>1, <1>2

-----------------------------------------------------------------------------
(* The list register_anonymous_variables() looks at, and what it returns   *)
(* when that list has n consecutive variables.                             *)
LEMMA AnonFitFacts ==
  ASSUME Inv, NEW n \in Nat \ {0}, NEW me \in Owner, Fits(AnonList(me), n)
  PROVE  /\ Block(anon_base(n, me), n) \subseteq AnonList(me)
         /\ AnonList(me) \subseteq anon_fl[nullptr]
         /\ \A v \in AnonList(me) : v \in Var /\ v \in Used /\ type[v] = "anon"
<1>1. AnonList(me) \subseteq anon_fl[nullptr]
  BY DEF Inv, AnonListsAreLive, AnonList, Key
<1>2. \A v \in AnonList(me) : v \in Var /\ v \in Used /\ type[v] = "anon"
  BY <1>1 DEF Inv, AnonListsAreLive, Used
<1>3. AnonList(me) \in SUBSET Nat
  BY <1>2 DEF Var
<1>4. Block(anon_base(n, me), n) \subseteq AnonList(me)
  BY <1>3, BestFitFacts DEF anon_base
<1>5. QED
  BY <1>1, <1>2, <1>4

(* register_anonymous_variables() keeps the invariant when the list of me  *)
(* has n variables.                                                        *)
LEMMA AnonymousFitInv ==
  ASSUME Inv, NEW n \in 1..MaxN, NEW me \in Owner, Fits(AnonList(me), n),
         register_anonymous_variables(n, me)
  PROVE  Inv'
<1> DEFINE new == Block(anon_base(n, me), n)
           L   == AnonList(me)
<1>1. n \in Nat \ {0} /\ me \in Key /\ me # nullptr /\ nullptr \in Key
  BY DEF Key
<1>2. /\ new \subseteq L /\ L \subseteq anon_fl[nullptr]
      /\ \A v \in L : v \in Var /\ v \in Used /\ type[v] = "anon"
  BY <1>1, AnonFitFacts
<1>3. /\ anon_fl' = [anon_fl EXCEPT ![me] = L \ new]
      /\ UNCHANGED <<fl, varnum, lvarnum, form, var_map, acc_map>>
      /\ lists' = lists \cup {me}
      /\ priv' = IF me \in lists THEN priv ELSE priv \cup {me}
      /\ size' = varnum' /\ Reference(new, me)
      /\ type' = [v \in Var |-> IF v \in new THEN "anon" ELSE type[v]]
  BY DEF register_anonymous_variables, NotAllocated
<1> HIDE DEF new, L
<1>4. type' = type
  BY <1>2, <1>3 DEF Inv, TypeOK
<1>5. \A v \in Var : refs'[v] = IF v \in new THEN refs[v] \cup {me} ELSE refs[v]
  BY <1>3 DEF Reference
<1>6. Used' = Used
  BY <1>2, <1>5 DEF Used
<1>7. /\ anon_fl' \in [Key -> SUBSET Var] /\ anon_fl'[nullptr] = anon_fl[nullptr]
      /\ \A k \in Key : anon_fl'[k] = IF k = me THEN L \ new ELSE anon_fl[k]
  BY <1>1, <1>2, <1>3 DEF Inv, TypeOK
<1>8. TypeOK'
  <2>1. refs' \in [Var -> SUBSET Owner]
    BY <1>3 DEF Reference, Inv, TypeOK
  <2>2. QED
    BY <1>1, <1>3, <1>4, <1>7, <2>1 DEF Inv, TypeOK
<1>9. FreeIsUnused'
  <2>1. Used \subseteq Block(0, lvarnum) /\ Block(0, lvarnum) \subseteq Block(0, size')
    BY <1>3 DEF Inv, FreeIsUnused, TypeOK, Block
  <2>2. \A k \in Key : anon_fl'[k] \subseteq anon_fl[nullptr]
    BY <1>1, <1>2, <1>7 DEF Inv, AnonListsAreLive
  <2>3. QED
    BY <1>1, <1>3, <1>4, <1>6, <2>1, <2>2 DEF Inv, FreeIsUnused
<1>10. AnonListsAreLive'
  BY <1>1, <1>2, <1>4, <1>6, <1>7 DEF Inv, AnonListsAreLive
<1>11. NoNullPriv'
  BY <1>3, <1>4, <1>5, <1>6 DEF Inv, NoNullPriv, Used
<1>12. MapsAgree'
  BY <1>3, <1>4, <1>6 DEF Inv, MapsAgree
<1>13. QED
  BY <1>8, <1>9, <1>10, <1>11, <1>12 DEF Inv

(* register_anonymous_variables() keeps the invariant when the list of me  *)
(* is extended.                                                            *)
LEMMA AnonymousExtendInv ==
  ASSUME Inv, NEW n \in 1..MaxN, NEW me \in Owner, ~Fits(AnonList(me), n),
         register_anonymous_variables(n, me)
  PROVE  Inv'
<1> DEFINE a   == allocate_variables(n)
           new == Block(a.base, n)
           L   == AnonList(me)
<1>1. n \in Nat \ {0} /\ me \in Key /\ me # nullptr /\ nullptr \in Key
  BY DEF Key
<1>2. /\ a.varnum <= MaxVar /\ fl' = a.fl /\ varnum' = a.varnum /\ lvarnum' = a.lvarnum
      /\ anon_fl' = [k \in Key |-> IF k = me THEN L
                                   ELSE IF k \in lists THEN anon_fl[k] \cup new
                                   ELSE anon_fl[k]]
      /\ UNCHANGED <<form, var_map, acc_map>>
      /\ lists' = lists \cup {me}
      /\ priv' = IF me \in lists THEN priv ELSE priv \cup {me}
      /\ size' = varnum' /\ Reference(new, me)
      /\ type' = [v \in Var |-> IF v \in new THEN "anon" ELSE type[v]]
  BY DEF register_anonymous_variables, Allocated, anon_base
<1>3. /\ a.varnum \in 0..MaxVar /\ varnum <= a.varnum
      /\ a.lvarnum \in 0..a.varnum /\ lvarnum <= a.lvarnum
      /\ new \subseteq Block(0, a.lvarnum)
      /\ a.fl \subseteq fl /\ a.fl \cap new = {}
  BY <1>1, <1>2, AllocFacts DEF Inv
<1>4. \A v \in new : /\ v \in Var /\ v \notin Used /\ type[v] = "anon" /\ refs[v] = {}
                     /\ \A k \in Key : v \notin anon_fl[k]
  BY <1>1, <1>2, AllocUnused
<1> HIDE DEF new, a, L
<1>5. type' = type
  BY <1>2, <1>4 DEF Inv, TypeOK
<1>6. \A v \in Var : refs'[v] = IF v \in new THEN refs[v] \cup {me} ELSE refs[v]
  BY <1>2 DEF Reference
<1>7. Used' = Used \cup new
  BY <1>4, <1>6 DEF Used
<1>8. L \subseteq anon_fl[nullptr]
  BY <1>1 DEF L, AnonList, Inv, AnonListsAreLive
<1>9. /\ anon_fl'[nullptr] = anon_fl[nullptr] \cup new
      /\ \A k \in Key : anon_fl'[k] \subseteq anon_fl[nullptr] \cup new
  BY <1>1, <1>2, <1>8 DEF Inv, TypeOK, AnonListsAreLive
<1>10. Block(0, lvarnum) \subseteq Block(0, lvarnum') /\ Block(0, lvarnum') \subseteq Block(0, size')
  BY <1>2, <1>3 DEF Inv, TypeOK, Block
<1>11. TypeOK'
  <2>1. refs' \in [Var -> SUBSET Owner]
    BY <1>2 DEF Reference, Inv, TypeOK
  <2>2. anon_fl' \in [Key -> SUBSET Var]
    BY <1>1, <1>2, <1>4, <1>8 DEF Inv, TypeOK
  <2>3. fl' \subseteq Block(0, lvarnum')
    BY <1>2, <1>3, <1>10 DEF Inv, TypeOK
  <2>4. nullptr \in lists' /\ lists' \subseteq Key /\ priv' \subseteq lists'
    BY <1>1, <1>2 DEF Inv, TypeOK
  <2>5. QED
    BY <1>2, <1>3, <1>5, <2>1, <2>2, <2>3, <2>4 DEF Inv, TypeOK
<1>12. FreeIsUnused'
  <2>1. Used' \subseteq Block(0, lvarnum') /\ Used' \subseteq Block(0, size')
    BY <1>2, <1>3, <1>7, <1>10 DEF Inv, FreeIsUnused
  <2>2. \A v \in fl' : v \in fl /\ v \notin new
    BY <1>2, <1>3
  <2>3. QED
    BY <1>1, <1>2, <1>5, <1>7, <1>9, <2>1, <2>2 DEF Inv, FreeIsUnused
<1>13. AnonListsAreLive'
  <2>1. {v \in Used' : type'[v] = "anon"} = {v \in Used : type[v] = "anon"} \cup new
    BY <1>4, <1>5, <1>7
  <2>2. QED
    BY <2>1, <1>9 DEF Inv, AnonListsAreLive
<1>14. NoNullPriv'
  BY <1>2, <1>4, <1>5, <1>6, <1>7 DEF Inv, NoNullPriv, Used
<1>15. MapsAgree'
  BY <1>2, <1>5, <1>7 DEF Inv, MapsAgree
<1>16. QED
  BY <1>11, <1>12, <1>13, <1>14, <1>15 DEF Inv

(* register_all_variables_of() keeps the invariant.                        *)
LEMMA RegisterAllInv ==
  ASSUME Inv, NEW from_other \in Owner, NEW me \in Owner,
         register_all_variables_of(from_other, me)
  PROVE  Inv'
<1> DEFINE V == {v \in Var : from_other \in refs[v]}
<1>1. /\ Reference(V, me)
      /\ UNCHANGED <<varnum, lvarnum, fl, size, type, form, var_map, acc_map>>
      /\ V \in SUBSET Used
      /\ me \in Key /\ me # nullptr /\ nullptr \in Key /\ from_other \in Key
  BY DEF register_all_variables_of, Used, Key
<1>2. refs' \in [Var -> SUBSET Owner] /\ Used' = Used /\ MapsAgree'
  BY <1>1, ReferenceUsed
<1>3. \A v \in Var : refs'[v] = IF from_other \in refs[v] THEN refs[v] \cup {me} ELSE refs[v]
  BY <1>1 DEF Reference
<1>4. priv = lists /\ \A v \in Used : type[v] = "anon" => refs[v] \subseteq lists
  BY DEF Inv, NoNullPriv
<1>5. CASE from_other \in lists
  <2>1. /\ lists' = lists \cup {me} /\ priv' = priv \cup {me}
        /\ anon_fl' = [anon_fl EXCEPT ![me] = anon_fl[from_other]]
    BY <1>4, <1>5 DEF register_all_variables_of
  <2>2. /\ anon_fl' \in [Key -> SUBSET Var] /\ anon_fl'[nullptr] = anon_fl[nullptr]
        /\ \A k \in Key : anon_fl'[k] = IF k = me THEN anon_fl[from_other] ELSE anon_fl[k]
    BY <1>1, <2>1 DEF Inv, TypeOK
  <2>3. TypeOK'
    BY <1>1, <1>2, <2>1, <2>2 DEF Inv, TypeOK
  <2>4. FreeIsUnused' /\ AnonListsAreLive'
    BY <1>1, <1>2, <2>2 DEF Inv, FreeIsUnused, AnonListsAreLive
  <2>5. NoNullPriv'
    BY <1>1, <1>2, <1>3, <1>4, <2>1 DEF NoNullPriv, Used
  <2>6. QED
    BY <1>2, <2>3, <2>4, <2>5 DEF Inv
<1>6. CASE from_other \notin lists
  <2>1. UNCHANGED <<lists, anon_fl, priv>>
    BY <1>6 DEF register_all_variables_of
  <2>2. TypeOK'
    BY <1>1, <1>2, <2>1 DEF Inv, TypeOK
  <2>3. FreeIsUnused' /\ AnonListsAreLive'
    BY <1>1, <1>2, <2>1 DEF Inv, FreeIsUnused, AnonListsAreLive
  <2>4. NoNullPriv'
    BY <1>1, <1>2, <1>3, <1>4, <1>6, <2>1 DEF NoNullPriv, Used
  <2>5. QED
    BY <1>2, <2>2, <2>3, <2>4 DEF Inv
<1>7. QED
  BY <1>5, <1>6
-----------------------------------------------------------------------------
(* The variables of V are without me, and without a meaning if nobody else *)
(* uses them.                                                              *)
After(V, me) ==
  \A v \in Var : /\ type'[v] = IF v \in Dead(V, me) THEN "anon" ELSE type[v]
                 /\ form'[v] = IF v \in Dead(V, me) THEN nil ELSE form[v]
                 /\ refs'[v] = IF v \in V THEN refs[v] \ {me} ELSE refs[v]

(* What unregistering does to the variables, whatever happens to the lists.*)
LEMMA UnregisterFacts ==
  ASSUME Inv, NEW me \in Owner, NEW V \in SUBSET Var, Unregister(V, me)
  PROVE  /\ Dead(V, me) \subseteq Used /\ Used' = Used \ Dead(V, me) /\ fl' = fl \cup Dead(V, me)
         /\ UNCHANGED <<varnum, lvarnum, size>>
         /\ After(V, me)
         /\ type' \in [Var -> {"anon", "var", "acc"}]
         /\ form' \in [Var -> Formula \cup {nil}]
         /\ refs' \in [Var -> SUBSET Owner]
         /\ var_map' \in [Formula -> Var \cup {-1}]
         /\ acc_map' \in [Formula -> Var \cup {-1}]
         /\ MapsAgree'
<1> DEFINE D == Dead(V, me)
           names(t) == {form[v] : v \in {d \in D : type[d] = t}}
<1>1. /\ refs' = [v \in Var |-> IF v \in Mine(V, me) THEN refs[v] \ {me} ELSE refs[v]]
      /\ type' = [v \in Var |-> IF v \in D THEN "anon" ELSE type[v]]
      /\ form' = [v \in Var |-> IF v \in D THEN nil ELSE form[v]]
      /\ var_map' = [f \in Formula |-> IF f \in names("var") THEN -1 ELSE var_map[f]]
      /\ acc_map' = [f \in Formula |-> IF f \in names("acc") THEN -1 ELSE acc_map[f]]
      /\ fl' = fl \cup D /\ UNCHANGED <<varnum, lvarnum, size>>
  BY DEF Unregister
<1>2. D \subseteq Used /\ \A v \in Var : v \in D <=> v \in V /\ refs[v] = {me}
  BY DEF Dead, Used
<1> HIDE DEF D
<1>3. \A v \in Var : refs'[v] = IF v \in V THEN refs[v] \ {me} ELSE refs[v]
  BY <1>1 DEF Mine
<1>4. \A v \in Var : refs[v] \in SUBSET Owner
  BY DEF Inv, TypeOK
<1>5. Used' = Used \ D
  <2>1. ASSUME NEW v \in Var
        PROVE  refs'[v] # {} <=> refs[v] # {} /\ v \notin D
    <3>1. CASE v \in V
      <4>1. refs[v] \ {me} # {} <=> refs[v] # {} /\ refs[v] # {me}
        OBVIOUS
      <4>2. QED
        BY <1>2, <1>3, <3>1, <4>1
    <3>2. CASE v \notin V
      BY <1>2, <1>3, <3>2
    <3>3. QED
      BY <3>1, <3>2
  <2>2. QED
    BY <2>1 DEF Used
<1>6. /\ type' \in [Var -> {"anon", "var", "acc"}]
      /\ form' \in [Var -> Formula \cup {nil}]
      /\ refs' \in [Var -> SUBSET Owner]
      /\ var_map' \in [Formula -> Var \cup {-1}]
      /\ acc_map' \in [Formula -> Var \cup {-1}]
  BY <1>1 DEF Inv, TypeOK
<1>7. \A v \in Var : /\ type'[v] = IF v \in D THEN "anon" ELSE type[v]
                     /\ form'[v] = IF v \in D THEN nil ELSE form[v]
  BY <1>1
<1>8. MapsAgree'
  <2>1. \A v \in Var : type'[v] # "anon" => v \in Used' /\ form'[v] \in Formula
    BY <1>5, <1>7 DEF Inv, MapsAgree
  <2>2. ASSUME NEW f \in Formula, NEW v \in Var
        PROVE  /\ var_map'[f] = v <=> type'[v] = "var" /\ form'[v] = f
               /\ acc_map'[f] = v <=> type'[v] = "acc" /\ form'[v] = f
    <3>1. \A w \in Var : /\ var_map[f] = w <=> type[w] = "var" /\ form[w] = f
                         /\ acc_map[f] = w <=> type[w] = "acc" /\ form[w] = f
      BY DEF Inv, MapsAgree
    <3>2. f \in names("var") <=> \E w \in D : var_map[f] = w
      BY <1>2, <3>1 DEF Used
    <3>3. f \in names("acc") <=> \E w \in D : acc_map[f] = w
      BY <1>2, <3>1 DEF Used
    <3>4. /\ var_map'[f] = IF f \in names("var") THEN -1 ELSE var_map[f]
          /\ acc_map'[f] = IF f \in names("acc") THEN -1 ELSE acc_map[f]
      BY <1>1
    <3> HIDE DEF names
    <3>5. v # -1
      BY DEF Var
    <3>6. QED
      BY <1>7, <3>1, <3>2, <3>3, <3>4, <3>5
  <2>3. QED
    BY <2>1, <2>2 DEF MapsAgree
<1>9. QED
  BY <1>1, <1>2, <1>3, <1>5, <1>6, <1>7, <1>8 DEF D, After

(* The lists after unregistering: the anonymous variables nobody uses any  *)
(* more are on none of them.                                               *)
LEMMA UnregisterInv ==
  ASSUME Inv, NEW me \in Owner, NEW V \in SUBSET Var, Unregister(V, me),
         nullptr \in lists', lists' \subseteq Key, priv' \subseteq lists',
         anon_fl' \in [Key -> SUBSET Var],
         anon_fl'[nullptr] = Released(V, me)[nullptr],
         \A k \in Key : anon_fl'[k] \subseteq Released(V, me)[k]
  PROVE  TypeOK' /\ FreeIsUnused' /\ AnonListsAreLive' /\ MapsAgree'
<1> DEFINE D == Dead(V, me)
<1>1. /\ D \subseteq Used /\ Used' = Used \ D /\ fl' = fl \cup D
      /\ UNCHANGED <<varnum, lvarnum, size>>
      /\ After(V, me)
      /\ type' \in [Var -> {"anon", "var", "acc"}]
      /\ form' \in [Var -> Formula \cup {nil}]
      /\ refs' \in [Var -> SUBSET Owner]
      /\ var_map' \in [Formula -> Var \cup {-1}]
      /\ acc_map' \in [Formula -> Var \cup {-1}]
      /\ MapsAgree'
  BY UnregisterFacts
<1>2. /\ \A v \in D : v \in Anon(V, me) <=> type[v] = "anon"
      /\ \A v \in Anon(V, me) : v \in Used /\ type[v] = "anon"
  BY DEF Dead, Anon, Mine, Used
<1>12. \A v \in Var : /\ type'[v] = IF v \in D THEN "anon" ELSE type[v]
                      /\ form'[v] = IF v \in D THEN nil ELSE form[v]
  BY <1>1 DEF After
<1>3. /\ me # nullptr /\ nullptr \in Key
      /\ \A k \in Key : Released(V, me)[k] =
           (IF k = me THEN anon_fl[k] \cup Anon(V, me) ELSE anon_fl[k]) \ (D \cap Anon(V, me))
  BY DEF Released, Key
<1> HIDE DEF D
<1>4. anon_fl[nullptr] = {v \in Used : type[v] = "anon"} /\ \A k \in Key : anon_fl[k] \subseteq anon_fl[nullptr]
  BY DEF Inv, AnonListsAreLive
<1>5. anon_fl'[nullptr] = anon_fl[nullptr] \ (D \cap Anon(V, me))
  BY <1>3
<1>6. \A k \in Key : anon_fl'[k] \subseteq anon_fl'[nullptr]
  <2>1. Anon(V, me) \subseteq anon_fl[nullptr]
    BY <1>2, <1>4
  <2>2. \A k \in Key : Released(V, me)[k] \subseteq anon_fl[nullptr] \ (D \cap Anon(V, me))
    BY <2>1, <1>3, <1>4
  <2>3. QED
    BY <2>2, <1>5
<1>7. anon_fl'[nullptr] = {v \in Used' : type'[v] = "anon"}
  <2>1. \A v \in Used : v \in Var
    BY DEF Used
  <2>2. QED
    BY <2>1, <1>1, <1>2, <1>4, <1>5, <1>12
<1>8. AnonListsAreLive'
  BY <1>6, <1>7 DEF AnonListsAreLive
<1>9. TypeOK'
  <2>1. D \subseteq Block(0, lvarnum)
    BY <1>1 DEF Inv, FreeIsUnused
  <2>2. QED
    BY <1>1, <2>1 DEF Inv, TypeOK
<1>10. FreeIsUnused'
  <2>1. Used' \subseteq Block(0, lvarnum') /\ Used' \subseteq Block(0, size')
    BY <1>1 DEF Inv, FreeIsUnused
  <2>2. \A v \in fl' : v \in Var
    BY <1>1 DEF Inv, TypeOK, Block, Var, Used
  <2>3. \A v \in fl' : v \notin Used' /\ type'[v] = "anon" /\ form'[v] = nil
    BY <1>1, <1>12, <2>2 DEF Inv, FreeIsUnused
  <2>4. \A v \in fl' : \A k \in Key : v \notin anon_fl'[k]
    BY <2>3, <1>6, <1>7
  <2>5. QED
    BY <2>1, <2>3, <2>4 DEF FreeIsUnused
<1>11. QED
  BY <1>1, <1>8, <1>9, <1>10

(* An owner of an anonymous variable has a list, so that the list          *)
(* unregister_variable() looks up exists.                                  *)
LEMMA UnregisterOneInv ==
  ASSUME Inv, NEW v \in Var, NEW me \in Owner, unregister_variable(v, me)
  PROVE  Inv'
<1>1. /\ Unregister({v}, me) /\ anon_fl' = Released({v}, me) /\ UNCHANGED priv
      /\ lists' = IF Anon({v}, me) = {} THEN lists ELSE lists \cup {me}
  BY DEF unregister_variable
<1>2. lists' = lists
  <2>1. Anon({v}, me) # {} => v \in Used /\ type[v] = "anon" /\ me \in refs[v]
    BY DEF Anon, Mine, Used
  <2>2. QED
    BY <1>1, <2>1 DEF Inv, NoNullPriv
<1>3. anon_fl' \in [Key -> SUBSET Var]
  BY <1>1 DEF Released, Anon, Mine, Inv, TypeOK
<1>4. TypeOK' /\ FreeIsUnused' /\ AnonListsAreLive' /\ MapsAgree'
  BY <1>1, <1>2, <1>3, UnregisterInv DEF Inv, TypeOK, Key
<1>5. NoNullPriv'
  <2> DEFINE D == Dead({v}, me)
  <2>1. /\ Used' = Used \ D
        /\ \A w \in Var : /\ type'[w] = IF w \in D THEN "anon" ELSE type[w]
                          /\ refs'[w] = IF w \in {v} THEN refs[w] \ {me} ELSE refs[w]
    <3>1. {v} \in SUBSET Var
      OBVIOUS
    <3>2. Used' = Used \ D /\ After({v}, me)
      BY <1>1, <3>1, UnregisterFacts
    <3>3. QED
      BY <3>2 DEF After
  <2> HIDE DEF D
  <2>2. \A w \in Used' : w \in Used /\ w \in Var /\ type'[w] = type[w] /\ refs'[w] \subseteq refs[w]
    BY <2>1 DEF Used
  <2>3. QED
    BY <1>1, <1>2, <2>2 DEF Inv, NoNullPriv
<1>6. QED
  BY <1>4, <1>5 DEF Inv

(* After unregister_all_my_variables() nothing refers to me: its list can  *)
(* go.                                                                     *)
LEMMA UnregisterAllInv ==
  ASSUME Inv, NEW me \in Owner, unregister_all_my_variables(me)
  PROVE  Inv'
<1> DEFINE V == Block(0, size)
<1>1. /\ Unregister(V, me) /\ anon_fl' = [Released(V, me) EXCEPT ![me] = {}]
      /\ lists' = lists \ {me} /\ priv' = priv \ {me}
  BY DEF unregister_all_my_variables
<1>2. V \in SUBSET Var /\ Used \subseteq V /\ me # nullptr
  BY DEF Inv, TypeOK, Block, Var, FreeIsUnused
<1> HIDE DEF V
<1>3. Released(V, me) \in [Key -> SUBSET Var]
  BY <1>2 DEF Released, Anon, Mine, Inv, TypeOK
<1>4. /\ anon_fl' \in [Key -> SUBSET Var] /\ anon_fl'[nullptr] = Released(V, me)[nullptr]
      /\ \A k \in Key : anon_fl'[k] \subseteq Released(V, me)[k]
  BY <1>1, <1>2, <1>3 DEF Key
<1>5. nullptr \in lists' /\ lists' \subseteq Key /\ priv' \subseteq lists'
  BY <1>1, <1>2 DEF Inv, TypeOK
<1>6. TypeOK' /\ FreeIsUnused' /\ AnonListsAreLive' /\ MapsAgree'
  BY <1>1, <1>2, <1>4, <1>5, UnregisterInv
<1>7. NoNullPriv'
  <2> DEFINE D == Dead(V, me)
  <2>1. /\ Used' = Used \ D
        /\ \A w \in Var : /\ type'[w] = IF w \in D THEN "anon" ELSE type[w]
                          /\ refs'[w] = IF w \in V THEN refs[w] \ {me} ELSE refs[w]
    <3>1. Used' = Used \ D /\ After(V, me)
      BY <1>1, <1>2, UnregisterFacts
    <3>2. QED
      BY <3>1 DEF After
  <2> HIDE DEF D
  <2>2. \A w \in Used' : w \in Used /\ w \in Var /\ type'[w] = type[w] /\ refs'[w] = refs[w] \ {me}
    BY <1>2, <2>1 DEF Used
  <2>3. QED
    BY <1>1, <2>2 DEF Inv, NoNullPriv
<1>8. QED
  BY <1>6, <1>7 DEF Inv

(* Other users of BuDDy only add variables the dictionary has not counted. *)
LEMMA ExtVarNumInv ==
  ASSUME Inv, NEW k \in Extern, ExtVarNum(k)
  PROVE  Inv'
<1> USE DEF ExtVarNum
<1>1. TypeOK'
  BY DEF Inv, TypeOK
<1>2. Used' = Used
  BY DEF Used
<1>3. FreeIsUnused' /\ AnonListsAreLive' /\ NoNullPriv' /\ MapsAgree'
  BY <1>2 DEF Inv, FreeIsUnused, AnonListsAreLive, NoNullPriv, MapsAgree
<1>4. QED
  BY <1>1, <1>3 DEF Inv

(* Every step keeps the invariant.                                         *)
LEMMA NextInv == Inv /\ [Next]_vars => Inv'
<1> SUFFICES ASSUME Inv, [Next]_vars PROVE Inv'
  OBVIOUS
<1>1. CASE UNCHANGED vars
  <2>1. Used' = Used
    BY <1>1 DEF Used, vars
  <2>2. TypeOK' /\ FreeIsUnused' /\ AnonListsAreLive'
    BY <1>1, <2>1 DEF Inv, TypeOK, FreeIsUnused, AnonListsAreLive, vars
  <2>3. NoNullPriv' /\ MapsAgree'
    BY <1>1, <2>1 DEF Inv, NoNullPriv, MapsAgree, vars
  <2>4. QED
    BY <2>2, <2>3 DEF Inv
<1>2. ASSUME NEW k \in Extern, ExtVarNum(k) PROVE Inv'
  BY <1>2, ExtVarNumInv
<1>3. ASSUME NEW f \in Formula, NEW me \in Owner,
             register_proposition(f, me) \/ register_acceptance_variable(f, me)
      PROVE  Inv'
  BY <1>3, PropositionInv, AcceptanceInv
<1>4. ASSUME NEW n \in 1..MaxN, NEW me \in Owner, register_anonymous_variables(n, me)
      PROVE  Inv'
  BY <1>4, AnonymousFitInv, AnonymousExtendInv
<1>5. ASSUME NEW v \in Var, NEW me \in Owner, unregister_variable(v, me) PROVE Inv'
  BY <1>5, UnregisterOneInv
<1>6. ASSUME NEW me \in Owner, unregister_all_my_variables(me) PROVE Inv'
  BY <1>6, UnregisterAllInv
<1>7. ASSUME NEW from_other \in Owner, NEW me \in Owner,
             register_all_variables_of(from_other, me)
      PROVE  Inv'
  BY <1>7, RegisterAllInv
<1>8. QED
  BY <1>1, <1>2, <1>3, <1>4, <1>5, <1>6, <1>7 DEF Next, Others

(* The invariant holds in every reachable state.                           *)
LEMMA SpecInv == Spec => []Inv
BY InitInv, NextInv, PTL DEF Spec

(* Every variable the allocator may hand out is unused, unnamed and on no  *)
(* list, whatever the order of the registrations, the releases and the     *)
(* extensions of BuDDy by others.                                          *)
THEOREM FreeVariablesAreUnused == Spec => [](TypeOK /\ FreeIsUnused)
<1>1. Inv => TypeOK /\ FreeIsUnused
  BY DEF Inv
<1>2. QED
  BY <1>1, SpecInv, PTL

(* The lists of anonymous variables hold only variables in use, and each   *)
(* of them can be extended: extend() never meets a null priv_.             *)
THEOREM ListsAreLive == Spec => [](AnonListsAreLive /\ NoNullPriv)
<1>1. Inv => AnonListsAreLive /\ NoNullPriv
  BY DEF Inv
<1>2. QED
  BY <1>1, SpecInv, PTL

(* The maps from formulas to variables and bdd_map agree.                  *)
THEOREM MapsAreInverse == Spec => []MapsAgree
<1>1. Inv => MapsAgree
  BY DEF Inv
<1>2. QED
  BY <1>1, SpecInv, PTL
-----------------------------------------------------------------------------
(* A step leaves alone the meaning of every variable whose owners it does  *)
(* not all remove.                                                         *)
Stable == \A v \in Var : refs[v] \cap refs'[v] # {}
                           => type'[v] = type[v] /\ form'[v] = form[v]

(* A variable that gets a formula had no owner before.                     *)
LEMMA NewFormulaStable ==
  ASSUME Inv, NEW me \in Owner, NEW t \in {"var", "acc"}, NEW f \in Formula,
         NewFormulaVariable(t, f, me)
  PROVE  Stable
<1> DEFINE b == allocate_variables(1).base
<1>1. allocate_variables(1).varnum <= MaxVar
  BY DEF NewFormulaVariable, Allocated
<1>2. b \in Nat /\ b \in Block(b, 1)
  BY <1>1, AllocFacts DEF Inv, Block
<1>3. refs[b] = {}
  BY <1>1, <1>2, AllocUnused
<1>4. type' = [type EXCEPT ![b] = t] /\ form' = [form EXCEPT ![b] = f]
  BY DEF NewFormulaVariable
<1> HIDE DEF b
<1>5. \A v \in Var : v # b => type'[v] = type[v] /\ form'[v] = form[v]
  BY <1>4 DEF Inv, TypeOK
<1>6. QED
  BY <1>3, <1>5 DEF Stable

(* A variable that becomes anonymous was anonymous, or had no owner.       *)
LEMMA AnonymousStable ==
  ASSUME Inv, NEW n \in 1..MaxN, NEW me \in Owner, register_anonymous_variables(n, me)
  PROVE  Stable
<1> DEFINE new == Block(anon_base(n, me), n)
<1>1. n \in Nat \ {0}
  OBVIOUS
<1>2. \A v \in new : type[v] = "anon"
  <2>1. CASE Fits(AnonList(me), n)
    BY <1>1, <2>1, AnonFitFacts
  <2>2. CASE ~Fits(AnonList(me), n)
    <3>1. allocate_variables(n).varnum <= MaxVar /\ new = Block(allocate_variables(n).base, n)
      BY <2>2 DEF register_anonymous_variables, Allocated, anon_base
    <3>2. QED
      BY <1>1, <3>1, AllocUnused
  <2>3. QED
    BY <2>1, <2>2
<1>3. form' = form /\ type' = [v \in Var |-> IF v \in new THEN "anon" ELSE type[v]]
  BY DEF register_anonymous_variables
<1> HIDE DEF new
<1>4. QED
  BY <1>2, <1>3 DEF Stable

(* A variable that loses its meaning loses its last owner.                 *)
LEMMA UnregisterStable ==
  ASSUME Inv, NEW me \in Owner, NEW V \in SUBSET Var, Unregister(V, me)
  PROVE  Stable
<1>1. After(V, me)
  BY UnregisterFacts
<1>2. \A v \in Var : v \in Dead(V, me) => refs'[v] = {}
  BY <1>1 DEF After, Dead
<1>3. \A v \in Var : v \notin Dead(V, me) => type'[v] = type[v] /\ form'[v] = form[v]
  BY <1>1 DEF After
<1>4. QED
  BY <1>2, <1>3 DEF Stable

(* No step changes the meaning of a variable under an owner that keeps it. *)
LEMMA NextStable == Inv /\ [Next]_vars => [Stable]_vars
<1> SUFFICES ASSUME Inv, Next PROVE Stable
  OBVIOUS
<1>1. ASSUME UNCHANGED <<type, form>> PROVE Stable
  BY <1>1 DEF Stable
<1>2. ASSUME NEW k \in Extern, ExtVarNum(k) PROVE Stable
  BY <1>1, <1>2 DEF ExtVarNum
<1>3. ASSUME NEW f \in Formula, NEW me \in Owner, register_proposition(f, me) PROVE Stable
  BY <1>1, <1>3, NewFormulaStable DEF register_proposition
<1>4. ASSUME NEW f \in Formula, NEW me \in Owner, register_acceptance_variable(f, me)
      PROVE  Stable
  BY <1>1, <1>4, NewFormulaStable DEF register_acceptance_variable
<1>5. ASSUME NEW n \in 1..MaxN, NEW me \in Owner, register_anonymous_variables(n, me)
      PROVE  Stable
  BY <1>5, AnonymousStable
<1>6. ASSUME NEW v \in Var, NEW me \in Owner, unregister_variable(v, me) PROVE Stable
  <2>1. {v} \in SUBSET Var /\ Unregister({v}, me)
    BY <1>6 DEF unregister_variable
  <2>2. QED
    BY <2>1, UnregisterStable
<1>7. ASSUME NEW me \in Owner, unregister_all_my_variables(me) PROVE Stable
  <2>1. Block(0, size) \in SUBSET Var
    BY DEF Inv, TypeOK, Block, Var
  <2>2. Unregister(Block(0, size), me)
    BY <1>7 DEF unregister_all_my_variables
  <2>3. QED
    BY <2>1, <2>2, UnregisterStable
<1>8. ASSUME NEW from_other \in Owner, NEW me \in Owner,
             register_all_variables_of(from_other, me)
      PROVE  Stable
  BY <1>1, <1>8 DEF register_all_variables_of
<1>9. QED
  BY <1>2, <1>3, <1>4, <1>5, <1>6, <1>7, <1>8 DEF Next, Others

(* A variable keeps its meaning as long as one of its owners keeps it,     *)
(* whatever the other owners, and the other users of BuDDy, do.            *)
THEOREM MeaningsAreStable == Spec => MeaningIsStable
<1>1. Spec => [][Stable]_vars
  BY SpecInv, NextStable, PTL DEF Spec
<1>2. QED
  BY <1>1 DEF MeaningIsStable, Stable
-----------------------------------------------------------------------------
(* What FreshForMe rests on: the list of an owner holds none of the        *)
(* variables it uses.                                                      *)
ListsAreNew == \A me \in Owner : \A v \in anon_fl[me] : me \notin refs[v]

(* Another owner of a proposition or an acceptance set leaves the lists    *)
(* new.                                                                    *)
LEMMA FormulaListsAreNew ==
  ASSUME Inv, ListsAreNew, NEW me \in Owner, NEW b \in Var, type[b] # "anon" \/ refs[b] = {},
         Reference({b}, me), UNCHANGED anon_fl
  PROVE  ListsAreNew'
<1>1. \A v \in Var : refs'[v] = IF v = b THEN refs[v] \cup {me} ELSE refs[v]
  BY DEF Reference
<1>2. \A k \in Owner : anon_fl[k] \subseteq Var /\ b \notin anon_fl[k]
  BY DEF Inv, TypeOK, AnonListsAreLive, Used, Key
<1>3. QED
  BY <1>1, <1>2 DEF ListsAreNew

(* So does a new proposition or acceptance set, whose variable is on no    *)
(* list.                                                                   *)
LEMMA NewFormulaListsAreNew ==
  ASSUME Inv, ListsAreNew, NEW me \in Owner, NEW t, NEW f,
         NewFormulaVariable(t, f, me), UNCHANGED anon_fl
  PROVE  ListsAreNew'
<1>1. allocate_variables(1).varnum <= MaxVar
  BY DEF NewFormulaVariable, Allocated
<1>2. allocate_variables(1).base \in Var
  BY <1>1, AllocOne
<1>3. allocate_variables(1).base \in Block(allocate_variables(1).base, 1)
  BY <1>2 DEF Block, Var
<1>4. refs[allocate_variables(1).base] = {}
  BY <1>1, <1>3, AllocUnused
<1>5. Reference({allocate_variables(1).base}, me)
  BY DEF NewFormulaVariable
<1>6. QED
  BY <1>2, <1>4, <1>5, FormulaListsAreNew

(* me's list, or the copy of the list of nullptr it gets, holds no         *)
(* variable of me.                                                         *)
LEMMA AnonListIsNew ==
  ASSUME Inv, ListsAreNew, NEW me \in Owner
  PROVE  \A v \in AnonList(me) : v \in Var /\ me \notin refs[v]
<1>1. CASE me \in lists
  BY <1>1 DEF AnonList, ListsAreNew, Inv, TypeOK, Key
<1>2. CASE me \notin lists
  <2>1. AnonList(me) = {v \in Used : type[v] = "anon"}
    BY <1>2 DEF AnonList, Inv, AnonListsAreLive
  <2>2. QED
    BY <1>2, <2>1 DEF Inv, NoNullPriv, Used
<1>3. QED
  BY <1>1, <1>2

(* The variables register_anonymous_variables() returns are new to me.     *)
LEMMA AnonymousIsNew ==
  ASSUME Inv, ListsAreNew, NEW n \in 1..MaxN, NEW me \in Owner,
         register_anonymous_variables(n, me)
  PROVE  \A v \in Block(anon_base(n, me), n) : me \notin refs[v]
<1>1. n \in Nat \ {0}
  OBVIOUS
<1>2. CASE Fits(AnonList(me), n)
  BY <1>1, <1>2, AnonFitFacts, AnonListIsNew
<1>3. CASE ~Fits(AnonList(me), n)
  <2>1. /\ allocate_variables(n).varnum <= MaxVar
        /\ anon_base(n, me) = allocate_variables(n).base
    BY <1>3 DEF register_anonymous_variables, Allocated, anon_base
  <2>2. QED
    BY <1>1, <2>1, AllocUnused
<1>4. QED
  BY <1>2, <1>3

(* The variables register_anonymous_variables() returns leave the list of  *)
(* their new owner.                                                        *)
LEMMA AnonymousListsAreNew ==
  ASSUME Inv, ListsAreNew, NEW n \in 1..MaxN, NEW me \in Owner,
         register_anonymous_variables(n, me)
  PROVE  ListsAreNew'
<1> DEFINE new == Block(anon_base(n, me), n)
           L   == AnonList(me)
<1>1. n \in Nat \ {0} /\ me \in Key /\ Owner \subseteq Key
  BY DEF Key
<1>2. \A v \in L : v \in Var /\ me \notin refs[v]
  BY AnonListIsNew
<1>3. Reference(new, me)
  BY DEF register_anonymous_variables
<1>4. CASE Fits(AnonList(me), n)
  <2>1. anon_fl' = [anon_fl EXCEPT ![me] = L \ new]
    BY <1>4 DEF register_anonymous_variables
  <2> HIDE DEF new, L
  <2>2. \A v \in Var : refs'[v] = IF v \in new THEN refs[v] \cup {me} ELSE refs[v]
    BY <1>3 DEF Reference
  <2>3. \A k \in Owner : anon_fl'[k] = IF k = me THEN L \ new ELSE anon_fl[k]
    BY <1>1, <2>1 DEF Inv, TypeOK
  <2>4. \A k \in Owner : anon_fl[k] \subseteq Var
    BY <1>1 DEF Inv, TypeOK
  <2>5. QED
    BY <1>2, <2>2, <2>3, <2>4 DEF ListsAreNew
<1>5. CASE ~Fits(AnonList(me), n)
  <2>1. /\ allocate_variables(n).varnum <= MaxVar
        /\ anon_base(n, me) = allocate_variables(n).base
        /\ anon_fl' = [k \in Key |-> IF k = me THEN L
                                     ELSE IF k \in lists THEN anon_fl[k] \cup new
                                     ELSE anon_fl[k]]
    BY <1>5 DEF register_anonymous_variables, Allocated, anon_base
  <2>2. \A v \in new : v \in Var /\ refs[v] = {} /\ \A k \in Key : v \notin anon_fl[k]
    BY <1>1, <2>1, AllocUnused
  <2>3. L \cap new = {}
    BY <1>1, <2>2 DEF AnonList, Key
  <2> HIDE DEF new, L
  <2>4. \A v \in Var : refs'[v] = IF v \in new THEN refs[v] \cup {me} ELSE refs[v]
    BY <1>3 DEF Reference
  <2>5. \A k \in Owner : anon_fl'[k] \subseteq IF k = me THEN L ELSE anon_fl[k] \cup new
    BY <1>1, <2>1
  <2>6. \A k \in Owner : anon_fl[k] \subseteq Var
    BY <1>1 DEF Inv, TypeOK
  <2>7. \A v \in L : me \notin refs'[v]
    BY <1>2, <2>3, <2>4
  <2>8. ASSUME NEW k \in Owner, k # me, NEW v \in anon_fl[k] \cup new
        PROVE  k \notin refs'[v]
    BY <2>2, <2>4, <2>6, <2>8 DEF ListsAreNew
  <2>9. ASSUME NEW k \in Owner, NEW v \in anon_fl'[k] PROVE k \notin refs'[v]
    BY <2>5, <2>7, <2>8
  <2>10. QED
    BY <2>9 DEF ListsAreNew
<1>6. QED
  BY <1>4, <1>5

(* An owner without anonymous variables gets a list that is new to it from *)
(* another one.                                                            *)
LEMMA RegisterAllListsAreNew ==
  ASSUME Inv, ListsAreNew, NEW from_other \in Owner, NEW me \in Owner, ~OwnsAnon(me),
         register_all_variables_of(from_other, me)
  PROVE  ListsAreNew'
<1>1. Owner \subseteq Key /\ nullptr \in Key
  BY DEF Key
<1>2. \A v \in Var : refs'[v] = IF from_other \in refs[v] THEN refs[v] \cup {me} ELSE refs[v]
  BY DEF register_all_variables_of, Reference
<1>3. \A k \in Owner : \A v \in anon_fl[k] : v \in Var /\ type[v] = "anon" /\ v \in Used
  BY <1>1 DEF Inv, AnonListsAreLive, Used
<1>4. \A k \in Owner : \A v \in anon_fl[k] : me \notin refs[v]
  BY <1>3 DEF OwnsAnon
<1>5. CASE from_other \in lists
  <2>1. \A k \in Owner : anon_fl'[k] = IF k = me THEN anon_fl[from_other] ELSE anon_fl[k]
    BY <1>1, <1>5 DEF register_all_variables_of, Inv, TypeOK
  <2>2. QED
    BY <1>2, <1>3, <1>4, <2>1 DEF ListsAreNew
<1>6. CASE from_other \notin lists
  <2>1. UNCHANGED anon_fl
    BY <1>6 DEF register_all_variables_of
  <2>2. \A k \in Owner : \A v \in anon_fl[k] : from_other \notin refs[v]
    BY <1>3, <1>6 DEF Inv, NoNullPriv
  <2>3. QED
    BY <1>2, <1>3, <2>1, <2>2 DEF ListsAreNew
<1>7. QED
  BY <1>5, <1>6

(* A variable that returns to the list of an owner is not used by it any   *)
(* more.                                                                   *)
LEMMA UnregisterListsAreNew ==
  ASSUME Inv, ListsAreNew, NEW me \in Owner, NEW V \in SUBSET Var, Unregister(V, me),
         \A k \in Key : anon_fl'[k] \subseteq Released(V, me)[k]
  PROVE  ListsAreNew'
<1>1. After(V, me)
  BY UnregisterFacts
<1>2. \A v \in Var : refs'[v] = IF v \in V THEN refs[v] \ {me} ELSE refs[v]
  BY <1>1 DEF After
<1>3. \A k \in Owner : anon_fl'[k] \subseteq IF k = me THEN anon_fl[k] \cup Anon(V, me) ELSE anon_fl[k]
  BY DEF Released, Key
<1>4. Anon(V, me) \subseteq V /\ \A k \in Owner : anon_fl[k] \subseteq Var
  BY DEF Anon, Mine, Inv, TypeOK, Key
<1>5. QED
  BY <1>2, <1>3, <1>4 DEF ListsAreNew

(* Under the discipline every step leaves the lists new to their owners.   *)
LEMMA NextListsAreNew ==
  Inv /\ ListsAreNew /\ [DisciplinedNext]_vars => ListsAreNew'
<1> SUFFICES ASSUME Inv, ListsAreNew, [DisciplinedNext]_vars PROVE ListsAreNew'
  OBVIOUS
<1>1. ASSUME UNCHANGED <<refs, anon_fl>> PROVE ListsAreNew'
  BY <1>1 DEF ListsAreNew
<1>2. CASE UNCHANGED vars
  BY <1>1, <1>2 DEF vars
<1>3. ASSUME NEW k \in Extern, ExtVarNum(k) PROVE ListsAreNew'
  BY <1>1, <1>3 DEF ExtVarNum
<1>4. ASSUME NEW f \in Formula, NEW me \in Owner, register_proposition(f, me)
      PROVE  ListsAreNew'
  <2>1. var_map[f] # -1 => var_map[f] \in Var /\ type[var_map[f]] = "var"
    BY DEF Inv, TypeOK, MapsAgree
  <2>2. QED
    BY <1>4, <2>1, FormulaListsAreNew, NewFormulaListsAreNew DEF register_proposition
<1>5. ASSUME NEW f \in Formula, NEW me \in Owner, register_acceptance_variable(f, me)
      PROVE  ListsAreNew'
  <2>1. acc_map[f] # -1 => acc_map[f] \in Var /\ type[acc_map[f]] = "acc"
    BY DEF Inv, TypeOK, MapsAgree
  <2>2. QED
    BY <1>5, <2>1, FormulaListsAreNew, NewFormulaListsAreNew DEF register_acceptance_variable
<1>6. ASSUME NEW n \in 1..MaxN, NEW me \in Owner, register_anonymous_variables(n, me)
      PROVE  ListsAreNew'
  BY <1>6, AnonymousListsAreNew
<1>7. ASSUME NEW v \in Var, NEW me \in Owner, unregister_variable(v, me) PROVE ListsAreNew'
  <2>1. {v} \in SUBSET Var /\ Unregister({v}, me) /\ anon_fl' = Released({v}, me)
    BY <1>7 DEF unregister_variable
  <2>2. QED
    BY <2>1, UnregisterListsAreNew
<1>8. ASSUME NEW me \in Owner, unregister_all_my_variables(me) PROVE ListsAreNew'
  <2> DEFINE V == Block(0, size)
  <2>1. V \in SUBSET Var
    BY DEF Inv, TypeOK, Block, Var
  <2>2. Unregister(V, me) /\ anon_fl' = [Released(V, me) EXCEPT ![me] = {}]
    BY <1>8 DEF unregister_all_my_variables
  <2> HIDE DEF V
  <2>3. Released(V, me) \in [Key -> SUBSET Var]
    BY <2>1 DEF Released, Anon, Mine, Inv, TypeOK
  <2>4. \A k \in Key : anon_fl'[k] \subseteq Released(V, me)[k]
    BY <2>2, <2>3
  <2>5. QED
    BY <2>1, <2>2, <2>4, UnregisterListsAreNew
<1>9. ASSUME NEW from_other \in Owner, NEW me \in Owner, ~OwnsAnon(me),
             register_all_variables_of(from_other, me)
      PROVE  ListsAreNew'
  BY <1>9, RegisterAllListsAreNew
<1>10. QED
  BY <1>2, <1>3, <1>4, <1>5, <1>6, <1>7, <1>8, <1>9 DEF DisciplinedNext, Others

(* When objects duplicate the variables of others before they take         *)
(* anonymous variables of their own, register_anonymous_variables() never  *)
(* returns a variable its caller already uses.                             *)
THEOREM AnonymousVariablesAreFresh == DisciplinedSpec => FreshForMe
<1> DEFINE Fresh == \A n \in 1..MaxN, me \in Owner :
                      register_anonymous_variables(n, me) =>
                        \A v \in Block(anon_base(n, me), n) : me \notin refs[v]
<1>1. Init => Inv /\ ListsAreNew
  BY InitInv DEF Init, ListsAreNew, Key
<1>2. Inv /\ ListsAreNew /\ [DisciplinedNext]_vars => (Inv /\ ListsAreNew)'
  <2>1. DisciplinedNext => Next
    BY DEF DisciplinedNext, Next
  <2>2. QED
    BY <2>1, NextInv, NextListsAreNew
<1>3. Inv /\ ListsAreNew /\ [DisciplinedNext]_vars => [Fresh]_vars
  BY AnonymousIsNew
<1>4. DisciplinedSpec => [][Fresh]_vars
  <2> HIDE DEF Fresh
  <2>1. QED
    BY <1>1, <1>2, <1>3, PTL DEF DisciplinedSpec
<1>5. QED
  BY <1>4 DEF FreshForMe
-----------------------------------------------------------------------------
(* When nobody else extends BuDDy, extend() asks for exactly the variables *)
(* that are missing: what it adds is handed out.                           *)
LEMMA AllocCovers ==
  ASSUME TypeOK, lvarnum = varnum, NEW n \in Nat \ {0}
  PROVE  /\ allocate_variables(n).lvarnum = allocate_variables(n).varnum
         /\ Block(0, allocate_variables(n).lvarnum)
              \subseteq Block(0, lvarnum) \cup Block(allocate_variables(n).base, n)
         /\ fl \subseteq allocate_variables(n).fl \cup Block(allocate_variables(n).base, n)
<1>1. /\ lvarnum \in Nat /\ varnum \in Nat
      /\ fl \subseteq Block(0, lvarnum) /\ fl \in SUBSET Nat
  BY DEF TypeOK, Block
<1>2. CASE Fits(fl, n)
  <2> DEFINE b == BestFit(fl, n)
  <2>1. allocate_variables(n) = [base |-> b, fl |-> fl \ Block(b, n),
                                 varnum |-> varnum, lvarnum |-> lvarnum]
    BY <1>2 DEF allocate_variables
  <2> HIDE DEF b
  <2>2. QED
    BY <2>1
<1>3. CASE ~Fits(fl, n)
  <2> DEFINE b == TailStart
             m == extvarnum(n - (lvarnum - b))
  <2>1. b \in 0..lvarnum /\ (b .. (lvarnum - 1)) \subseteq fl /\ b - 1 \notin fl
    BY TailFacts
  <2>2. allocate_variables(n) = [base |-> b, fl |-> fl \ (b .. (lvarnum - 1)),
                                 varnum |-> m, lvarnum |-> m]
    BY <1>3 DEF allocate_variables
  <2> HIDE DEF b
  <2>3. lvarnum - b < n
    <3> SUFFICES ASSUME lvarnum - b >= n PROVE FALSE
      BY <1>1, <2>1
    <3> DEFINE r == <<b, lvarnum - 1>>
    <3>1. b \in fl /\ lvarnum - 1 \in fl /\ b <= lvarnum - 1
      BY <1>1, <2>1
    <3>2. (lvarnum - 1) + 1 \notin fl
      BY <1>1 DEF Block
    <3>3. r \in Runs(fl) /\ Length(r) >= n
      BY <1>1, <2>1, <3>1, <3>2 DEF Runs, Length
    <3>4. QED
      BY <1>3, <3>3 DEF Fits, LongRuns
  <2>4. m = b + n
    BY <1>1, <2>1, <2>3 DEF extvarnum
  <2> HIDE DEF m
  <2>5. Block(0, m) \subseteq Block(0, lvarnum) \cup Block(b, n)
    BY <1>1, <2>1, <2>4 DEF Block
  <2>6. (b .. (lvarnum - 1)) \subseteq Block(b, n)
    BY <1>1, <2>1, <2>3 DEF Block
  <2>7. QED
    BY <2>2, <2>5, <2>6
<1>4. QED
  BY <1>2, <1>3

(* NoLeak with what makes it inductive: the allocator knows of every       *)
(* variable of BuDDy.                                                      *)
AllKnown == lvarnum = varnum /\ NoLeak

(* After an allocation every counted variable is free or just handed out.  *)
LEMMA AllocAllKnown ==
  ASSUME Inv, AllKnown, NEW n \in Nat \ {0}, NEW me \in Owner,
         Allocated(allocate_variables(n)),
         Reference(Block(allocate_variables(n).base, n), me)
  PROVE  AllKnown'
<1> DEFINE a   == allocate_variables(n)
           new == Block(a.base, n)
<1>1. /\ a.lvarnum = a.varnum /\ fl \subseteq a.fl \cup new
      /\ Block(0, a.lvarnum) \subseteq Block(0, lvarnum) \cup new
  BY AllocCovers DEF Inv, AllKnown
<1>2. a.varnum <= MaxVar /\ fl' = a.fl /\ varnum' = a.varnum /\ lvarnum' = a.lvarnum
  BY DEF Allocated
<1>3. new \subseteq Var
  BY <1>2, AllocUnused
<1> HIDE DEF a, new
<1>4. Reference(new, me)
  BY DEF new, a
<1>5. \A v \in Var : refs'[v] = IF v \in new THEN refs[v] \cup {me} ELSE refs[v]
  BY <1>4 DEF Reference
<1>6. Used \cup new \subseteq Used'
  BY <1>3, <1>5 DEF Used
<1>7. Block(0, lvarnum) \subseteq fl \cup Used
  BY DEF AllKnown, NoLeak
<1>8. QED
  BY <1>1, <1>2, <1>6, <1>7 DEF AllKnown, NoLeak

(* An owner more of some variable loses none.                              *)
LEMMA ReferenceAllKnown ==
  ASSUME Inv, AllKnown, NEW me \in Owner, NEW V, Reference(V, me),
         UNCHANGED <<varnum, lvarnum, fl>>
  PROVE  AllKnown'
<1>1. Used \subseteq Used'
  BY DEF Reference, Used
<1>2. QED
  BY <1>1 DEF AllKnown, NoLeak

(* A variable whose last owner goes is free.                               *)
LEMMA UnregisterAllKnown ==
  ASSUME Inv, AllKnown, NEW me \in Owner, NEW V \in SUBSET Var, Unregister(V, me)
  PROVE  AllKnown'
<1>1. Used' = Used \ Dead(V, me) /\ fl' = fl \cup Dead(V, me) /\ UNCHANGED <<varnum, lvarnum>>
  BY UnregisterFacts
<1>2. QED
  BY <1>1 DEF AllKnown, NoLeak

(* If nobody else extends BuDDy, no step loses a variable.                 *)
LEMMA NextAllKnown ==
  ASSUME Extern = {}
  PROVE  Inv /\ AllKnown /\ [Next]_vars => AllKnown'
<1> SUFFICES ASSUME Inv, AllKnown, [Next]_vars PROVE AllKnown'
  OBVIOUS
<1>1. CASE UNCHANGED vars
  BY <1>1 DEF vars, AllKnown, NoLeak, Used
<1>2. ASSUME NEW t, NEW f, NEW me \in Owner, NewFormulaVariable(t, f, me) PROVE AllKnown'
  <2>1. allocate_variables(1).varnum <= MaxVar
    BY <1>2 DEF NewFormulaVariable, Allocated
  <2>2. Block(allocate_variables(1).base, 1) = {allocate_variables(1).base}
    BY <2>1, AllocOne DEF Block, Var
  <2>3. QED
    BY <1>2, <2>2, AllocAllKnown DEF NewFormulaVariable
<1>3. ASSUME NEW f \in Formula, NEW me \in Owner,
             register_proposition(f, me) \/ register_acceptance_variable(f, me)
      PROVE  AllKnown'
  BY <1>2, <1>3, ReferenceAllKnown
     DEF register_proposition, register_acceptance_variable, NotAllocated
<1>4. ASSUME NEW n \in 1..MaxN, NEW me \in Owner, register_anonymous_variables(n, me)
      PROVE  AllKnown'
  <2>1. CASE Fits(AnonList(me), n)
    BY <1>4, <2>1, ReferenceAllKnown DEF register_anonymous_variables, NotAllocated
  <2>2. CASE ~Fits(AnonList(me), n)
    <3>1. /\ Allocated(allocate_variables(n))
          /\ Reference(Block(allocate_variables(n).base, n), me)
      BY <1>4, <2>2 DEF register_anonymous_variables, anon_base
    <3>2. n \in Nat \ {0}
      OBVIOUS
    <3>3. QED
      BY <3>1, <3>2, AllocAllKnown
  <2>3. QED
    BY <2>1, <2>2
<1>5. ASSUME NEW v \in Var, NEW me \in Owner, unregister_variable(v, me) PROVE AllKnown'
  <2>1. {v} \in SUBSET Var /\ Unregister({v}, me)
    BY <1>5 DEF unregister_variable
  <2>2. QED
    BY <2>1, UnregisterAllKnown
<1>6. ASSUME NEW me \in Owner, unregister_all_my_variables(me) PROVE AllKnown'
  <2>1. Block(0, size) \in SUBSET Var
    BY DEF Inv, TypeOK, Block, Var
  <2>2. Unregister(Block(0, size), me)
    BY <1>6 DEF unregister_all_my_variables
  <2>3. QED
    BY <2>1, <2>2, UnregisterAllKnown
<1>7. ASSUME NEW from_other \in Owner, NEW me \in Owner,
             register_all_variables_of(from_other, me)
      PROVE  AllKnown'
  BY <1>7, ReferenceAllKnown DEF register_all_variables_of
<1>8. QED
  BY <1>1, <1>3, <1>4, <1>5, <1>6, <1>7 DEF Next, Others

(* When the dictionary is the only user of BuDDy's variables, no variable  *)
(* is ever lost: each one is in use or can be handed out again.            *)
THEOREM NothingIsLost ==
  ASSUME Extern = {}
  PROVE  Spec => []NoLeak
<1>1. Init => Inv /\ AllKnown
  BY InitInv DEF Init, AllKnown, NoLeak
<1>2. Inv /\ AllKnown /\ [Next]_vars => (Inv /\ AllKnown)'
  BY NextInv, NextAllKnown
<1>3. Inv /\ AllKnown => NoLeak
  BY DEF AllKnown
<1>4. QED
  BY <1>1, <1>2, <1>3, PTL DEF Spec
=============================================================================
