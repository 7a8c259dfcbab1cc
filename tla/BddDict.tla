------------------------------ MODULE BddDict ------------------------------
(***************************************************************************)
(* bdd_dict (spot/twa/bdddict.cc): who uses which BDD variable, and for    *)
(* what.  Variables come from a bdd_allocator (spot/priv/bddalloc.cc) that *)
(* sits on the process-wide variable count of BuDDy.  A variable stands    *)
(* for an atomic proposition, an acceptance set, or is anonymous; the      *)
(* anonymous variables are shared between owners, each of which keeps its  *)
(* own list of those it does not use yet.                                  *)
(***************************************************************************)
EXTENDS FreeSet

CONSTANTS
  Owner,      \* the objects that use variables (for_me, me, from_other)
  nullptr,    \* the key of the list new owners copy
  Formula,    \* the propositions and acceptance sets
  nil,        \* formula(nullptr)
  MaxVar,     \* bound on BuDDy's variable count
  MaxN,       \* bound on the variables asked for at once
  InitVarnum, \* BuDDy's variable counts when the dictionary may be created
  Extern      \* how much other users of BuDDy may extend the count at once

ASSUME BddDictAssumption ==
  /\ nullptr \notin Owner /\ nil \notin Formula
  /\ MaxVar \in Nat /\ MaxN \in Nat
  /\ InitVarnum \subseteq 0..MaxVar /\ Extern \subseteq Nat

Var == 0 .. (MaxVar - 1)

Key == Owner \cup {nullptr}

VARIABLES
  varnum,    \* bdd_varnum(), shared by the whole process
  lvarnum,   \* bdd_allocator::lvarnum
  fl,        \* bdd_allocator::fl, as a set
  size,      \* bdd_map.size()
  type,      \* bdd_map[v].type
  form,      \* bdd_map[v].f
  refs,      \* bdd_map[v].refs
  var_map,   \* the variable of each proposition, -1 for none
  acc_map,   \* the variable of each acceptance set, -1 for none
  lists,     \* the keys of free_anonymous_list_of
  anon_fl,   \* the anonymous variables on each of its lists
  priv       \* the keys whose list has a non-null priv_

vars == <<varnum, lvarnum, fl, size, type, form, refs, var_map, acc_map,
          lists, anon_fl, priv>>

Init ==
  /\ varnum \in InitVarnum /\ lvarnum = varnum /\ size = varnum
  /\ fl = Block(0, varnum)
  /\ type = [v \in Var |-> "anon"] /\ form = [v \in Var |-> nil]
  /\ refs = [v \in Var |-> {}]
  /\ var_map = [f \in Formula |-> -1] /\ acc_map = [f \in Formula |-> -1]
  /\ lists = {nullptr} /\ priv = {nullptr}
  /\ anon_fl = [k \in Key |-> {}]

-----------------------------------------------------------------------------
(* bdd_allocator                                                           *)

(* extend(): the first of the free variables at the end of the variable    *)
(* space, to which only the difference has to be added.                    *)
TailStart ==
  CHOOSE b \in 0..lvarnum :
    (b .. (lvarnum - 1)) \subseteq fl /\ b - 1 \notin fl

(* extvarnum(more): BuDDy's count afterwards.  What others added to it     *)
(* since the last time is used first.                                      *)
extvarnum(more) ==
  LET missing == more - (varnum - lvarnum)
  IN  IF missing > 0 THEN varnum + missing ELSE varnum

(* Mutant: extend() asks for n new variables after the free ones at the end.*)
allocate_variables_Surplus(n) ==
  IF Fits(fl, n)
  THEN LET b == BestFit(fl, n)
       IN  [base |-> b, fl |-> fl \ Block(b, n), varnum |-> varnum, lvarnum |-> lvarnum]
  ELSE LET b == TailStart
           m == extvarnum(n)
       IN  [base |-> b, fl |-> fl \ (b .. (lvarnum - 1)), varnum |-> m, lvarnum |-> m]

(* allocate_variables(n): register_n(n) on fl.                             *)
allocate_variables(n) ==
  IF Fits(fl, n)
  THEN LET b == BestFit(fl, n)
       IN  [base |-> b, fl |-> fl \ Block(b, n), varnum |-> varnum, lvarnum |-> lvarnum]
  ELSE LET b == TailStart
           m == extvarnum(n - (lvarnum - b))
       IN  [base |-> b, fl |-> fl \ (b .. (lvarnum - 1)), varnum |-> m, lvarnum |-> m]

Allocated(a) ==
  /\ a.varnum <= MaxVar
  /\ fl' = a.fl /\ varnum' = a.varnum /\ lvarnum' = a.lvarnum

NotAllocated == UNCHANGED <<fl, varnum, lvarnum>>

(* Another allocator, or another library, calls bdd_extvarnum().           *)
ExtVarNum(k) ==
  /\ varnum + k <= MaxVar
  /\ varnum' = varnum + k
  /\ UNCHANGED <<lvarnum, fl, size, type, form, refs, var_map, acc_map,
                 lists, anon_fl, priv>>

-----------------------------------------------------------------------------
(* Registration                                                            *)

(* bdd_map[v].refs.insert(me) for each v of V.                             *)
Reference(V, me) ==
  refs' = [v \in Var |-> IF v \in V THEN refs[v] \cup {me} ELSE refs[v]]

(* The common part of register_proposition and register_acceptance_variable*)
(* when the formula is new.                                                *)
NewFormulaVariable(t, f, me) ==
  LET a == allocate_variables(1)
  IN  /\ Allocated(a)
      /\ size' = varnum'
      /\ type' = [type EXCEPT ![a.base] = t]
      /\ form' = [form EXCEPT ![a.base] = f]
      /\ Reference({a.base}, me)

register_proposition(f, me) ==
  /\ \/ /\ var_map[f] # -1
        /\ Reference({var_map[f]}, me)
        /\ NotAllocated /\ UNCHANGED <<size, type, form, var_map>>
     \/ /\ var_map[f] = -1
        /\ NewFormulaVariable("var", f, me)
        /\ var_map' = [var_map EXCEPT ![f] = allocate_variables(1).base]
  /\ UNCHANGED <<acc_map, lists, anon_fl, priv>>

register_acceptance_variable(f, me) ==
  /\ \/ /\ acc_map[f] # -1
        /\ Reference({acc_map[f]}, me)
        /\ NotAllocated /\ UNCHANGED <<size, type, form, acc_map>>
     \/ /\ acc_map[f] = -1
        /\ NewFormulaVariable("acc", f, me)
        /\ acc_map' = [acc_map EXCEPT ![f] = allocate_variables(1).base]
  /\ UNCHANGED <<var_map, lists, anon_fl, priv>>

(* Mutant: always a copy of the list of nullptr.                           *)
AnonList_Copy(me) == anon_fl[nullptr]

(* The anonymous variables me may take: its own list, or a copy of the     *)
(* list of nullptr.                                                        *)
AnonList(me) == anon_fl[IF me \in lists THEN me ELSE nullptr]

(* What register_anonymous_variables(n, me) returns.                       *)
anon_base(n, me) ==
  IF Fits(AnonList(me), n) THEN BestFit(AnonList(me), n)
                           ELSE allocate_variables(n).base

(* Mutant: extend() does not tell the list of nullptr.                     *)
register_anonymous_variables_Untold(n, me) ==
  LET new == Block(anon_base(n, me), n)
  IN  /\ \/ /\ Fits(AnonList(me), n)
            /\ anon_fl' = [anon_fl EXCEPT ![me] = AnonList(me) \ new]
            /\ NotAllocated
         \/ /\ ~Fits(AnonList(me), n)
            /\ Allocated(allocate_variables(n))
            /\ anon_fl' = [k \in Key |-> IF k = me THEN AnonList(me)
                                         ELSE IF k \in lists \ {nullptr}
                                         THEN anon_fl[k] \cup new
                                         ELSE anon_fl[k]]
      /\ lists' = lists \cup {me}
      /\ priv' = IF me \in lists THEN priv ELSE priv \cup {me}
      /\ size' = varnum'
      /\ type' = [v \in Var |-> IF v \in new THEN "anon" ELSE type[v]]
      /\ Reference(new, me)
      /\ UNCHANGED <<form, var_map, acc_map>>

(* register_n() on the list of me; anon_free_list::extend() tells all the  *)
(* other lists of the new variables.                                       *)
register_anonymous_variables(n, me) ==
  LET new == Block(anon_base(n, me), n)
  IN  /\ \/ /\ Fits(AnonList(me), n)
            /\ anon_fl' = [anon_fl EXCEPT ![me] = AnonList(me) \ new]
            /\ NotAllocated
         \/ /\ ~Fits(AnonList(me), n)
            /\ Allocated(allocate_variables(n))
            /\ anon_fl' = [k \in Key |-> IF k = me THEN AnonList(me)
                                         ELSE IF k \in lists THEN anon_fl[k] \cup new
                                         ELSE anon_fl[k]]
      /\ lists' = lists \cup {me}
      /\ priv' = IF me \in lists THEN priv ELSE priv \cup {me}
      /\ size' = varnum'
      /\ type' = [v \in Var |-> IF v \in new THEN "anon" ELSE type[v]]
      /\ Reference(new, me)
      /\ UNCHANGED <<form, var_map, acc_map>>

(* me uses the variables of from_other, and gets its list of anonymous     *)
(* variables, if it has one, in place of its own.                          *)
register_all_variables_of(from_other, me) ==
  /\ Reference({v \in Var : from_other \in refs[v]}, me)
  /\ IF from_other \in lists
     THEN /\ lists' = lists \cup {me}
          /\ anon_fl' = [anon_fl EXCEPT ![me] = anon_fl[from_other]]
          /\ priv' = IF from_other \in priv THEN priv \cup {me} ELSE priv \ {me}
     ELSE UNCHANGED <<lists, anon_fl, priv>>
  /\ UNCHANGED <<varnum, lvarnum, fl, size, type, form, var_map, acc_map>>

-----------------------------------------------------------------------------
(* Unregistration                                                          *)

(* unregister_variable(v, me) for each v of V, whatever the order: the     *)
(* variables me used, those it was the last to use, and the anonymous ones.*)
Mine(V, me) == {v \in V : me \in refs[v]}

(* Mutant: a variable dies with the first of its owners.                   *)
Dead_First(V, me) == {v \in V : me \in refs[v]}

Dead(V, me) == {v \in V : refs[v] = {me}}

Anon(V, me) == {v \in Mine(V, me) : type[v] = "anon"}

(* Mutant: var_map keeps the propositions nobody uses.                     *)
Unregister_KeepsMap(V, me) ==
  LET dead == Dead(V, me)
      names(t) == {form[v] : v \in {d \in dead : type[d] = t}}
  IN  /\ refs' = [v \in Var |-> IF v \in Mine(V, me) THEN refs[v] \ {me} ELSE refs[v]]
      /\ type' = [v \in Var |-> IF v \in dead THEN "anon" ELSE type[v]]
      /\ form' = [v \in Var |-> IF v \in dead THEN nil ELSE form[v]]
      /\ acc_map' = [f \in Formula |-> IF f \in names("acc") THEN -1 ELSE acc_map[f]]
      /\ fl' = fl \cup dead
      /\ UNCHANGED <<varnum, lvarnum, size, var_map>>

(* A variable nobody uses any more leaves the maps and returns to the      *)
(* allocator.                                                              *)
Unregister(V, me) ==
  LET dead == Dead(V, me)
      names(t) == {form[v] : v \in {d \in dead : type[d] = t}}
  IN  /\ refs' = [v \in Var |-> IF v \in Mine(V, me) THEN refs[v] \ {me} ELSE refs[v]]
      /\ type' = [v \in Var |-> IF v \in dead THEN "anon" ELSE type[v]]
      /\ form' = [v \in Var |-> IF v \in dead THEN nil ELSE form[v]]
      /\ var_map' = [f \in Formula |-> IF f \in names("var") THEN -1 ELSE var_map[f]]
      /\ acc_map' = [f \in Formula |-> IF f \in names("acc") THEN -1 ELSE acc_map[f]]
      /\ fl' = fl \cup dead
      /\ UNCHANGED <<varnum, lvarnum, size>>

(* me's anonymous variables go to its list, and to none if nobody uses     *)
(* them any more.                                                          *)
Released(V, me) ==
  [k \in Key |-> (IF k = me THEN anon_fl[k] \cup Anon(V, me) ELSE anon_fl[k])
                   \ (Dead(V, me) \cap Anon(V, me))]

(* free_anonymous_list_of[me] creates the list if need be, without priv_.  *)
unregister_variable(v, me) ==
  /\ v < size
  /\ Unregister({v}, me)
  /\ lists' = IF Anon({v}, me) = {} THEN lists ELSE lists \cup {me}
  /\ anon_fl' = Released({v}, me)
  /\ UNCHANGED priv

(* The loop over all variables, then free_anonymous_list_of.erase(me).     *)
unregister_all_my_variables(me) ==
  /\ Unregister(Block(0, size), me)
  /\ lists' = lists \ {me}
  /\ anon_fl' = [Released(Block(0, size), me) EXCEPT ![me] = {}]
  /\ priv' = priv \ {me}

-----------------------------------------------------------------------------
(* Everything but register_all_variables_of.                               *)
Others ==
  \/ \E k \in Extern : ExtVarNum(k)
  \/ \E f \in Formula, me \in Owner : register_proposition(f, me)
  \/ \E f \in Formula, me \in Owner : register_acceptance_variable(f, me)
  \/ \E n \in 1..MaxN, me \in Owner : register_anonymous_variables(n, me)
  \/ \E v \in Var, me \in Owner : unregister_variable(v, me)
  \/ \E me \in Owner : unregister_all_my_variables(me)

Next ==
  \/ Others
  \/ \E from_other, me \in Owner : register_all_variables_of(from_other, me)

Spec == Init /\ [][Next]_vars

(* The discipline under which anonymous variables are new to their owner:  *)
(* an object duplicates the variables of another one before it has         *)
(* anonymous variables of its own, as the constructors do that do it once. *)
OwnsAnon(me) == \E v \in Var : me \in refs[v] /\ type[v] = "anon"

DisciplinedNext ==
  \/ Others
  \/ \E from_other, me \in Owner :
       ~OwnsAnon(me) /\ register_all_variables_of(from_other, me)

DisciplinedSpec == Init /\ [][DisciplinedNext]_vars

-----------------------------------------------------------------------------
(* The type of the dictionary, whose counts follow that of BuDDy: nothing  *)
(* beyond lvarnum is ever free, and the list of nullptr always exists.     *)
TypeOK ==
  /\ varnum \in 0..MaxVar /\ lvarnum \in 0..varnum /\ size \in 0..varnum
  /\ fl \subseteq Block(0, lvarnum)
  /\ type \in [Var -> {"anon", "var", "acc"}]
  /\ form \in [Var -> Formula \cup {nil}]
  /\ refs \in [Var -> SUBSET Owner]
  /\ var_map \in [Formula -> Var \cup {-1}]
  /\ acc_map \in [Formula -> Var \cup {-1}]
  /\ nullptr \in lists /\ lists \subseteq Key /\ priv \subseteq lists
  /\ anon_fl \in [Key -> SUBSET Var]

Used == {v \in Var : refs[v] # {}}

(* A variable the allocator may hand out is used by nobody, for nothing,   *)
(* and no owner can pick it up as an anonymous variable: every variable in *)
(* use is inside bdd_map and was counted by the allocator.                 *)
FreeIsUnused ==
  /\ Used \subseteq Block(0, lvarnum) /\ Used \subseteq Block(0, size)
  /\ \A v \in fl : /\ v \notin Used /\ type[v] = "anon" /\ form[v] = nil
                   /\ \A k \in Key : v \notin anon_fl[k]

(* The list of nullptr, copied for each new owner, holds exactly the       *)
(* anonymous variables somebody uses; an owner's list holds some of them.  *)
AnonListsAreLive ==
  /\ anon_fl[nullptr] = {v \in Used : type[v] = "anon"}
  /\ \A k \in Key : anon_fl[k] \subseteq anon_fl[nullptr]

(* "We should ensure that no object in the hash is constructed with p==0": *)
(* every list can be extended, because whoever uses an anonymous variable  *)
(* already has a list.                                                     *)
NoNullPriv ==
  /\ priv = lists
  /\ \A v \in Used : type[v] = "anon" => refs[v] \subseteq lists

(* var_map and acc_map are the inverse of what bdd_map says of the         *)
(* variables in use: no two variables for a formula, none without an       *)
(* owner, so that assert_emptiness() holds once all owners are gone.       *)
MapsAgree ==
  /\ \A f \in Formula, v \in Var :
       /\ var_map[f] = v <=> type[v] = "var" /\ form[v] = f
       /\ acc_map[f] = v <=> type[v] = "acc" /\ form[v] = f
  /\ \A v \in Var : type[v] # "anon" => v \in Used /\ form[v] \in Formula

(* As long as an owner keeps a variable, the variable keeps its meaning:   *)
(* the BDDs it has built still mean the same.                              *)
MeaningIsStable ==
  [][\A v \in Var : refs[v] \cap refs'[v] # {}
                      => type'[v] = type[v] /\ form'[v] = form[v]]_vars

(* No variable is lost: each one is free, in use, or not counted yet.  (If *)
(* nobody else extends BuDDy.)                                             *)
NoLeak == Block(0, lvarnum) \subseteq fl \cup Used

(* The variables register_anonymous_variables() returns are new to the     *)
(* object that asks for them.                                              *)
FreshForMe ==
  [][\A n \in 1..MaxN, me \in Owner :
       register_anonymous_variables(n, me) =>
         \A v \in Block(anon_base(n, me), n) : me \notin refs[v]]_vars
=============================================================================
