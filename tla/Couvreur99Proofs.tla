-------------------------- MODULE Couvreur99Proofs --------------------------
(***************************************************************************)
(* Couvreur's emptiness check, with all its options, for any automaton     *)
(* with finitely many states and edges and any acceptance condition: the   *)
(* run it computes is accepting, the components on root are strongly       *)
(* connected, dead states lead only to dead ones, and the answer is right. *)
(***************************************************************************)
EXTENDS Couvreur99Result, NdfsStackProofs

-----------------------------------------------------------------------------
(* Walks                                                                   *)

(* c follows edges of E.                                                   *)
Walk(E, c) == c \in Seq(E) /\ \A i \in 1 .. Len(c) - 1 : c[i].dst = c[i + 1].src

(* What bfs_steps::search() returns is a walk from start to a match.       *)
LEMMA SearchFacts ==
  ASSUME NEW E, NEW start, NEW matches, IsFiniteSet(State), NEW p \in search(E, start, matches)
  PROVE  Walk(E, p) /\ p # << >> /\ p[1].src = start /\ Last(p) \in matches
<1>1. Cardinality(State) \in Nat
  BY FS_CardinalityType
<1>2. PICK n \in 1 .. Cardinality(State) : p \in PathsFrom(E, start, n) /\ p[n] \in matches
  BY DEF search
<1>3. n \in Nat \ {0} /\ p \in [1 .. n -> E] /\ p[1].src = start
      /\ \A i \in 1 .. n - 1 : p[i].dst = p[i + 1].src
  BY <1>1, <1>2 DEF PathsFrom
<1>4. p \in Seq(E) /\ Len(p) = n
  BY <1>3
<1>5. QED
  BY <1>2, <1>3, <1>4 DEF Walk, Last

(* Two walks, the second of which starts where the first one ends.         *)
LEMMA JoinWalks ==
  ASSUME NEW E, NEW c, Walk(E, c), NEW p, Walk(E, p), p # << >>,
         c # << >> => Last(c).dst = p[1].src
  PROVE  /\ Walk(E, c \o p) /\ c \o p # << >> /\ Last(c \o p) = Last(p)
         /\ (c \o p)[1] = IF c = << >> THEN p[1] ELSE c[1]
         /\ ToSet(c \o p) = ToSet(c) \cup ToSet(p)
<1> DEFINE j == c \o p
           n == Len(c)
           m == Len(p)
<1>1. /\ c \in Seq(E) /\ p \in Seq(E) /\ n \in Nat /\ m \in Nat \ {0}
      /\ \A i \in 1 .. n - 1 : c[i].dst = c[i + 1].src
      /\ \A i \in 1 .. m - 1 : p[i].dst = p[i + 1].src
      /\ DOMAIN c = 1 .. n /\ DOMAIN p = 1 .. m
      /\ n > 0 <=> c # << >>
  BY DEF Walk
<1>2. /\ j \in Seq(E) /\ Len(j) = n + m /\ DOMAIN j = 1 .. n + m
      /\ \A i \in 1 .. n : j[i] = c[i]
      /\ \A i \in 1 .. m : j[n + i] = p[i]
  BY <1>1
<1> HIDE DEF j, n, m
<1>3. ASSUME NEW i \in 1 .. Len(j) - 1 PROVE j[i].dst = j[i + 1].src
  <2>1. CASE i < n
    <3>1. i \in 1 .. n - 1 /\ i \in 1 .. n /\ i + 1 \in 1 .. n
      BY <1>1, <2>1
    <3>2. QED
      BY <1>1, <1>2, <3>1
  <2>2. CASE i = n
    <3>1. j[i] = Last(c) /\ j[i + 1] = p[1] /\ c # << >>
      BY <1>1, <1>2, <2>2 DEF Last, n
    <3>2. QED
      BY <3>1
  <2>3. CASE i > n
    <3>1. PICK k \in 1 .. m - 1 : i = n + k
      <4>1. i - n \in 1 .. m - 1 /\ i = n + (i - n)
        BY <1>1, <1>2, <2>3
      <4>2. QED
        BY <4>1
    <3>2. j[i] = p[k] /\ j[i + 1] = p[k + 1]
      BY <1>1, <1>2, <3>1
    <3>3. QED
      BY <1>1, <3>1, <3>2
  <2>4. QED
    BY <1>1, <1>2, <2>1, <2>2, <2>3
<1>4. ToSet(j) = ToSet(c) \cup ToSet(p)
  <2>1. \A x \in ToSet(j) : x \in ToSet(c) \cup ToSet(p)
    <3> SUFFICES ASSUME NEW i \in 1 .. n + m PROVE j[i] \in ToSet(c) \cup ToSet(p)
      BY <1>2 DEF ToSet
    <3>1. CASE i \in 1 .. n
      BY <1>1, <1>2, <3>1 DEF ToSet
    <3>2. CASE i - n \in 1 .. m
      <4>1. j[i] = p[i - n]
        BY <1>1, <1>2, <3>2
      <4>2. QED
        BY <1>1, <3>2, <4>1 DEF ToSet
    <3>3. QED
      BY <1>1, <3>1, <3>2
  <2>2. ASSUME NEW i \in 1 .. n PROVE c[i] \in ToSet(j)
    <3>1. i \in 1 .. n + m /\ c[i] = j[i]
      BY <1>1, <1>2
    <3>2. QED
      BY <1>2, <3>1 DEF ToSet
  <2>3. ASSUME NEW i \in 1 .. m PROVE p[i] \in ToSet(j)
    <3>1. n + i \in 1 .. n + m /\ p[i] = j[n + i]
      BY <1>1, <1>2
    <3>2. QED
      BY <1>2, <3>1 DEF ToSet
  <2>4. QED
    BY <1>1, <2>1, <2>2, <2>3 DEF ToSet
<1>5. Last(j) = Last(p) /\ j # << >> /\ j[1] = IF c = << >> THEN p[1] ELSE c[1]
  BY <1>1, <1>2 DEF Last, m
<1>6. QED
  BY <1>2, <1>3, <1>4, <1>5 DEF Walk, j

(* A closed walk, shifted so that it starts in one of its states.          *)
LEMMA ShiftWalk ==
  ASSUME NEW E, Walk(E, cycle), cycle # << >>, Last(cycle).dst = cycle[1].src,
         NEW s \in OnCycle
  PROVE  LET c == Shifted(s)
         IN  /\ Walk(E, c) /\ c # << >> /\ c[1].src = s /\ Last(c).dst = s
             /\ ToSet(c) = ToSet(cycle)
<1> DEFINE n == Len(cycle)
           I == {i \in 1 .. n : cycle[i].src = s}
           k == SelectInSeq(cycle, LAMBDA e : e.src = s)
<1>1. /\ cycle \in Seq(E) /\ n \in Nat \ {0} /\ DOMAIN cycle = 1 .. n
      /\ \A i \in 1 .. n - 1 : cycle[i].dst = cycle[i + 1].src
  BY DEF Walk
<1>2. I # {} /\ I \in SUBSET Nat
  BY <1>1 DEF OnCycle, ToSet
<1>3. k = CHOOSE x \in I : \A y \in I : x <= y
  BY <1>2, Zenon DEF SelectInSeq, Min
<1>4. k \in I
  <2>1. \E x \in I : \A y \in I : x <= y
    BY <1>2, LeastNumber
  <2> HIDE DEF I, k
  <2>2. QED
    BY <1>3, <2>1, Zenon
<1> DEFINE a == SubSeq(cycle, k, n)
           b == SubSeq(cycle, 1, k - 1)
<1>5. Shifted(s) = a \o b
  BY Zenon DEF Shifted
<1>6. k \in 1 .. n /\ cycle[k].src = s
  BY <1>4
<1> HIDE DEF k, I
<1>7. /\ Walk(E, a) /\ a # << >> /\ a[1] = cycle[k] /\ Last(a) = cycle[n]
      /\ Len(a) = n - k + 1 /\ \A i \in 1 .. n - k + 1 : a[i] = cycle[k + i - 1]
  <2>1. a \in Seq(E) /\ Len(a) = n - k + 1 /\ \A i \in 1 .. n - k + 1 : a[i] = cycle[k + i - 1]
    <3>1. k \in Int /\ n \in Int /\ k <= n /\ \A i \in k .. n : cycle[i] \in E
      BY <1>1, <1>6
    <3>2. QED
      BY ONLY <3>1, SubSeqProperties
  <2> HIDE DEF a, n
  <2>2. ASSUME NEW i \in 1 .. Len(a) - 1 PROVE a[i].dst = a[i + 1].src
    <3>1. /\ k + i - 1 \in 1 .. n - 1 /\ a[i] = cycle[k + i - 1]
          /\ a[i + 1] = cycle[(k + i - 1) + 1]
      BY <1>1, <1>6, <2>1
    <3>2. QED
      BY <1>1, <3>1
  <2>3. a # << >> /\ a[1] = cycle[k] /\ Last(a) = cycle[n]
    BY <1>1, <1>6, <2>1 DEF Last
  <2>4. QED
    BY <2>1, <2>2, <2>3 DEF Walk
<1>8. /\ Walk(E, b) /\ Len(b) = k - 1 /\ \A i \in 1 .. k - 1 : b[i] = cycle[i]
      /\ b # << >> => b[1] = cycle[1] /\ Last(b) = cycle[k - 1] /\ k - 1 \in 1 .. n - 1
  <2>1. b \in Seq(E) /\ Len(b) = k - 1 /\ \A i \in 1 .. k - 1 : b[i] = cycle[i]
    BY <1>1, <1>6
  <2>2. b # << >> => k - 1 \in 1 .. n - 1
    BY <1>1, <1>6
  <2> HIDE DEF b, n
  <2>3. QED
    BY <1>1, <1>6, <2>1, <2>2 DEF Walk, Last
<1>9. Last(cycle) = cycle[n]
  BY DEF Last
<1>10. ToSet(a) \cup ToSet(b) = ToSet(cycle)
  <2>1. DOMAIN a = 1 .. n - k + 1 /\ DOMAIN b = 1 .. k - 1
    BY <1>1, <1>6, <1>7, <1>8 DEF Walk
  <2> HIDE DEF a, b, n
  <2>2. ASSUME NEW i \in 1 .. n PROVE cycle[i] \in ToSet(a) \cup ToSet(b)
    <3>1. CASE i < k
      <4>1. i \in 1 .. k - 1 /\ b[i] = cycle[i]
        BY <1>1, <1>6, <1>8, <3>1
      <4>2. QED
        BY <2>1, <4>1 DEF ToSet
    <3>2. CASE i >= k
      <4>1. i - k + 1 \in 1 .. n - k + 1 /\ a[i - k + 1] = cycle[i]
        BY <1>1, <1>6, <1>7, <3>2
      <4>2. QED
        BY <2>1, <4>1 DEF ToSet
    <3>3. QED
      BY <1>6, <1>1, <3>1, <3>2
  <2>3. ASSUME NEW i \in 1 .. n - k + 1 PROVE a[i] \in ToSet(cycle)
    <3>1. a[i] = cycle[k + i - 1] /\ k + i - 1 \in 1 .. n
      BY <1>1, <1>6, <1>7
    <3>2. QED
      BY <1>1, <3>1 DEF ToSet
  <2>4. ASSUME NEW i \in 1 .. k - 1 PROVE b[i] \in ToSet(cycle)
    <3>1. b[i] = cycle[i] /\ i \in 1 .. n
      BY <1>1, <1>6, <1>8
    <3>2. QED
      BY <1>1, <3>1 DEF ToSet
  <2>5. QED
    BY <1>1, <2>1, <2>2, <2>3, <2>4 DEF ToSet
<1>11. CASE b = << >>
  <2> HIDE DEF a, b, n
  <2>1. a \o b = a /\ ToSet(b) = {}
    BY <1>7, <1>11 DEF Walk, ToSet
  <2>2. k = 1
    BY <1>8, <1>11, <1>6
  <2>3. QED
    BY <1>5, <1>6, <1>7, <1>9, <1>10, <2>1, <2>2
<1>12. CASE b # << >>
  <2> HIDE DEF a, b, n
  <2>1. Last(a).dst = b[1].src /\ Last(b).dst = s /\ a[1].src = s
    BY <1>1, <1>6, <1>7, <1>8, <1>9, <1>12
  <2>2. Walk(E, a) /\ Walk(E, b) /\ a # << >>
    BY <1>7, <1>8
  <2>3. /\ Walk(E, a \o b) /\ a \o b # << >> /\ Last(a \o b) = Last(b)
        /\ (a \o b)[1] = a[1] /\ ToSet(a \o b) = ToSet(a) \cup ToSet(b)
    BY <1>12, <2>1, <2>2, JoinWalks
  <2>4. QED
    BY <1>5, <1>10, <2>1, <2>3
<1>13. QED
  BY <1>11, <1>12

-----------------------------------------------------------------------------
(* The run                                                                 *)

(* The cycle so far is a walk from cycle_seed to substart, and some set    *)
(* that satisfies the condition is in the marks seen or still sought.      *)
CycleInv ==
  /\ Walk(Live(edges), cycle)
  /\ substart = IF cycle = << >> THEN cycle_seed ELSE Last(cycle).dst
  /\ cycle # << >> => cycle[1].src = cycle_seed
  /\ \E m \in Sat : m \subseteq acc_to_traverse \cup Marks(ToSet(cycle))
  /\ pc = "prefix" => cycle # << >> /\ acc_to_traverse = {} /\ substart = cycle_seed

RunInv ==
  /\ edges \subseteq Edge
  /\ pc \in {"call", "loop", "idle", "cycle", "prefix", "done"}
  /\ pc \in {"call", "loop", "idle"} => cycle = << >>
  /\ pc # "call" => ~uses_fin_acceptance
  /\ pc \in {"cycle", "prefix"} => CycleInv
  /\ RunIsAccepting

(* The steps of check() do not touch the run.                              *)
LEMMA CheckKeepsRun ==
  ASSUME RunInv, check \/ shy_check, UNCHANGED run
  PROVE  RunInv'
<1>1. /\ pc \in {"call", "loop"} /\ pc' \in {"loop", "idle"} /\ edges' = edges /\ cycle' = cycle
      /\ ~uses_fin_acceptance \/ pc = "loop"
  <2>1. CASE check
    BY <2>1, Zenon DEF check, Check, Return, Backtrack, Skip, NewState, Dead, Merge, ReturnNull,
       On, Loop, run
  <2>2. CASE shy_check
    BY <2>2, Zenon DEF shy_check, ShyCheck, Return, ShyBacktrack, ShySkip, ShyNew, ShyDead, ShyMerge,
       ShyReturnNull, Considered, ShyLoop, base, run
  <2>3. QED
    BY <2>1, <2>2
<1>2. ~uses_fin_acceptance
  BY <1>1 DEF RunInv
<1>3. uses_fin_acceptance' <=> uses_fin_acceptance
  BY DEF uses_fin_acceptance
<1>4. QED
  BY <1>1, <1>2, <1>3 DEF RunInv, RunIsAccepting

(* accepting_run() starts with no edge, and all the marks to traverse.     *)
LEMMA StartKeepsRun ==
  ASSUME RunInv, accepting_run
  PROVE  RunInv'
<1>1. /\ pc = "idle" /\ pc' = "cycle" /\ edges' = edges /\ cycle = << >> /\ cycle' = << >>
      /\ acc_to_traverse' \in Sat /\ substart' = cycle_seed' /\ ~uses_fin_acceptance
  BY DEF accepting_run, accepting_sets, RunInv
<1>2. Walk(Live(edges)', cycle')
  BY <1>1 DEF Walk
<1>3. CycleInv'
  BY <1>1, <1>2 DEF CycleInv
<1>4. uses_fin_acceptance' <=> uses_fin_acceptance
  BY DEF uses_fin_acceptance
<1>5. QED
  BY <1>1, <1>3, <1>4 DEF RunInv, RunIsAccepting

(* A round of accepting_cycle() extends the walk.                          *)
LEMMA CycleKeepsRun ==
  ASSUME IsFiniteSet(State), RunInv, accepting_cycle
  PROVE  RunInv'
<1> DEFINE L == Live(edges)
<1>1. PICK p \in search(InLast, substart, SccMatches) :
         /\ cycle' = cycle \o p
         /\ acc_to_traverse' = acc_to_traverse \ Last(p).acc
         /\ substart' = Last(p).dst
  BY Zenon DEF accepting_cycle
<1>2. /\ pc = "cycle" /\ edges' = edges /\ cycle_seed' = cycle_seed
      /\ pc' = IF acc_to_traverse' = {} /\ substart' = cycle_seed THEN "prefix" ELSE "cycle"
  BY DEF accepting_cycle
<1>3. CycleInv /\ ~uses_fin_acceptance /\ edges \subseteq Edge
  BY <1>2 DEF RunInv
<1>4. Walk(L, p) /\ p # << >> /\ p[1].src = substart /\ Last(p) \in ToSet(p)
  <2>1. Walk(InLast, p) /\ p # << >> /\ p[1].src = substart
    BY SearchFacts
  <2>2. InLast \subseteq L
    BY DEF InLast
  <2>3. p \in Seq(L) /\ Len(p) \in DOMAIN p
    BY <2>1, <2>2 DEF Walk
  <2>4. QED
    BY <2>1, <2>3 DEF Walk, Last, ToSet
<1>5. /\ Walk(L, cycle') /\ cycle' # << >> /\ Last(cycle') = Last(p)
      /\ cycle'[1].src = cycle_seed /\ ToSet(cycle') = ToSet(cycle) \cup ToSet(p)
  <2>1. Walk(L, cycle) /\ (cycle # << >> => Last(cycle).dst = p[1].src)
    BY <1>3, <1>4 DEF CycleInv
  <2> HIDE DEF L
  <2>2. /\ Walk(L, cycle \o p) /\ cycle \o p # << >> /\ Last(cycle \o p) = Last(p)
        /\ (cycle \o p)[1] = IF cycle = << >> THEN p[1] ELSE cycle[1]
        /\ ToSet(cycle \o p) = ToSet(cycle) \cup ToSet(p)
    BY <2>1, <1>4, JoinWalks
  <2>3. QED
    BY <1>1, <1>3, <1>4, <2>2 DEF CycleInv
<1>6. \E m \in Sat : m \subseteq acc_to_traverse' \cup Marks(ToSet(cycle'))
  <2>1. PICK m \in Sat : m \subseteq acc_to_traverse \cup Marks(ToSet(cycle))
    BY <1>3 DEF CycleInv
  <2>2. Last(p).acc \cup Marks(ToSet(cycle)) \subseteq Marks(ToSet(cycle'))
    BY <1>4, <1>5 DEF Marks
  <2>3. QED
    BY <1>1, <2>1, <2>2
<1>7. CycleInv'
  BY <1>1, <1>2, <1>5, <1>6 DEF CycleInv
<1>8. uses_fin_acceptance' <=> uses_fin_acceptance
  BY DEF uses_fin_acceptance
<1>9. QED
  BY <1>2, <1>3, <1>7, <1>8 DEF RunInv, RunIsAccepting

(* More marks never hurt.                                                  *)
LEMMA MoreMarks ==
  ASSUME ~uses_fin_acceptance, NEW m \in Sat, NEW n \in SUBSET Mark, m \subseteq n
  PROVE  accepting(n)
BY DEF uses_fin_acceptance, accepting

(* The prefix leads to the cycle.                                          *)
LEMMA PrefixKeepsRun ==
  ASSUME IsFiniteSet(State), RunInv, ComputePrefix
  PROVE  RunInv'
<1> DEFINE L == Live(edges)
<1>1. /\ pc = "prefix" /\ pc' = "done" /\ edges' = edges
      /\ CycleInv /\ ~uses_fin_acceptance /\ edges \subseteq Edge
  BY DEF ComputePrefix, RunInv
<1>2. Walk(L, cycle) /\ cycle # << >> /\ Last(cycle).dst = cycle[1].src
  BY <1>1 DEF CycleInv
<1>3. accepting(Marks(ToSet(cycle)))
  <2>1. PICK m \in Sat : m \subseteq Marks(ToSet(cycle))
    BY <1>1 DEF CycleInv
  <2>2. ToSet(cycle) \subseteq L /\ L \subseteq Edge
    BY <1>1, <1>2 DEF Walk, ToSet, Live
  <2>3. Marks(ToSet(cycle)) \in SUBSET Mark
    BY <2>2 DEF Marks, Edge
  <2>4. QED
    BY <1>1, <2>1, <2>3, MoreMarks
<1> DEFINE Leads(s) ==
             /\ cycle' = Shifted(s)
             /\ Walk(L, prefix')
             /\ IF prefix' = << >> THEN s = s0
                ELSE prefix'[1].src = s0 /\ Last(prefix').dst = s
<1>4. \E s \in OnCycle : Leads(s)
  <2>1. CASE s0 \in OnCycle /\ prefix' = << >> /\ cycle' = Shifted(s0)
    BY <2>1 DEF Walk
  <2>2. ASSUME NEW p \in search(Known, s0, {e \in Known : e.dst \in OnCycle}),
               prefix' = p, cycle' = Shifted(Last(p).dst)
        PROVE  \E s \in OnCycle : Leads(s)
    <3>1. Walk(Known, p) /\ p # << >> /\ p[1].src = s0 /\ Last(p).dst \in OnCycle
      BY SearchFacts
    <3>2. Known \subseteq L
      BY DEF Known
    <3>3. Walk(L, p)
      BY <3>1, <3>2 DEF Walk
    <3>4. QED
      BY <2>2, <3>1, <3>3
  <2>3. QED
    BY <2>1, <2>2, Zenon DEF ComputePrefix
<1>5. PICK s \in OnCycle : Leads(s)
  BY <1>4, Zenon
<1>6. /\ Walk(L, cycle') /\ cycle' # << >> /\ cycle'[1].src = s /\ Last(cycle').dst = s
      /\ ToSet(cycle') = ToSet(cycle)
  <2> HIDE DEF L
  <2>1. QED
    BY <1>2, <1>5, ShiftWalk
<1> DEFINE p == prefix' \o cycle'
<1>7. /\ Walk(L, p) /\ Last(p) = Last(cycle') /\ p[1].src = s0
  <2> HIDE DEF L
  <2>1. prefix' # << >> => Last(prefix').dst = cycle'[1].src
    BY <1>5, <1>6
  <2>2. /\ Walk(L, p) /\ Last(p) = Last(cycle')
        /\ p[1] = IF prefix' = << >> THEN cycle'[1] ELSE prefix'[1]
    BY <1>5, <1>6, <2>1, JoinWalks
  <2>3. QED
    BY <1>5, <1>6, <2>2
<1>8. ToSet(p) \subseteq L
  BY <1>7 DEF Walk, ToSet
<1>9. RunIsAccepting'
  <2>1. \A i \in 1 .. Len(p) - 1 : p[i].dst = p[i + 1].src
    BY <1>7 DEF Walk
  <2> HIDE DEF p
  <2>2. /\ p[1].src = s0 /\ ToSet(p) \subseteq Live(edges)'
        /\ Last(p).dst = cycle'[1].src
    BY <1>1, <1>6, <1>7, <1>8
  <2>3. cycle' # << >> /\ accepting(Marks(ToSet(cycle')))
    BY <1>3, <1>6
  <2>4. QED
    BY <2>1, <2>2, <2>3 DEF RunIsAccepting, p, accepting
<1>10. uses_fin_acceptance' <=> uses_fin_acceptance
  BY DEF uses_fin_acceptance
<1>11. QED
  BY <1>1, <1>9, <1>10 DEF RunInv

(* The run that accepting_run() computes from what check() has left is one *)
(* of the automaton and accepting, for any automaton, any condition        *)
(* without Fin, all options, and whichever shortest paths bfs_steps finds. *)
THEOREM RunsAreAccepting == Spec => []RunIsAccepting
<1>1. Init => RunInv
  <2> SUFFICES ASSUME Init PROVE RunInv
    OBVIOUS
  <2>1. edges \in Automata /\ pc = "call" /\ cycle = << >>
    BY DEF Init, couvreur99_check, couvreur99_check_shy
  <2>2. QED
    BY <2>1, CouvreurAssumption DEF RunInv, RunIsAccepting
<1>2. RunInv /\ [Next]_vars => RunInv'
  <2> SUFFICES ASSUME RunInv, [Next]_vars PROVE RunInv'
    OBVIOUS
  <2>1. CASE check /\ UNCHANGED <<pos, run>>
    BY <2>1, CheckKeepsRun, Zenon
  <2>2. CASE shy_check /\ UNCHANGED run
    BY <2>2, CheckKeepsRun, Zenon
  <2>3. CASE accepting_run
    BY <2>3, StartKeepsRun
  <2>4. CASE accepting_cycle
    BY <2>4, CycleKeepsRun, CouvreurAssumption
  <2>5. CASE ComputePrefix
    BY <2>5, PrefixKeepsRun, CouvreurAssumption
  <2>6. CASE UNCHANGED vars
    BY <2>6 DEF vars, base, run, RunInv, CycleInv, RunIsAccepting, uses_fin_acceptance
  <2>7. QED
    BY <2>1, <2>2, <2>3, <2>4, <2>5, <2>6 DEF Next, Finished
<1>3. RunInv => RunIsAccepting
  BY DEF RunInv
<1>4. QED
  BY <1>1, <1>2, <1>3, PTL DEF Spec

-----------------------------------------------------------------------------
(* The invariant of check()                                                *)
(*                                                                         *)
(* Its parts are stated of values: the automaton A, the orders hh, the     *)
(* stacks r of roots, a of arcs and t of states, and the set P of the      *)
(* edges in the queues of t.                                               *)

Scc(hh, r, i) ==
  {s \in State : hh[s] >= r[i].index /\ (i < Len(r) => hh[s] < r[i + 1].index)}

Queued(t) == UNION {ToSet(t[k].q) : k \in DOMAIN t}

Taken(A, hh, P) == {e \in Live(A) : hh[e.src] # 0} \ P

(* The marks of the edge into the i-th component.                          *)
ArcInto(r, a, i) == a[Len(a) - (Len(r) - i)]

(* Visited states have different positive orders, until they are dead.     *)
Orders(hh, n) ==
  /\ hh \in [State -> Int] /\ n \in Nat
  /\ \A s \in State : -1 <= hh[s] /\ hh[s] <= n
  /\ \A s, u \in State : hh[s] > 0 /\ hh[s] = hh[u] => s = u

(* The roots are in the order of the search; every alive state is in a     *)
(* component.                                                              *)
Roots(hh, r) ==
  /\ r \in Seq(Component)
  /\ \A i \in 1 .. Len(r) : r[i].index > 0
  /\ \A i, j \in 1 .. Len(r) : i < j => r[i].index < r[j].index
  /\ \A s \in State : hh[s] > 0 => r # << >> /\ r[1].index <= hh[s]

(* The search path visits the states in this order, too, and still holds   *)
(* the root of each component.                                             *)
SearchPath(hh, r, t) ==
  /\ t \in Seq(Todo)
  /\ \A k \in 1 .. Len(t) : t[k].n = hh[t[k].s] /\ t[k].n > 0
  /\ \A k, l \in 1 .. Len(t) : k < l => t[k].n < t[l].n
  /\ \A i \in 1 .. Len(r) : \E k \in 1 .. Len(t) : t[k].n = r[i].index

(* An edge is queued once, with a state of the component it leaves.        *)
Queues(A, hh, r, t) ==
  /\ \A k \in 1 .. Len(t) : \A e \in ToSet(t[k].q) :
       /\ e \in A /\ hh[e.src] > 0
       /\ \A i \in 1 .. Len(r) : r[i].index <= hh[e.src] <=> r[i].index <= t[k].n
  /\ \A k \in 1 .. Len(t) : IsInjective(t[k].q)
  /\ \A k, l \in 1 .. Len(t) : k # l => ToSet(t[k].q) \cap ToSet(t[l].q) = {}

Link(hh, r, a, i, e) ==
  /\ e.src \in Scc(hh, r, i - 1) /\ e.dst \in Scc(hh, r, i)
  /\ e.acc = ArcInto(r, a, i)

(* An edge that was taken leads to a dead state, or stays in a component,  *)
(* or is the one that leads to the next component.                         *)
Steps(A, hh, r, a, P) ==
  /\ \A e \in Taken(A, hh, P) : hh[e.src] > 0 =>
       \/ hh[e.dst] = -1
       \/ \E i \in 1 .. Len(r) : e.src \in Scc(hh, r, i) /\ e.dst \in Scc(hh, r, i)
       \/ \E i \in 2 .. Len(r) : Link(hh, r, a, i, e)
  /\ \A i \in 2 .. Len(r) : \E e \in Taken(A, hh, P) : Link(hh, r, a, i, e)

(* The edges taken inside a component connect it, and it has their marks.  *)
Connects(E, S) == \A C \in SUBSET S : C # {} /\ Closed(E, C) => C = S

Sccs(A, hh, r, P) ==
  \A i \in 1 .. Len(r) :
    LET E == Within(Taken(A, hh, P), Scc(hh, r, i))
    IN /\ Connects(E, Scc(hh, r, i))
       /\ r[i].condition = Marks(E)
       /\ E # {} => ~accepting(r[i].condition)

(* With poprem, a component remembers its states that have left t.         *)
OnPath(t) == {t[k].s : k \in 1 .. Len(t)}

Remembered(hh, r, t) ==
  \A i \in 1 .. Len(r) : ToSet(r[i].rem) = Scc(hh, r, i) \ OnPath(t)

(* No accepting run goes through a dead state.                             *)
DeadSet(hh) == {s \in State : hh[s] = -1}

NoRun(A, D) ==
  /\ Closed(Live(A), D)
  /\ \A E \in SUBSET {e \in Live(A) : e.src \in D} : StronglyConnected(E) => ~accepting(Marks(E))

Visited(A, hh) ==
  /\ hh[s0] # 0
  /\ \A s \in State : hh[s] # 0 => s \in Reach(Live(A), s0)

(* check() runs, or the constructor has stacked the initial state.         *)
Searching == pc = "loop" \/ (pc = "call" /\ o.shy)

(* The invariant of the loop: h numbers the states in the order they were  *)
(* found, and root cuts the numbered ones into components; todo is a path  *)
(* through them with the edges still to be taken; arc and the edges taken  *)
(* link the components; no accepting run goes through a dead state.        *)
SearchInv ==
  /\ Orders(h, num) /\ Roots(h, root) /\ SearchPath(h, root, todo)
  /\ Queues(edges, h, root, todo)
  /\ o.shy => Queued(todo) \subseteq Live(edges)
  /\ arc \in Seq(SUBSET Mark) /\ Len(arc) = Len(root) - (IF o.shy THEN 1 ELSE 0)
  /\ Steps(edges, h, root, arc, Queued(todo)) /\ Sccs(edges, h, root, Queued(todo))
  /\ o.poprem => Remembered(h, root, todo)
  /\ NoRun(edges, DeadSet(h)) /\ Visited(edges, h)

(* The inductive invariant of check() and accepting_run().                 *)
CheckInv ==
  /\ edges \in Automata /\ o \in Options
  /\ pc \in {"call", "loop", "idle", "cycle", "prefix", "done"}
  /\ result = "none" <=> pc \in {"call", "loop"}
  /\ pc = "loop" => ~uses_fin_acceptance
  /\ pc = "call" /\ ~o.shy =>
       /\ h = [s \in State |-> 0] /\ root = << >> /\ arc = << >> /\ todo = << >> /\ num = 0
  /\ Searching => SearchInv
  /\ o.shy /\ Searching => todo # << >>
  /\ o.shy /\ pc = "loop" => pos \in Nat \ {0}
  /\ DeadIsClosed

-----------------------------------------------------------------------------
(* Components                                                              *)

(* A bounded set of numbers has a greatest element.                        *)
LEMMA GreatestNumber ==
  ASSUME NEW n \in Nat, NEW T \in SUBSET (1 .. n), T # {}
  PROVE  \E x \in T : \A y \in T : y <= x
<1> DEFINE U == {n - x : x \in T}
<1>1. U \in SUBSET Nat /\ U # {}
  <2>1. \A x \in T : n - x \in Nat
    OBVIOUS
  <2>2. QED
    BY <2>1
<1>2. PICK u \in U : \A v \in U : u <= v
  BY <1>1, LeastNumber
<1>3. PICK x \in T : u = n - x
  BY <1>2
<1>4. \A y \in T : n - y \in U /\ y \in Nat /\ u <= n - y
  BY <1>2
<1>5. x \in Nat /\ \A y \in T : y <= x
  BY <1>3, <1>4
<1>6. QED
  BY <1>5

(* A root is a record with a positive index.                               *)
LEMMA RootFacts ==
  ASSUME NEW hh, NEW r, Roots(hh, r)
  PROVE  /\ Len(r) \in Nat /\ DOMAIN r = 1 .. Len(r)
         /\ \A i \in 1 .. Len(r) : r[i] \in Component /\ r[i].index \in Nat \ {0}
<1>1. r \in Seq(Component) /\ \A i \in 1 .. Len(r) : r[i].index > 0
  BY DEF Roots
<1>2. \A i \in 1 .. Len(r) : r[i] \in Component
  BY <1>1
<1>3. \A i \in 1 .. Len(r) : r[i].index \in Int
  BY <1>2 DEF Component
<1>4. QED
  BY <1>1, <1>2, <1>3

(* An alive state is in one component, and the indices tell which.         *)
LEMMA SccFacts ==
  ASSUME NEW hh \in [State -> Int], NEW r, Roots(hh, r)
  PROVE  /\ \A s \in State : hh[s] > 0 => \E i \in 1 .. Len(r) : s \in Scc(hh, r, i)
         /\ \A i \in 1 .. Len(r) : \A s \in Scc(hh, r, i) :
              /\ s \in State /\ hh[s] > 0
              /\ \A k \in 1 .. Len(r) : r[k].index <= hh[s] <=> k <= i
<1> DEFINE N == Len(r)
<1>1. /\ N \in Nat /\ \A i \in 1 .. N : r[i].index \in Nat \ {0}
      /\ \A i, j \in 1 .. N : i < j => r[i].index < r[j].index
      /\ \A s \in State : hh[s] > 0 => r # << >> /\ r[1].index <= hh[s]
  BY RootFacts DEF Roots
<1>2. ASSUME NEW s \in State, hh[s] > 0 PROVE \E i \in 1 .. N : s \in Scc(hh, r, i)
  <2> DEFINE T == {i \in 1 .. N : r[i].index <= hh[s]}
  <2>1. 1 \in T
    <3>1. r # << >> /\ r \in Seq(Component)
      BY <1>1, <1>2 DEF Roots
    <3>2. 1 \in 1 .. N
      BY <3>1
    <3>3. QED
      BY <1>1, <1>2, <3>2
  <2>2. PICK x \in T : \A y \in T : y <= x
    BY <1>1, <2>1, GreatestNumber
  <2>3. x \in 1 .. N /\ r[x].index <= hh[s] /\ hh[s] \in Int
    BY <2>2
  <2>4. x < N => hh[s] < r[x + 1].index
    <3> SUFFICES ASSUME x < N, ~(hh[s] < r[x + 1].index) PROVE FALSE
      OBVIOUS
    <3>1. x + 1 \in 1 .. N
      BY <1>1, <2>3
    <3>2. x + 1 \in T
      BY <1>1, <2>3, <3>1
    <3>3. QED
      BY <1>1, <2>2, <2>3, <3>2
  <2>5. QED
    BY <1>1, <2>3, <2>4 DEF Scc
<1>3. ASSUME NEW i \in 1 .. N, NEW s \in Scc(hh, r, i)
      PROVE  /\ s \in State /\ hh[s] > 0
             /\ \A k \in 1 .. N : r[k].index <= hh[s] <=> k <= i
  <2>1. s \in State /\ hh[s] \in Int /\ hh[s] >= r[i].index /\ (i < N => hh[s] < r[i + 1].index)
    BY DEF Scc
  <2>2. ASSUME NEW k \in 1 .. N PROVE r[k].index <= hh[s] <=> k <= i
    <3>1. CASE k <= i
      <4>1. r[k].index <= r[i].index
        BY <1>1, <3>1
      <4>2. QED
        BY <1>1, <2>1, <3>1, <4>1
    <3>2. CASE ~(k <= i)
      <4>1. i < N /\ i + 1 \in 1 .. N /\ r[i + 1].index <= r[k].index
        BY <1>1, <3>2
      <4>2. QED
        BY <1>1, <2>1, <3>2, <4>1
    <3>3. QED
      BY <3>1, <3>2
  <2>3. QED
    BY <1>1, <2>1, <2>2
<1>4. QED
  BY <1>2, <1>3

(* Two components have no state in common.                                 *)
LEMMA SccsAreDisjoint ==
  ASSUME NEW hh \in [State -> Int], NEW r, Roots(hh, r),
         NEW i \in 1 .. Len(r), NEW j \in 1 .. Len(r), NEW s,
         s \in Scc(hh, r, i), s \in Scc(hh, r, j)
  PROVE  i = j
<1>1. \A k \in 1 .. Len(r) : (r[k].index <= hh[s] <=> k <= i) /\ (r[k].index <= hh[s] <=> k <= j)
  BY SccFacts
<1>2. i <= j /\ j <= i
  BY <1>1
<1>3. QED
  BY <1>2

(* An alive state whose order is at least index i and below index i + 1.   *)
LEMMA SccByIndex ==
  ASSUME NEW hh \in [State -> Int], NEW r, Roots(hh, r), NEW i \in 1 .. Len(r),
         NEW s \in State, \A k \in 1 .. Len(r) : r[k].index <= hh[s] <=> k <= i
  PROVE  s \in Scc(hh, r, i)
<1>1. /\ Len(r) \in Nat /\ \A k \in 1 .. Len(r) : r[k].index \in Nat
  BY RootFacts
<1>2. hh[s] \in Int /\ hh[s] >= r[i].index
  BY <1>1
<1>3. i < Len(r) => hh[s] < r[i + 1].index
  <2> SUFFICES ASSUME i < Len(r) PROVE hh[s] < r[i + 1].index
    OBVIOUS
  <2>1. i + 1 \in 1 .. Len(r) /\ ~(i + 1 <= i)
    BY <1>1
  <2>2. ~(r[i + 1].index <= hh[s]) /\ r[i + 1].index \in Nat
    BY <1>1, <2>1
  <2>3. QED
    BY <1>2, <2>2
<1>4. QED
  BY <1>2, <1>3 DEF Scc

(* What a component remembers has no part in this.                         *)
LEMMA SameRoots ==
  ASSUME NEW A, NEW hh, NEW r, NEW a, NEW P, Roots(hh, r), NEW r2 \in Seq(Component), Len(r2) = Len(r),
         \A i \in 1 .. Len(r) : r2[i].index = r[i].index /\ r2[i].condition = r[i].condition
  PROVE  /\ Roots(hh, r2)
         /\ \A i \in 1 .. Len(r) : Scc(hh, r2, i) = Scc(hh, r, i)
         /\ Steps(A, hh, r, a, P) => Steps(A, hh, r2, a, P)
         /\ Sccs(A, hh, r, P) => Sccs(A, hh, r2, P)
<1>1. Len(r) \in Nat /\ r \in Seq(Component)
  BY DEF Roots
<1>2. Roots(hh, r2)
  <2>1. r # << >> => r2 # << >> /\ r2[1].index = r[1].index
    BY <1>1
  <2>2. QED
    BY <1>1, <2>1 DEF Roots
<1>3. ASSUME NEW i \in 1 .. Len(r) PROVE Scc(hh, r2, i) = Scc(hh, r, i)
  <2>1. i < Len(r) => i + 1 \in 1 .. Len(r)
    BY <1>1
  <2>2. QED
    BY <2>1 DEF Scc
<1>4. \A i \in 2 .. Len(r) : \A e : Link(hh, r2, a, i, e) <=> Link(hh, r, a, i, e)
  <2> SUFFICES ASSUME NEW i \in 2 .. Len(r), NEW e PROVE Link(hh, r2, a, i, e) <=> Link(hh, r, a, i, e)
    OBVIOUS
  <2>1. i \in 1 .. Len(r) /\ i - 1 \in 1 .. Len(r)
    BY <1>1
  <2>2. QED
    BY <1>3, <2>1 DEF Link, ArcInto
<1>5. Steps(A, hh, r, a, P) => Steps(A, hh, r2, a, P)
  BY <1>3, <1>4, Zenon DEF Steps
<1>6. Sccs(A, hh, r, P) => Sccs(A, hh, r2, P)
  BY <1>3, Zenon DEF Sccs
<1>7. QED
  BY <1>2, <1>3, <1>5, <1>6

(* Edges to dead states were taken, or none.                               *)
LEMMA TakeDead ==
  ASSUME NEW A, NEW hh \in [State -> Int], NEW r, NEW a, NEW P, NEW P2,
         Roots(hh, r), Steps(A, hh, r, a, P), Sccs(A, hh, r, P),
         Taken(A, hh, P) \subseteq Taken(A, hh, P2),
         \A e \in Taken(A, hh, P2) : e \in Taken(A, hh, P) \/ hh[e.dst] = -1
  PROVE  Steps(A, hh, r, a, P2) /\ Sccs(A, hh, r, P2)
<1> DEFINE T  == Taken(A, hh, P)
           T2 == Taken(A, hh, P2)
<1>1. \A i \in 1 .. Len(r) : \A s \in Scc(hh, r, i) : hh[s] > 0
  BY SccFacts
<1> HIDE DEF T, T2
<1>2. \A i \in 1 .. Len(r) : Within(T2, Scc(hh, r, i)) = Within(T, Scc(hh, r, i))
  BY <1>1 DEF Within, T, T2
<1>3. Steps(A, hh, r, a, P2)
  BY DEF Steps
<1>4. Sccs(A, hh, r, P2)
  BY <1>2 DEF Sccs, T, T2
<1>5. QED
  BY <1>3, <1>4

(* x is stacked on r.                                                      *)
Stacked(r, x, r2) ==
  Len(r2) = Len(r) + 1 /\ (\A i \in 1 .. Len(r) : r2[i] = r[i]) /\ r2[Len(r) + 1] = x

(* s gets the order n + 1.                                                 *)
Numbered(hh, s, n, hh2) ==
  hh2 \in [State -> Int] /\ hh2[s] = n + 1 /\ \A u \in State : u # s => hh2[u] = hh[u]

(* The edge e left the queues, which the edges out of its destination      *)
(* joined.                                                                 *)
NewTaken(A, P, e, P2) == \A f \in Live(A) : f \in P2 <=> (f \in P /\ f # e) \/ f.src = e.dst

(* The new state d is a component of its own.                              *)
NewComponent(A, hh, r, d, hh2, r2, a2, P2) ==
  /\ Roots(hh2, r2) /\ Steps(A, hh2, r2, a2, P2) /\ Sccs(A, hh2, r2, P2)
  /\ \A i \in 1 .. Len(r) : Scc(hh2, r2, i) = Scc(hh, r, i)
  /\ Scc(hh2, r2, Len(r) + 1) = {d}

(* The edge e led to a new state.                                          *)
LEMMA NewScc ==
  ASSUME NEW A \in SUBSET Edge, NEW hh \in [State -> Int], NEW r, NEW a \in Seq(SUBSET Mark), NEW P,
         NEW n \in Nat, Roots(hh, r), Steps(A, hh, r, a, P), Sccs(A, hh, r, P),
         Len(a) >= Len(r) - 1, r # << >>, Orders(hh, n),
         NEW e \in Live(A), e.src \in Scc(hh, r, Len(r)), hh[e.dst] = 0, NEW P2, NewTaken(A, P, e, P2),
         NEW hh2, Numbered(hh, e.dst, n, hh2),
         NEW r2 \in Seq(Component), Stacked(r, connected_component(n + 1), r2),
         NEW a2, Stacked(a, e.acc, a2)
  PROVE  NewComponent(A, hh, r, e.dst, hh2, r2, a2, P2)
<1>01. /\ \A s \in State : hh[s] <= n
       /\ \A f \in Live(A) : f \in P2 <=> (f \in P /\ f # e) \/ f.src = e.dst
  BY DEF Orders, NewTaken
<1> USE <1>01
<1>00. /\ hh2 \in [State -> Int] /\ hh2[e.dst] = n + 1
       /\ \A s \in State : s # e.dst => hh2[s] = hh[s]
       /\ Len(r2) = Len(r) + 1 /\ \A i \in 1 .. Len(r) : r2[i] = r[i]
       /\ r2[Len(r) + 1].index = n + 1 /\ r2[Len(r) + 1].condition = {}
       /\ Len(a2) = Len(a) + 1 /\ (\A i \in 1 .. Len(a) : a2[i] = a[i]) /\ a2[Len(a) + 1] = e.acc
  BY DEF Numbered, Stacked, connected_component
<1> DEFINE N == Len(r)
           d == e.dst
           T == Taken(A, hh, P)
           T2 == Taken(A, hh2, P2)
<1>0. N \in Nat \ {0} /\ r \in Seq(Component)
  BY DEF Roots
<1>1. /\ \A i \in 1 .. N : r[i] \in Component /\ r[i].index \in Nat \ {0}
      /\ d \in State /\ e.src \in State /\ e.acc \in SUBSET Mark /\ e \in A
  <2>1. e \in A
    BY DEF Live
  <2>2. d \in State /\ e.src \in State /\ e.acc \in SUBSET Mark
    BY <2>1 DEF Edge
  <2>3. QED
    BY <2>1, <2>2, RootFacts
<1>3. /\ r2 \in Seq(Component) /\ Len(r2) = N + 1 /\ \A i \in 1 .. N : r2[i] = r[i]
      /\ r2[N + 1].index = n + 1 /\ r2[N + 1].condition = {}
  BY <1>00
<1>4. /\ Len(a2) = Len(a) + 1 /\ \A i \in 1 .. Len(a) : a2[i] = a[i]
      /\ a2[Len(a) + 1] = e.acc /\ Len(a) \in Nat
  BY <1>00
<1>5. /\ hh2 \in [State -> Int] /\ hh2[d] = n + 1
      /\ \A s \in State : s # d => hh2[s] = hh[s]
      /\ hh[e.src] > 0 /\ e.src # d
  <2>1. hh[e.src] > 0
    BY <1>0, SccFacts
  <2>2. QED
    BY <1>00, <1>0, <1>1, <2>1
<1>6. \A i \in 1 .. N : r[i].index <= n
  <2> SUFFICES ASSUME NEW i \in 1 .. N PROVE r[i].index <= n
    OBVIOUS
  <2>1. r[i].index <= r[N].index
    BY <1>1 DEF Roots
  <2>2. r[N].index <= hh[e.src] /\ hh[e.src] \in Int
    BY <1>1 DEF Scc
  <2>3. QED
    BY <1>0, <1>1, <2>1, <2>2
<1> HIDE DEF N, d, T, T2
<1>7. Roots(hh2, r2)
  <2>1. \A i \in 1 .. N + 1 : r2[i].index > 0
    <3>1. \A i \in 1 .. N + 1 : i \in 1 .. N \/ i = N + 1
      BY <1>0
    <3>2. \A i \in 1 .. N : r2[i].index \in Nat \ {0}
      BY <1>1, <1>3
    <3>3. r2[N + 1].index = n + 1 /\ n \in Nat
      BY <1>3
    <3>4. QED
      BY ONLY <3>1, <3>2, <3>3
  <2>2. \A i, j \in 1 .. N + 1 : i < j => r2[i].index < r2[j].index
    <3> SUFFICES ASSUME NEW i \in 1 .. N + 1, NEW j \in 1 .. N + 1, i < j PROVE r2[i].index < r2[j].index
      OBVIOUS
    <3>0. i \in 1 .. N /\ (j \in 1 .. N \/ j = N + 1)
      BY ONLY <1>0, i \in 1 .. N + 1, j \in 1 .. N + 1, i < j
    <3>1. CASE j \in 1 .. N
      <4>1. r[i].index < r[j].index
        BY <3>0, <3>1 DEF Roots, N
      <4>2. QED
        BY <1>3, <3>0, <3>1, <4>1
    <3>2. CASE j = N + 1
      <4>1. r[i].index <= n /\ r[i].index \in Nat
        BY <1>1, <1>6, <3>0
      <4>2. r2[i].index = r[i].index /\ r2[j].index = n + 1
        BY <1>3, <3>0, <3>2
      <4>3. QED
        BY ONLY <4>1, <4>2, n \in Nat
    <3>3. QED
      BY <3>0, <3>1, <3>2
  <2>3. \A s \in State : hh2[s] > 0 => r2 # << >> /\ r2[1].index <= hh2[s]
    <3> SUFFICES ASSUME NEW s \in State, hh2[s] > 0 PROVE r2 # << >> /\ r2[1].index <= hh2[s]
      OBVIOUS
    <3>1. r2 # << >> /\ r2[1] = r[1]
      BY <1>0, <1>1, <1>3
    <3>2. CASE s = d
      BY <1>0, <1>1, <1>5, <1>6, <3>1, <3>2
    <3>3. CASE s # d
      BY <1>5, <3>1, <3>3 DEF Roots
    <3>4. QED
      BY <3>1, <3>2, <3>3
  <2>4. QED
    BY <1>3, <2>1, <2>2, <2>3 DEF Roots
<1>8. ASSUME NEW i \in 1 .. N PROVE Scc(hh2, r2, i) = Scc(hh, r, i)
  <2>1. ASSUME NEW s \in State PROVE s \in Scc(hh2, r2, i) <=> s \in Scc(hh, r, i)
    <3>1. r2[i].index = r[i].index /\ r[i].index \in Nat \ {0}
      BY <1>0, <1>1, <1>3
    <3>2. CASE i < N
      <4>1. i + 1 \in 1 .. N /\ r2[i + 1].index = r[i + 1].index /\ r[i + 1].index <= n
            /\ r[i + 1].index \in Nat
        BY <1>0, <1>1, <1>3, <1>6, <3>2
      <4>2. CASE s = d
        <5>1. hh[s] = 0 /\ hh2[s] = n + 1 /\ i < Len(r2)
          BY <1>0, <1>3, <1>5, <3>2, <4>2 DEF d
        <5>2. s \notin Scc(hh, r, i)
          BY <3>1, <5>1 DEF Scc
        <5>3. s \notin Scc(hh2, r2, i)
          BY <4>1, <5>1 DEF Scc
        <5>4. QED
          BY <5>2, <5>3
      <4>3. CASE s # d
        <5>1. hh2[s] = hh[s] /\ i < Len(r2) /\ i < Len(r)
          BY <1>0, <1>3, <1>5, <3>2, <4>3 DEF N
        <5>2. QED
          BY ONLY s \in State, <3>1, <4>1, <5>1 DEF Scc
      <4>4. QED
        BY <4>2, <4>3
    <3>3. CASE i = N
      <4>1. i < Len(r2) /\ ~(i < Len(r)) /\ r2[i + 1].index = n + 1
        BY <1>0, <1>1, <1>3, <3>3 DEF N
      <4>2. CASE s = d
        BY <1>0, <1>1, <1>5, <3>1, <4>1, <4>2 DEF Scc, d
      <4>3. CASE s # d
        <5>1. hh2[s] = hh[s] /\ hh[s] <= n /\ hh[s] \in Int
          BY <1>5, <4>3
        <5>2. QED
          BY <3>1, <4>1, <5>1 DEF Scc
      <4>4. QED
        BY <4>2, <4>3
    <3>4. QED
      BY <1>0, <3>2, <3>3
  <2>2. QED
    BY <2>1 DEF Scc
<1>9. Scc(hh2, r2, N + 1) = {d}
  <2>1. ~(N + 1 < Len(r2)) /\ r2[N + 1].index = n + 1
    BY <1>0, <1>1, <1>3
  <2>2. \A s \in State : hh2[s] >= n + 1 <=> s = d
    BY <1>5
  <2>3. QED
    BY <1>0, <1>1, <2>1, <2>2 DEF Scc
<1>10. T2 = T \cup {e}
  <2>1. ASSUME NEW f \in Live(A) PROVE f \in T2 <=> f \in T \cup {e}
    <3>1. f.src \in State
      BY DEF Live, Edge
    <3>2. f \in P2 <=> (f \in P /\ f # e) \/ f.src = d
      BY DEF d
    <3>3. CASE f.src = d
      BY <1>5, <3>2, <3>3 DEF T, T2, Taken, d
    <3>4. CASE f.src # d
      BY <1>5, <3>1, <3>2, <3>4 DEF T, T2, Taken
    <3>5. QED
      BY <3>3, <3>4
  <2>2. QED
    BY <2>1 DEF T, T2, Taken
<1>11. ASSUME NEW i \in 2 .. N PROVE ArcInto(r2, a2, i) = ArcInto(r, a, i)
  <2>1. Len(a2) - (Len(r2) - i) = Len(a) - (N - i) /\ Len(a) - (N - i) \in 1 .. Len(a)
    BY <1>0, <1>1, <1>3, <1>4 DEF N
  <2>2. QED
    BY <1>4, <2>1 DEF ArcInto, N
<1>12. ASSUME NEW i \in 2 .. N, NEW f PROVE Link(hh2, r2, a2, i, f) <=> Link(hh, r, a, i, f)
  <2>1. i \in 1 .. N /\ i - 1 \in 1 .. N
    BY <1>0, <1>1
  <2>2. QED
    BY <1>8, <1>11, <2>1 DEF Link
<1>13. Link(hh2, r2, a2, N + 1, e)
  <2>1. Len(a2) - (Len(r2) - (N + 1)) = Len(a) + 1 /\ (N + 1) - 1 = N /\ N \in 1 .. N
    BY ONLY <1>0, <1>3, <1>4
  <2>2. QED
    BY <1>4, <1>8, <1>9, <2>1 DEF Link, ArcInto, N, d
<1>14. Steps(A, hh2, r2, a2, P2)
  <2>1. ASSUME NEW f \in T2, hh2[f.src] > 0
        PROVE  \/ hh2[f.dst] = -1
               \/ \E i \in 1 .. N + 1 : f.src \in Scc(hh2, r2, i) /\ f.dst \in Scc(hh2, r2, i)
               \/ \E i \in 2 .. N + 1 : Link(hh2, r2, a2, i, f)
    <3>1. CASE f = e
      <4>1. N + 1 \in 2 .. N + 1
        BY <1>0, <1>1
      <4>2. QED
        BY <1>13, <3>1, <4>1
    <3>2. CASE f \in T
      <4>1. f.src \in State /\ f.dst \in State /\ hh[f.src] # 0
        BY <3>2 DEF T, Taken, Live, Edge
      <4>2. hh2[f.src] = hh[f.src]
        BY <1>5, <4>1 DEF d
      <4>3. \/ hh[f.dst] = -1
            \/ \E i \in 1 .. N : f.src \in Scc(hh, r, i) /\ f.dst \in Scc(hh, r, i)
            \/ \E i \in 2 .. N : Link(hh, r, a, i, f)
        BY <2>1, <3>2, <4>2 DEF Steps, T, N
      <4>4. CASE hh[f.dst] = -1
        BY <1>5, <4>1, <4>4 DEF d
      <4>5. CASE \E i \in 1 .. N : f.src \in Scc(hh, r, i) /\ f.dst \in Scc(hh, r, i)
        BY <1>0, <1>1, <1>8, <4>5
      <4>6. CASE \E i \in 2 .. N : Link(hh, r, a, i, f)
        BY <1>0, <1>1, <1>12, <4>6
      <4>7. QED
        BY <4>3, <4>4, <4>5, <4>6
    <3>3. QED
      BY <1>10, <3>1, <3>2
  <2>2. ASSUME NEW i \in 2 .. N + 1 PROVE \E f \in T2 : Link(hh2, r2, a2, i, f)
    <3>1. CASE i = N + 1
      BY <1>10, <1>13, <3>1
    <3>2. CASE i \in 2 .. N
      <4>1. \E f \in T : Link(hh, r, a, i, f)
        BY <3>2 DEF Steps, T, N
      <4>2. QED
        BY <1>10, <1>12, <3>2, <4>1
    <3>3. QED
      BY <1>0, <3>1, <3>2
  <2>3. QED
    BY <1>3, <2>1, <2>2 DEF Steps, T2
<1>15. Sccs(A, hh2, r2, P2)
  <2>1. ASSUME NEW i \in 1 .. N + 1
        PROVE  LET E == Within(T2, Scc(hh2, r2, i))
               IN /\ Connects(E, Scc(hh2, r2, i)) /\ r2[i].condition = Marks(E)
                  /\ E # {} => ~accepting(r2[i].condition)
    <3>1. CASE i \in 1 .. N
      <4>1. d \notin Scc(hh, r, i)
        <5>1. \A s \in Scc(hh, r, i) : hh[s] > 0
          BY <3>1, SccFacts DEF N
        <5>2. QED
          BY <5>1 DEF d
      <4>2. Within(T2, Scc(hh2, r2, i)) = Within(T, Scc(hh, r, i))
        BY <1>8, <1>10, <3>1, <4>1 DEF Within, d
      <4>3. QED
        BY <1>3, <1>8, <3>1, <4>2 DEF Sccs, T, N
    <3>2. CASE i = N + 1
      <4>1. \A f \in T2 : f.src # d
        BY <1>5, <1>10 DEF T, Taken, d
      <4>2. Within(T2, Scc(hh2, r2, i)) = {}
        BY <1>9, <3>2, <4>1 DEF Within
      <4>3. Marks({}) = {} /\ Connects({}, {d})
        BY DEF Marks, Connects
      <4>4. QED
        BY <1>3, <1>9, <3>2, <4>2, <4>3
    <3>3. QED
      BY <1>0, <3>1, <3>2
  <2>2. QED
    BY <1>3, <2>1 DEF Sccs, T2
<1>16. QED
  BY <1>7, <1>8, <1>9, <1>14, <1>15 DEF N, d, NewComponent

(* What holds for j and goes from a number to the next one.                *)
LEMMA ClimbNumbers ==
  ASSUME NEW N \in Nat, NEW j \in Nat, NEW G, j \in G, \A i \in j .. N - 1 : i \in G => i + 1 \in G
  PROVE  \A i \in j .. N : i \in G
<1> DEFINE T == {i \in j .. N : i \notin G}
<1> SUFFICES ASSUME T # {} PROVE FALSE
  OBVIOUS
<1>1. T \in SUBSET Nat
  OBVIOUS
<1>2. PICK x \in T : \A y \in T : x <= y
  BY <1>1, LeastNumber
<1>3. x # j /\ x - 1 \in j .. N - 1 /\ x - 1 \notin T /\ (x - 1) + 1 = x
  BY <1>2
<1>4. QED
  BY <1>2, <1>3

(* The components of r from k on are merged; the edge that closes the      *)
(* cycle has the marks acc.                                                *)
MergedInto(r, a, k, acc, r2) ==
  /\ r2 \in Seq(Component) /\ Len(r2) = k /\ \A i \in 1 .. k : r2[i].index = r[i].index
  /\ \A i \in 1 .. k - 1 : r2[i].condition = r[i].condition /\ r2[i].rem = r[i].rem
  /\ r2[k].condition = r[k].condition \cup acc
                          \cup (UNION {r[i].condition : i \in k + 1 .. Len(r)})
                          \cup (UNION {ArcInto(r, a, i) : i \in k + 1 .. Len(r)})
  /\ ToSet(r2[k].rem) = UNION {ToSet(r[i].rem) : i \in k .. Len(r)}

(* The first m elements of a.                                              *)
FirstOf(a, m, a2) == Len(a2) = m /\ \A i \in 1 .. m : a2[i] = a[i]

(* The edge e has left the queues.                                         *)
OneLess(A, P, e, P2) == \A f \in Live(A) : f \in P2 <=> f \in P /\ f # e

(* The components from the k-th on are one, whose marks are known.         *)
MergedScc(A, hh, r, k, e, r2, a2, P2) ==
  /\ Roots(hh, r2) /\ Steps(A, hh, r2, a2, P2)
  /\ \A i \in 1 .. k - 1 : Scc(hh, r2, i) = Scc(hh, r, i)
  /\ \A s \in State : s \in Scc(hh, r2, k) <=> \E i \in k .. Len(r) : s \in Scc(hh, r, i)
  /\ LET E == Within(Taken(A, hh, P2), Scc(hh, r2, k))
     IN e \in E /\ Connects(E, Scc(hh, r2, k)) /\ r2[k].condition = Marks(E)
  /\ ~accepting(r2[k].condition) => Sccs(A, hh, r2, P2)

(* The edge e leads from the last component back to the k-th one.          *)
LEMMA MergeScc ==
  ASSUME NEW A \in SUBSET Edge, NEW hh \in [State -> Int], NEW r, NEW a \in Seq(SUBSET Mark), NEW P,
         Roots(hh, r), Steps(A, hh, r, a, P), Sccs(A, hh, r, P), Len(a) >= Len(r) - 1,
         NEW e \in Live(A), e.src \in Scc(hh, r, Len(r)), NEW k \in 1 .. Len(r), e.dst \in Scc(hh, r, k),
         NEW P2, OneLess(A, P, e, P2),
         NEW r2, MergedInto(r, a, k, e.acc, r2), NEW a2, FirstOf(a, Len(a) - (Len(r) - k), a2)
  PROVE  MergedScc(A, hh, r, k, e, r2, a2, P2)
<1>01. \A f \in Live(A) : f \in P2 <=> f \in P /\ f # e
  BY DEF OneLess
<1> USE <1>01
<1>00. /\ r2 \in Seq(Component) /\ Len(r2) = k /\ \A i \in 1 .. k : r2[i].index = r[i].index
       /\ \A i \in 1 .. k - 1 : r2[i].condition = r[i].condition
       /\ r2[k].condition = r[k].condition \cup e.acc
                               \cup (UNION {r[i].condition : i \in k + 1 .. Len(r)})
                               \cup (UNION {ArcInto(r, a, i) : i \in k + 1 .. Len(r)})
       /\ Len(a2) = Len(a) - (Len(r) - k) /\ \A i \in 1 .. Len(a2) : a2[i] = a[i]
  BY DEF MergedInto, FirstOf
<1> USE <1>00
<1> DEFINE N == Len(r)
           T == Taken(A, hh, P)
           T2 == Taken(A, hh, P2)
           S(i) == Scc(hh, r, i)
           Big == Scc(hh, r2, k)
           E2 == Within(T2, Big)
<1>0. N \in Nat /\ k \in 1 .. N /\ k \in Nat \ {0}
  BY RootFacts
<1>1. \A i \in 1 .. N : r[i].index \in Nat \ {0} /\ r[i] \in Component
  BY RootFacts
<1>2. /\ \A s \in State : hh[s] > 0 => \E i \in 1 .. N : s \in S(i)
      /\ \A i \in 1 .. N : \A s \in S(i) :
           /\ s \in State /\ hh[s] > 0
           /\ \A j \in 1 .. N : r[j].index <= hh[s] <=> j <= i
  BY SccFacts
<1>3. \A s \in State : s \in Big <=> hh[s] >= r[k].index
  <2>1. Len(r2) = k /\ r2[k].index = r[k].index /\ ~(k < k)
    BY <1>0
  <2>2. QED
    BY ONLY <2>1 DEF Scc
<1> HIDE DEF N, T, T2, S, Big, E2
<1>4. ASSUME NEW i \in k .. N PROVE i \in 1 .. N /\ S(i) \subseteq Big
  <2>1. i \in 1 .. N /\ k <= i
    BY <1>0
  <2>2. \A s \in S(i) : s \in State /\ r[k].index <= hh[s]
    BY <1>0, <1>2, <2>1
  <2>3. \A s \in S(i) : hh[s] >= r[k].index
    BY <1>0, <1>1, <2>2
  <2>4. QED
    BY <1>3, <2>1, <2>2, <2>3
<1>5. ASSUME NEW s \in Big PROVE s \in State /\ hh[s] > 0 /\ \E i \in k .. N : s \in S(i)
  <2>1. s \in State /\ hh[s] >= r[k].index /\ hh[s] \in Int
    BY <1>3 DEF Big, Scc
  <2>2. hh[s] > 0 /\ r[k].index <= hh[s]
    BY <1>0, <1>1, <2>1
  <2>3. PICK i \in 1 .. N : s \in S(i)
    BY <1>2, <2>1, <2>2
  <2>4. k <= i
    BY <1>0, <1>2, <2>2, <2>3
  <2>5. QED
    BY <1>0, <2>1, <2>2, <2>3, <2>4
<1>6. ASSUME NEW i \in 1 .. N, NEW s \in S(i), s \in Big PROVE i \in k .. N
  <2>1. hh[s] >= r[k].index /\ hh[s] \in Int /\ s \in State
    BY <1>2, <1>3, <1>6
  <2>2. r[k].index <= hh[s]
    BY <1>0, <1>1, <2>1
  <2>3. QED
    BY <1>0, <1>2, <2>2
<1>7. ASSUME NEW i \in 1 .. k - 1 PROVE i \in 1 .. N /\ i \notin k .. N /\ Scc(hh, r2, i) = S(i)
  <2>1. i \in 1 .. N /\ i \in 1 .. k /\ i + 1 \in 1 .. k /\ i < Len(r2) /\ i < N /\ i \notin k .. N
    BY <1>0
  <2>2. QED
    BY <2>1 DEF Scc, S, N
<1>8. /\ T2 = T \cup {e} /\ hh[e.src] > 0 /\ e.src \in Big /\ e.dst \in Big /\ e.src \in S(N) /\ e.dst \in S(k)
  <2>1. N \in k .. N /\ k \in k .. N
    BY <1>0
  <2>2. e.src \in S(N) /\ e.dst \in S(k)
    BY DEF S, N
  <2>3. hh[e.src] > 0 /\ e.src \in Big /\ e.dst \in Big
    BY <1>2, <1>4, <2>1, <2>2
  <2>4. T2 = T \cup {e}
    BY <2>3 DEF T, T2, Taken
  <2>5. QED
    BY <2>2, <2>3, <2>4
<1>9. e \in E2
  BY <1>8 DEF E2, Within
<1>10. ASSUME NEW i \in 2 .. k PROVE ArcInto(r2, a2, i) = ArcInto(r, a, i)
  <2>1. Len(a) \in Nat
    OBVIOUS
  <2>2. Len(a2) - (Len(r2) - i) = Len(a) - (N - i) /\ Len(a) - (N - i) \in 1 .. Len(a2)
    BY <1>0, <2>1 DEF N
  <2>3. QED
    BY <2>2 DEF ArcInto, N
<1>11. ASSUME NEW i \in 2 .. k, NEW f, Link(hh, r, a, i, f) PROVE Link(hh, r2, a2, i, f)
  <2>1. i - 1 \in 1 .. k - 1 /\ (i \in 1 .. k - 1 \/ i = k) /\ k \in k .. N
    BY <1>0
  <2>2. f.src \in Scc(hh, r2, i - 1)
    BY <1>7, <1>11, <2>1 DEF Link, S
  <2>3. f.dst \in Scc(hh, r2, i)
    BY <1>4, <1>7, <1>11, <2>1 DEF Link, S, Big
  <2>4. QED
    BY <1>10, <1>11, <2>2, <2>3 DEF Link
<1>12. ASSUME NEW i \in k + 1 .. N
       PROVE  i \in 2 .. N /\ i \in k .. N /\ i - 1 \in k .. N
  BY <1>0
<1>13. Roots(hh, r2)
  <2>1. r # << >> /\ r2 # << >> /\ r2[1].index = r[1].index
    BY <1>0 DEF N
  <2>2. \A i \in 1 .. k : i \in 1 .. N
    BY <1>0
  <2>3. QED
    BY <2>1, <2>2 DEF Roots, N
<1>14. Steps(A, hh, r2, a2, P2)
  <2>1. ASSUME NEW f \in T2, hh[f.src] > 0
        PROVE  \/ hh[f.dst] = -1
               \/ \E i \in 1 .. k : f.src \in Scc(hh, r2, i) /\ f.dst \in Scc(hh, r2, i)
               \/ \E i \in 2 .. k : Link(hh, r2, a2, i, f)
    <3>0. f.src \in Big /\ f.dst \in Big =>
            \E i \in 1 .. k : f.src \in Scc(hh, r2, i) /\ f.dst \in Scc(hh, r2, i)
      BY <1>0 DEF Big
    <3>1. CASE f = e
      BY <1>8, <3>0, <3>1
    <3>2. CASE f \in T
      <4>1. \/ hh[f.dst] = -1
            \/ \E i \in 1 .. N : f.src \in S(i) /\ f.dst \in S(i)
            \/ \E i \in 2 .. N : Link(hh, r, a, i, f)
        BY <2>1, <3>2 DEF Steps, T, N, S
      <4>2. ASSUME NEW i \in 1 .. N, f.src \in S(i), f.dst \in S(i)
            PROVE  \E j \in 1 .. k : f.src \in Scc(hh, r2, j) /\ f.dst \in Scc(hh, r2, j)
        <5>1. CASE i \in k .. N
          BY <1>4, <3>0, <4>2, <5>1
        <5>2. CASE i \in 1 .. k - 1
          BY <1>0, <1>7, <4>2, <5>2
        <5>3. QED
          BY <1>0, <5>1, <5>2
      <4>3. ASSUME NEW i \in 2 .. N, Link(hh, r, a, i, f)
            PROVE  \/ \E j \in 1 .. k : f.src \in Scc(hh, r2, j) /\ f.dst \in Scc(hh, r2, j)
                   \/ \E j \in 2 .. k : Link(hh, r2, a2, j, f)
        <5>1. CASE i \in 2 .. k
          BY <1>11, <4>3, <5>1
        <5>2. CASE i \in k + 1 .. N
          <6>1. f.src \in S(i - 1) /\ f.dst \in S(i)
            BY <4>3 DEF Link, S
          <6>2. QED
            BY <1>4, <1>12, <3>0, <5>2, <6>1
        <5>3. QED
          BY <1>0, <5>1, <5>2
      <4>4. QED
        BY <4>1, <4>2, <4>3
    <3>3. QED
      BY <1>8, <3>1, <3>2
  <2>2. ASSUME NEW i \in 2 .. k PROVE \E f \in T2 : Link(hh, r2, a2, i, f)
    <3>1. i \in 2 .. N
      BY <1>0
    <3>2. PICK f \in T : Link(hh, r, a, i, f)
      BY <3>1 DEF Steps, T, N
    <3>3. QED
      BY <1>8, <1>11, <3>2
  <2>3. QED
    BY <2>1, <2>2 DEF Steps, T2
<1>15. ASSUME NEW i \in 1 .. N
       PROVE  /\ Connects(Within(T, S(i)), S(i)) /\ r[i].condition = Marks(Within(T, S(i)))
              /\ Within(T, S(i)) # {} => ~accepting(r[i].condition)
  BY DEF Sccs, T, S, N
<1>16. ASSUME NEW i \in k .. N PROVE Within(T, S(i)) \subseteq E2
  BY <1>4, <1>8 DEF E2, Within
<1>17. ASSUME NEW i \in k + 1 .. N
       PROVE  \E f \in E2 : f.src \in S(i - 1) /\ f.dst \in S(i) /\ f.acc = ArcInto(r, a, i)
  <2>1. PICK f \in T : Link(hh, r, a, i, f)
    BY <1>12 DEF Steps, T, N
  <2>2. f.src \in S(i - 1) /\ f.dst \in S(i) /\ f.acc = ArcInto(r, a, i)
    BY <2>1 DEF Link, S
  <2>3. f.src \in Big /\ f.dst \in Big
    BY <1>4, <1>12, <2>2
  <2>4. QED
    BY <1>8, <2>2, <2>3 DEF E2, Within
<1>18. Connects(E2, Big)
  <2> SUFFICES ASSUME NEW C \in SUBSET Big, C # {}, Closed(E2, C) PROVE Big \subseteq C
    BY DEF Connects
  <2> DEFINE G == {i \in k .. N : S(i) \subseteq C}
  <2>1. ASSUME NEW i \in k .. N, NEW s \in S(i), s \in C PROVE i \in G
    <3>1. C \cap S(i) \in SUBSET S(i) /\ C \cap S(i) # {}
      BY <2>1
    <3>2. Closed(Within(T, S(i)), C \cap S(i))
      BY <1>16 DEF Closed, Within
    <3>3. C \cap S(i) = S(i)
      BY <1>4, <1>15, <3>1, <3>2 DEF Connects
    <3>4. QED
      BY <3>3
  <2>2. ASSUME NEW i \in k .. N - 1, i \in G PROVE i + 1 \in G
    <3>1. i + 1 \in k + 1 .. N /\ (i + 1) - 1 = i /\ i + 1 \in k .. N
      BY <1>0
    <3>2. PICK f \in E2 : f.src \in S(i) /\ f.dst \in S(i + 1)
      BY <1>17, <3>1
    <3>3. f.dst \in C
      BY <2>2, <3>2 DEF Closed
    <3>4. QED
      BY <2>1, <3>1, <3>2, <3>3
  <2>3. PICK x \in C : x \in Big
    OBVIOUS
  <2>4. PICK j \in k .. N : x \in S(j)
    BY <1>5, <2>3
  <2>5. j \in G /\ j \in Nat /\ \A i \in j .. N - 1 : i \in k .. N - 1
    BY <1>0, <2>1, <2>3, <2>4
  <2> HIDE DEF G
  <2>6. \A i \in j .. N : i \in G
    BY <1>0, <2>2, <2>5, ClimbNumbers
  <2>7. N \in G
    BY <1>0, <2>4, <2>6
  <2>8. e.dst \in C
    BY <1>8, <1>9, <2>7 DEF G, Closed
  <2>9. k \in G
    <3>1. k \in k .. N
      BY <1>0
    <3>2. QED
      BY <1>8, <2>1, <2>8, <3>1
  <2>10. \A i \in k .. N : i \in G
    BY <1>0, <2>2, <2>9, ClimbNumbers
  <2>11. QED
    BY <1>5, <2>10 DEF G
<1>19. r2[k].condition = Marks(E2)
  <2> DEFINE Q == UNION {r[i].condition : i \in k + 1 .. N}
             R == UNION {ArcInto(r, a, i) : i \in k + 1 .. N}
  <2>0. r2[k].condition = r[k].condition \cup e.acc \cup Q \cup R
    BY DEF N
  <2>1. \A i \in k .. N : r[i].condition \subseteq Marks(E2)
    <3> SUFFICES ASSUME NEW i \in k .. N PROVE r[i].condition \subseteq Marks(E2)
      OBVIOUS
    <3>1. r[i].condition = Marks(Within(T, S(i))) /\ Within(T, S(i)) \subseteq E2
      BY <1>4, <1>15, <1>16
    <3>2. QED
      BY <3>1 DEF Marks
  <2>2. \A i \in k + 1 .. N : ArcInto(r, a, i) \subseteq Marks(E2)
    <3> SUFFICES ASSUME NEW i \in k + 1 .. N PROVE ArcInto(r, a, i) \subseteq Marks(E2)
      OBVIOUS
    <3>1. PICK f \in E2 : f.acc = ArcInto(r, a, i)
      BY <1>17
    <3>2. QED
      BY ONLY <3>1, f \in E2 DEF Marks
  <2>3. e.acc \subseteq Marks(E2)
    BY <1>9 DEF Marks
  <2>4. k \in k .. N /\ \A i \in k + 1 .. N : i \in k .. N
    BY <1>0
  <2>5. Q \subseteq Marks(E2) /\ R \subseteq Marks(E2)
    BY <2>1, <2>2, <2>4
  <2>6. ASSUME NEW f \in E2 PROVE f.acc \subseteq r2[k].condition
    <3>1. f \in T2 /\ f.src \in Big /\ f.dst \in Big
      BY DEF E2, Within
    <3>2. CASE f = e
      BY <2>0, <3>2
    <3>3. CASE f \in T
      <4>1. hh[f.src] > 0 /\ hh[f.dst] > 0
        BY <1>5, <3>1
      <4>2. \/ \E i \in 1 .. N : f.src \in S(i) /\ f.dst \in S(i)
            \/ \E i \in 2 .. N : Link(hh, r, a, i, f)
        <5>1. \/ hh[f.dst] = -1
              \/ \E i \in 1 .. N : f.src \in S(i) /\ f.dst \in S(i)
              \/ \E i \in 2 .. N : Link(hh, r, a, i, f)
          BY <3>3, <4>1 DEF Steps, T, N, S
        <5>2. hh[f.dst] # -1
          BY <4>1
        <5>3. QED
          BY <5>1, <5>2
      <4>3. ASSUME NEW i \in 1 .. N, f.src \in S(i), f.dst \in S(i)
            PROVE  f.acc \subseteq r2[k].condition
        <5>1. i \in k .. N /\ f \in Within(T, S(i))
          BY <1>6, <3>1, <3>3, <4>3 DEF Within
        <5>2. f.acc \subseteq r[i].condition
          BY <1>15, <5>1 DEF Marks
        <5>3. i = k \/ i \in k + 1 .. N
          BY <1>0, <5>1
        <5>4. i \in k + 1 .. N => r[i].condition \subseteq Q
          BY Zenon
        <5>5. QED
          BY ONLY <2>0, <5>2, <5>3, <5>4
      <4>4. ASSUME NEW i \in 2 .. N, Link(hh, r, a, i, f)
            PROVE  f.acc \subseteq r2[k].condition
        <5>1. f.src \in S(i - 1) /\ f.acc = ArcInto(r, a, i) /\ i - 1 \in 1 .. N
          BY <1>0, <4>4 DEF Link, S
        <5>2. i - 1 \in k .. N
          BY <1>6, <3>1, <5>1
        <5>3. i \in k + 1 .. N
          BY <1>0, <5>2
        <5>4. ArcInto(r, a, i) \subseteq R
          BY <5>3, Zenon
        <5>5. QED
          BY ONLY <2>0, <5>1, <5>4
      <4>5. QED
        BY <4>2, <4>3, <4>4
    <3>4. QED
      BY <1>8, <3>1, <3>2, <3>3
  <2> HIDE DEF Q, R
  <2>7. r[k].condition \subseteq Marks(E2)
    BY <2>1, <2>4
  <2>8. r2[k].condition \subseteq Marks(E2)
    BY ONLY <2>0, <2>3, <2>5, <2>7
  <2>9. Marks(E2) \subseteq r2[k].condition
    BY ONLY <2>6 DEF Marks
  <2>10. QED
    BY <2>8, <2>9
<1>20. ~accepting(r2[k].condition) => Sccs(A, hh, r2, P2)
  <2> SUFFICES ASSUME ~accepting(r2[k].condition), NEW i \in 1 .. k
               PROVE  LET E == Within(T2, Scc(hh, r2, i))
                      IN /\ Connects(E, Scc(hh, r2, i)) /\ r2[i].condition = Marks(E)
                         /\ E # {} => ~accepting(r2[i].condition)
    BY DEF Sccs, T2
  <2>1. CASE i = k
    BY <1>18, <1>19, <2>1 DEF Big, E2
  <2>2. CASE i \in 1 .. k - 1
    <3>1. e.src \notin S(i)
      BY <1>6, <1>7, <1>8, <2>2
    <3>2. Within(T2, Scc(hh, r2, i)) = Within(T, S(i))
      BY <1>7, <1>8, <2>2, <3>1 DEF Within
    <3>3. r2[i].condition = r[i].condition
      BY <2>2
    <3>4. QED
      BY <1>7, <1>15, <2>2, <3>2, <3>3
  <2>3. QED
    BY <1>0, <2>1, <2>2
<1>21. QED
  <2>1. \A s \in State : s \in Big <=> \E i \in k .. N : s \in S(i)
    BY <1>4, <1>5
  <2>2. QED
    BY <1>7, <1>9, <1>13, <1>14, <1>18, <1>19, <1>20, <2>1 DEF Big, E2, T2, S, N, MergedScc

(* All the edges out of the last component were taken, and lead into it or *)
(* to dead states.                                                         *)
LastClosed(A, hh, r, P) ==
  \A f \in Live(A) : f.src \in Scc(hh, r, Len(r)) =>
    f \in Taken(A, hh, P) /\ (f.dst \in DeadSet(hh) \/ f.dst \in Scc(hh, r, Len(r)))

(* Once all the edges out of the last component were taken, no accepting   *)
(* run goes through it, or it would have been found when its last edge was *)
(* merged.                                                                 *)
LEMMA LastSccHasNoRun ==
  ASSUME NEW A \in SUBSET Edge, NEW hh \in [State -> Int], NEW r, NEW a, NEW P,
         Roots(hh, r), Steps(A, hh, r, a, P), Sccs(A, hh, r, P), NoRun(A, DeadSet(hh)),
         ~uses_fin_acceptance, r # << >>, \A f \in P : f.src \notin Scc(hh, r, Len(r))
  PROVE  LastClosed(A, hh, r, P) /\ NoRun(A, DeadSet(hh) \cup Scc(hh, r, Len(r)))
<1> DEFINE N == Len(r)
           L == Live(A)
           T == Taken(A, hh, P)
           S == Scc(hh, r, N)
           D == DeadSet(hh)
<1>0. N \in Nat \ {0} /\ N \in 1 .. N
  BY RootFacts DEF Roots
<1>1. \A s \in S : s \in State /\ hh[s] > 0
  BY <1>0, SccFacts
<1>2. /\ Connects(Within(T, S), S) /\ r[N].condition = Marks(Within(T, S))
      /\ Within(T, S) # {} => ~accepting(r[N].condition)
  BY <1>0 DEF Sccs
<1>3. \A f \in L : f.src \in State /\ f.dst \in State /\ f.acc \in SUBSET Mark /\ f \in A
  BY DEF Live, Edge
<1> HIDE DEF N, L, T, S, D
<1>4. ASSUME NEW f \in L, f.src \in S PROVE f \in T /\ (f.dst \in D \/ f.dst \in S)
  <2>1. f \in T /\ hh[f.src] > 0
    BY <1>1, <1>4 DEF T, Taken, L, S, N
  <2>2. \/ hh[f.dst] = -1
        \/ \E i \in 1 .. N : f.src \in Scc(hh, r, i) /\ f.dst \in Scc(hh, r, i)
        \/ \E i \in 2 .. N : Link(hh, r, a, i, f)
    BY <2>1 DEF Steps, T, N
  <2>3. CASE hh[f.dst] = -1
    BY <1>3, <2>1, <2>3 DEF D, DeadSet
  <2>4. ASSUME NEW i \in 1 .. N, f.src \in Scc(hh, r, i), f.dst \in Scc(hh, r, i) PROVE f.dst \in S
    <3>1. i = N
      BY <1>0, <1>4, <2>4, SccsAreDisjoint DEF S, N
    <3>2. QED
      BY <2>4, <3>1 DEF S
  <2>5. ASSUME NEW i \in 2 .. N, Link(hh, r, a, i, f) PROVE FALSE
    <3>1. i - 1 \in 1 .. N /\ i - 1 # N
      BY <1>0
    <3>2. f.src \in Scc(hh, r, i - 1)
      BY <2>5 DEF Link
    <3>3. QED
      BY <1>0, <1>4, <3>1, <3>2, SccsAreDisjoint DEF S, N
  <2>6. QED
    BY <2>1, <2>2, <2>3, <2>4, <2>5
<1>5. Closed(L, D \cup S)
  BY <1>4 DEF NoRun, Closed, L, D
<1>6. ASSUME NEW E \in SUBSET {f \in L : f.src \in D \cup S}, StronglyConnected(E), accepting(Marks(E))
      PROVE  FALSE
  <2>1. \A f \in E : f \in L /\ f.src \in Touched(E) /\ f.dst \in Touched(E)
    BY DEF Touched
  <2>2. \A C \in SUBSET Touched(E) : C # {} /\ Closed(E, C) => C = Touched(E)
    BY <1>6 DEF StronglyConnected
  <2>3. CASE Touched(E) \cap D # {}
    <3>1. Closed(E, Touched(E) \cap D)
      BY <2>1 DEF NoRun, Closed, L, D
    <3>2. Touched(E) \subseteq D
      BY <2>2, <2>3, <3>1
    <3>3. E \in SUBSET {f \in L : f.src \in D}
      BY <2>1, <3>2
    <3>4. QED
      BY <1>6, <3>3 DEF NoRun, L, D
  <2>4. CASE Touched(E) \cap D = {}
    <3>1. \A f \in E : f.src \in S /\ f.dst \in S /\ f \in T
      BY <1>4, <2>1, <2>4
    <3>2. E \subseteq Within(T, S) /\ Within(T, S) # {}
      BY <1>6, <3>1 DEF Within, StronglyConnected
    <3>3. Marks(E) \subseteq r[N].condition
      BY <1>2, <3>2 DEF Marks
    <3>4. r[N].condition \in SUBSET Mark
      BY <1>0, RootFacts DEF Component, N
    <3>5. accepting(r[N].condition)
      BY <1>6, <3>3, <3>4, MoreMarks DEF accepting
    <3>6. QED
      BY <1>2, <3>2, <3>5
  <2>5. QED
    BY <2>3, <2>4
<1>7. QED
  BY <1>4, <1>5, <1>6 DEF NoRun, N, L, T, S, D, LastClosed

(* A search from a state of the last component that avoids dead states     *)
(* finds all of this component, and no more.                               *)
LEMMA SearchInLastScc ==
  ASSUME NEW A \in SUBSET Edge, NEW hh \in [State -> Int], NEW r, NEW P,
         Roots(hh, r), Sccs(A, hh, r, P), r # << >>, LastClosed(A, hh, r, P),
         NEW from \in Scc(hh, r, Len(r))
  PROVE  Reach({f \in Live(A) : hh[f.dst] # -1}, from) = Scc(hh, r, Len(r))
<1> DEFINE N == Len(r)
           F == {f \in Live(A) : hh[f.dst] # -1}
           T == Taken(A, hh, P)
           S == Scc(hh, r, N)
<1>0. N \in Nat \ {0} /\ N \in 1 .. N
  BY RootFacts DEF Roots
<1>1. /\ \A s \in S : s \in State /\ hh[s] > 0
  BY <1>0, SccFacts
<1>2. Connects(Within(T, S), S)
  BY <1>0 DEF Sccs
<1>3. F \in SUBSET Edge
  BY DEF Live
<1>4. Closed(F, S)
  BY DEF Closed, DeadSet, LastClosed
<1>5. S \in SUBSET State /\ from \in S /\ from \in State
  BY <1>1
<1>6. Within(T, S) \subseteq F
  <2>1. \A f \in Within(T, S) : f \in Live(A) /\ f.dst \in S
    BY DEF Within, Taken
  <2>2. QED
    BY <1>1, <2>1
<1> HIDE DEF F, S, T, N
<1>7. Reach(F, from) \subseteq S
  BY <1>4, <1>5, ReachInClosed
<1>8. from \in Reach(F, from) /\ Closed(F, Reach(F, from))
  BY <1>3, <1>5, ReachFacts
<1>9. Closed(Within(T, S), Reach(F, from))
  BY <1>6, <1>8 DEF Closed
<1>10. Reach(F, from) = S
  BY <1>2, <1>7, <1>8, <1>9 DEF Connects
<1>11. QED
  BY <1>10 DEF F, S, N

(* r without its last element.                                             *)
Popped(r, r2) == Len(r2) = Len(r) - 1 /\ \A i \in 1 .. Len(r) - 1 : r2[i] = r[i]

(* The states of S are declared dead.                                      *)
Killed(hh, S, hh2) ==
  hh2 \in [State -> Int] /\ \A s \in State : hh2[s] = IF s \in S THEN -1 ELSE hh[s]

RemovedScc(A, hh, r, hh2, r2, a2, P) ==
  /\ Roots(hh2, r2) /\ Steps(A, hh2, r2, a2, P) /\ Sccs(A, hh2, r2, P)
  /\ \A i \in 1 .. Len(r) - 1 : Scc(hh2, r2, i) = Scc(hh, r, i)
  /\ DeadSet(hh2) = DeadSet(hh) \cup Scc(hh, r, Len(r))

(* The last component is removed.                                          *)
LEMMA RemoveScc ==
  ASSUME NEW A \in SUBSET Edge, NEW hh \in [State -> Int], NEW r, NEW a \in Seq(SUBSET Mark), NEW P,
         Roots(hh, r), Steps(A, hh, r, a, P), Sccs(A, hh, r, P), Len(a) >= Len(r) - 1, r # << >>,
         NEW hh2, Killed(hh, Scc(hh, r, Len(r)), hh2),
         NEW r2 \in Seq(Component), Popped(r, r2), NEW a2, Popped(a, a2)
  PROVE  RemovedScc(A, hh, r, hh2, r2, a2, P)
<1>00. /\ hh2 \in [State -> Int]
       /\ \A s \in State : hh2[s] = IF s \in Scc(hh, r, Len(r)) THEN -1 ELSE hh[s]
       /\ Len(r2) = Len(r) - 1
       /\ \A i \in 1 .. Len(r) - 1 : r2[i].index = r[i].index /\ r2[i].condition = r[i].condition
       /\ Len(a2) = Len(a) - 1 /\ \A i \in 1 .. Len(a) - 1 : a2[i] = a[i]
  BY DEF Killed, Popped
<1> USE <1>00
<1> DEFINE N == Len(r)
           T == Taken(A, hh, P)
           S(i) == Scc(hh, r, i)
<1>0. N \in Nat \ {0} /\ N \in 1 .. N
  BY RootFacts DEF Roots
<1>1. \A i \in 1 .. N : r[i].index \in Nat \ {0} /\ r[i] \in Component
  BY RootFacts
<1>2. /\ \A s \in State : hh[s] > 0 => \E i \in 1 .. N : s \in S(i)
      /\ \A i \in 1 .. N : \A s \in S(i) :
           /\ s \in State /\ hh[s] > 0
           /\ \A j \in 1 .. N : r[j].index <= hh[s] <=> j <= i
  BY SccFacts
<1>3. \A s \in State : s \in S(N) <=> hh[s] >= r[N].index
  BY <1>0 DEF Scc
<1>4. /\ \A s \in S(N) : hh2[s] = -1
      /\ \A s \in State : s \notin S(N) => hh2[s] = hh[s]
  BY <1>0, <1>2
<1> HIDE DEF N, T, S
<1>5. ASSUME NEW i \in 1 .. N - 1
      PROVE  /\ i \in 1 .. N /\ i < N /\ i + 1 \in 1 .. N
             /\ r2[i].index = r[i].index /\ r2[i].condition = r[i].condition
  BY <1>0 DEF N
<1>6. ASSUME NEW i \in 1 .. N - 1 PROVE Scc(hh2, r2, i) = S(i)
  <2>1. /\ r2[i].index = r[i].index /\ r[i].index \in Nat \ {0} /\ r[i + 1].index \in Nat
        /\ r[i + 1].index <= r[N].index /\ r[N].index \in Nat
    <3>0. N \in Nat
      BY <1>0
    <3>1. i + 1 = N \/ i + 1 < N
      BY ONLY <3>0, i \in 1 .. N - 1
    <3>2. i \in 1 .. N /\ i + 1 \in 1 .. N /\ r2[i].index = r[i].index
      BY ONLY <1>5
    <3>3. r[i].index \in Nat \ {0} /\ r[i + 1].index \in Nat /\ r[N].index \in Nat
      BY ONLY <1>0, <1>1, <3>2
    <3>4. \A j, m \in 1 .. N : j < m => r[j].index < r[m].index
      BY DEF Roots, N
    <3>5. r[i + 1].index <= r[N].index
      BY ONLY <1>0, <3>1, <3>2, <3>3, <3>4
    <3>6. QED
      BY ONLY <3>2, <3>3, <3>5
  <2>2. Len(r2) = N - 1 /\ (i < N - 1 => r2[i + 1].index = r[i + 1].index)
    <3>1. i < N - 1 => i + 1 \in 1 .. N - 1
      BY ONLY <1>0, i \in 1 .. N - 1
    <3>2. Len(r2) = N - 1
      BY <1>00 DEF N
    <3>3. QED
      BY ONLY <1>5, <3>1, <3>2
  <2>3. ASSUME NEW s \in State PROVE s \in Scc(hh2, r2, i) <=> s \in S(i)
    <3>1. hh[s] \in Int
      OBVIOUS
    <3>2. CASE s \in S(N)
      <4>1. hh2[s] = -1 /\ hh[s] >= r[N].index
        BY <1>3, <1>4, <3>2
      <4>2. s \notin Scc(hh2, r2, i)
        BY <2>1, <4>1 DEF Scc
      <4>3. s \notin S(i)
        BY <1>5, <2>1, <3>1, <4>1 DEF Scc, S, N
      <4>4. QED
        BY <4>2, <4>3
    <3>3. CASE s \notin S(N)
      <4>1. hh2[s] = hh[s] /\ hh[s] < r[N].index
        BY <1>3, <1>4, <2>1, <3>1, <3>3
      <4>2. CASE i < N - 1
        BY <1>5, <2>1, <2>2, <4>1, <4>2 DEF Scc, S, N
      <4>3. CASE i = N - 1
        BY <1>0, <1>5, <2>1, <2>2, <4>1, <4>3 DEF Scc, S, N
      <4>4. QED
        BY <1>0, <4>2, <4>3
    <3>4. QED
      BY <3>2, <3>3
  <2>4. QED
    BY <2>3 DEF Scc, S
<1>7. Roots(hh2, r2)
  <2>1. ASSUME NEW s \in State, hh2[s] > 0 PROVE r2 # << >> /\ r2[1].index <= hh2[s]
    <3>1. s \notin S(N) /\ hh[s] > 0 /\ hh2[s] = hh[s]
      BY <1>4, <2>1
    <3>2. PICK i \in 1 .. N : s \in S(i)
      BY <1>2, <3>1
    <3>3. 1 \in 1 .. N - 1
      BY <1>0, <3>1, <3>2
    <3>4. r2 # << >> /\ r2[1].index = r[1].index
      BY <1>0, <1>5, <3>3 DEF N
    <3>5. QED
      BY <3>1, <3>4 DEF Roots
  <2>2. \A i, j \in 1 .. N - 1 : i < j => r2[i].index < r2[j].index
    BY <1>5 DEF Roots, N
  <2>3. \A i \in 1 .. N - 1 : r2[i].index > 0
    BY ONLY <1>1, <1>5
  <2>4. QED
    BY <2>1, <2>2, <2>3 DEF Roots, N
<1>8. Taken(A, hh2, P) = T
  <2>1. \A f \in Live(A) : f.src \in State /\ (hh2[f.src] = 0 <=> hh[f.src] = 0)
    <3> SUFFICES ASSUME NEW f \in Live(A) PROVE f.src \in State /\ (hh2[f.src] = 0 <=> hh[f.src] = 0)
      OBVIOUS
    <3>1. f.src \in State
      BY DEF Live, Edge
    <3>2. QED
      BY <1>0, <1>2, <1>4, <3>1
  <2>2. QED
    BY <2>1 DEF Taken, T
<1>9. ASSUME NEW i \in 2 .. N - 1, NEW f PROVE Link(hh2, r2, a2, i, f) <=> Link(hh, r, a, i, f)
  <2>1. i \in 1 .. N - 1 /\ i - 1 \in 1 .. N - 1 /\ Len(a) \in Nat
    BY <1>0
  <2>2. Len(a2) - (Len(r2) - i) = Len(a) - (N - i) /\ Len(a) - (N - i) \in 1 .. Len(a) - 1
    BY <1>0, <2>1 DEF N
  <2>3. ArcInto(r2, a2, i) = ArcInto(r, a, i)
    BY <2>2 DEF ArcInto, N
  <2>4. QED
    BY <1>6, <2>1, <2>3 DEF Link, S
<1>10. Steps(A, hh2, r2, a2, P)
  <2>1. ASSUME NEW f \in T, hh2[f.src] > 0
        PROVE  \/ hh2[f.dst] = -1
               \/ \E i \in 1 .. N - 1 : f.src \in Scc(hh2, r2, i) /\ f.dst \in Scc(hh2, r2, i)
               \/ \E i \in 2 .. N - 1 : Link(hh2, r2, a2, i, f)
    <3>1. f.src \in State /\ f.dst \in State
      BY DEF T, Taken, Live, Edge
    <3>2. f.src \notin S(N) /\ hh[f.src] > 0
      BY <1>4, <2>1, <3>1
    <3>3. CASE f.dst \in S(N)
      BY <1>4, <3>3
    <3>4. CASE f.dst \notin S(N)
      <4>1. \/ hh[f.dst] = -1
            \/ \E i \in 1 .. N : f.src \in S(i) /\ f.dst \in S(i)
            \/ \E i \in 2 .. N : Link(hh, r, a, i, f)
        BY <3>2 DEF Steps, T, S, N
      <4>2. CASE hh[f.dst] = -1
        BY <1>4, <3>1, <3>4, <4>2
      <4>3. ASSUME NEW i \in 1 .. N, f.src \in S(i), f.dst \in S(i)
            PROVE  \E j \in 1 .. N - 1 : f.src \in Scc(hh2, r2, j) /\ f.dst \in Scc(hh2, r2, j)
        <5>1. i \in 1 .. N - 1
          BY <1>0, <3>2, <4>3
        <5>2. QED
          BY <1>6, <4>3, <5>1
      <4>4. ASSUME NEW i \in 2 .. N, Link(hh, r, a, i, f)
            PROVE  \E j \in 2 .. N - 1 : Link(hh2, r2, a2, j, f)
        <5>1. i # N
          BY <3>4, <4>4 DEF Link, S
        <5>2. i \in 2 .. N - 1
          BY <1>0, <5>1
        <5>3. QED
          BY <1>9, <4>4, <5>2
      <4>5. QED
        BY <4>1, <4>2, <4>3, <4>4
    <3>5. QED
      BY <3>3, <3>4
  <2>2. ASSUME NEW i \in 2 .. N - 1 PROVE \E f \in T : Link(hh2, r2, a2, i, f)
    <3>1. i \in 2 .. N
      BY <1>0
    <3>2. PICK f \in T : Link(hh, r, a, i, f)
      BY <3>1 DEF Steps, T, N
    <3>3. QED
      BY <1>9, <3>2
  <2>3. QED
    BY <1>8, <2>1, <2>2 DEF Steps, N
<1>11. Sccs(A, hh2, r2, P)
  <2> SUFFICES ASSUME NEW i \in 1 .. N - 1
               PROVE  LET E == Within(T, Scc(hh2, r2, i))
                      IN /\ Connects(E, Scc(hh2, r2, i)) /\ r2[i].condition = Marks(E)
                         /\ E # {} => ~accepting(r2[i].condition)
    BY <1>8 DEF Sccs, N
  <2>1. QED
    BY <1>5, <1>6 DEF Sccs, S, T, N
<1>12. DeadSet(hh2) = DeadSet(hh) \cup S(N)
  <2>1. \A s \in State : hh2[s] = -1 <=> hh[s] = -1 \/ s \in S(N)
    BY <1>4
  <2>2. S(N) \subseteq State
    BY <1>0, <1>2
  <2>3. QED
    BY <2>1, <2>2 DEF DeadSet
<1>13. QED
  BY <1>6, <1>7, <1>10, <1>11, <1>12 DEF N, S, RemovedScc

-----------------------------------------------------------------------------
(* Queues                                                                  *)

(* What is different at different places is held once.                     *)
LEMMA OnceIf ==
  ASSUME NEW f, NEW D, DOMAIN f = D, \A a, b \in D : f[a] = f[b] => a = b
  PROVE  IsInjective(f)
BY DEF IsInjective

(* What is held once is held at one place.                                 *)
LEMMA OnceThen ==
  ASSUME NEW f, IsInjective(f), NEW a \in DOMAIN f, NEW b \in DOMAIN f, f[a] = f[b]
  PROVE  a = b
BY DEF IsInjective

(* The queue of an iterator holds each of its edges once.                  *)
LEMMA SeqOfSet ==
  ASSUME NEW S, IsFiniteSet(S), NEW q \in SetToSeqs(S)
  PROVE  q \in Seq(S) /\ ToSet(q) = S /\ IsInjective(q) /\ DOMAIN q = 1 .. Len(q)
<1> DEFINE n == Cardinality(S)
           D == 1 .. n
<1>1. n \in Nat
  BY FS_CardinalityType
<1>2. q \in [D -> S] /\ \A i, j \in D : i # j => q[i] # q[j]
  BY DEF SetToSeqs
<1>3. q \in Injection(D, S) /\ IsInjective(q)
  BY <1>2 DEF Injection, IsInjective
<1>4. Cardinality(D) = n
  BY <1>1, FS_Interval
<1>5. q \in Surjection(D, S)
  BY <1>3, <1>4, FS_Injection
<1>6. ToSet(q) = S
  BY <1>2, <1>5 DEF Surjection, ToSet
<1>7. QED
  BY <1>1, <1>2, <1>3, <1>6

(* What two queues hold together.                                          *)
LEMMA JoinQueues ==
  ASSUME NEW T, NEW p \in Seq(T), NEW q \in Seq(T)
  PROVE  /\ p \o q \in Seq(T) /\ ToSet(p \o q) = ToSet(p) \cup ToSet(q)
         /\ IsInjective(p) /\ IsInjective(q) /\ ToSet(p) \cap ToSet(q) = {} => IsInjective(p \o q)
<1> DEFINE j == p \o q
           n == Len(p)
           m == Len(q)
<1>1. n \in Nat /\ m \in Nat /\ DOMAIN p = 1 .. n /\ DOMAIN q = 1 .. m
  OBVIOUS
<1>2. /\ j \in Seq(T) /\ DOMAIN j = 1 .. n + m
      /\ \A i \in 1 .. n : j[i] = p[i]
      /\ \A i \in 1 .. m : j[n + i] = q[i]
  BY <1>1
<1> HIDE DEF j, n, m
<1>3. ASSUME NEW i \in 1 .. n + m
      PROVE  \/ i \in 1 .. n /\ j[i] = p[i]
             \/ i - n \in 1 .. m /\ j[i] = q[i - n]
  BY <1>1, <1>2
<1>4. \A i \in 1 .. n : i \in 1 .. n + m
  BY <1>1
<1>5. \A i \in 1 .. m : n + i \in 1 .. n + m
  BY <1>1
<1>6. ToSet(j) = ToSet(p) \cup ToSet(q)
  <2>1. \A x \in ToSet(j) : x \in ToSet(p) \cup ToSet(q)
    BY <1>1, <1>2, <1>3 DEF ToSet
  <2>2. \A x \in ToSet(p) : x \in ToSet(j)
    BY <1>1, <1>2, <1>4 DEF ToSet
  <2>3. \A x \in ToSet(q) : x \in ToSet(j)
    BY <1>1, <1>2, <1>5 DEF ToSet
  <2>4. QED
    BY <2>1, <2>2, <2>3
<1>7. ASSUME IsInjective(p), IsInjective(q), ToSet(p) \cap ToSet(q) = {},
             NEW i \in 1 .. n + m, NEW k \in 1 .. n + m, j[i] = j[k]
      PROVE  i = k
  <2>1. \A a \in 1 .. n, b \in 1 .. m : p[a] # q[b]
    BY <1>1, <1>7 DEF ToSet
  <2>2. CASE i \in 1 .. n /\ j[i] = p[i] /\ k \in 1 .. n /\ j[k] = p[k]
    BY <1>1, <1>7, <2>2 DEF IsInjective
  <2>3. CASE i - n \in 1 .. m /\ j[i] = q[i - n] /\ k - n \in 1 .. m /\ j[k] = q[k - n]
    <3>1. i - n = k - n
      BY <1>1, <1>7, <2>3 DEF IsInjective
    <3>2. QED
      BY <1>1, <3>1
  <2>4. QED
    BY <1>3, <1>7, <2>1, <2>2, <2>3
<1>8. QED
  BY <1>2, <1>6, <1>7 DEF j, IsInjective

(* What a sequence of queues holds altogether.                             *)
LEMMA FlatQueues ==
  ASSUME NEW T, NEW ss \in Seq(Seq(T))
  PROVE  /\ FlattenSeq(ss) \in Seq(T)
         /\ ToSet(FlattenSeq(ss)) = UNION {ToSet(ss[i]) : i \in 1 .. Len(ss)}
         /\ (/\ \A i \in 1 .. Len(ss) : IsInjective(ss[i])
             /\ \A i, j \in 1 .. Len(ss) : i # j => ToSet(ss[i]) \cap ToSet(ss[j]) = {})
              => IsInjective(FlattenSeq(ss))
<1> DEFINE n == Len(ss)
           Body(f, i) == IF i = 1 THEN ss[i] ELSE f[i - 1] \o ss[i]
           Flat(f, m) == f = [i \in 1 .. m |-> Body(f, i)]
           Upto(m) == UNION {ToSet(ss[i]) : i \in 1 .. m}
           Once == /\ \A i \in 1 .. n : IsInjective(ss[i])
                   /\ \A i, j \in 1 .. n : i # j => ToSet(ss[i]) \cap ToSet(ss[j]) = {}
<1>1. n \in Nat /\ \A i \in 1 .. n : ss[i] \in Seq(T)
  OBVIOUS
<1>2. CASE n = 0
  <2>1. FlattenSeq(ss) = ss /\ ss = << >> /\ DOMAIN ss = {}
    BY <1>2 DEF FlattenSeq
  <2>2. ToSet(ss) = {} /\ IsInjective(ss) /\ ss \in Seq(T)
    BY <2>1 DEF ToSet, IsInjective
  <2>3. {ToSet(ss[i]) : i \in 1 .. n} = {}
    BY <1>2
  <2>4. QED
    BY <2>1, <2>2, <2>3
<1>3. CASE n # 0
  <2> DEFINE f == CHOOSE g : Flat(g, n)
  <2>1. FlattenSeq(ss) = f[n]
    BY <1>3, Zenon DEF FlattenSeq
  <2> HIDE DEF n
  <2>2. \E g : Flat(g, n)
    <3> DEFINE G == {m \in 1 .. n : \E g : Flat(g, m)}
    <3>1. 1 \in G
      <4>1. Flat([i \in 1 .. 1 |-> ss[1]], 1)
        OBVIOUS
      <4> HIDE DEF Flat
      <4>2. 1 \in 1 .. n
        BY <1>1, <1>3
      <4>3. QED
        BY <4>1, <4>2
    <3>2. ASSUME NEW m \in 1 .. n - 1, m \in G PROVE m + 1 \in G
      <4>1. PICK g : Flat(g, m)
        BY <3>2
      <4> DEFINE w == [i \in 1 .. m + 1 |-> IF i <= m THEN g[i] ELSE g[m] \o ss[m + 1]]
      <4>2. m \in Nat \ {0} /\ m + 1 \in 1 .. n
        BY <1>1
      <4>5. \A i \in 1 .. m : g[i] = Body(g, i)
        BY <4>1
      <4> HIDE DEF Flat
      <4>3. \A i \in 1 .. m : w[i] = g[i]
        <5>1. \A i \in 1 .. m : i \in 1 .. m + 1 /\ i <= m
          BY ONLY <4>2
        <5>2. QED
          BY ONLY <5>1
      <4>4. w[m + 1] = g[m] \o ss[m + 1]
        <5>1. m + 1 \in 1 .. m + 1 /\ ~(m + 1 <= m)
          BY ONLY <4>2
        <5>2. QED
          BY ONLY <5>1
      <4>6. ASSUME NEW i \in 1 .. m + 1 PROVE w[i] = Body(w, i)
        <5>1. CASE i = 1
          <6>1. i \in 1 .. m
            BY <4>2, <5>1
          <6>2. w[i] = ss[i]
            BY <4>3, <4>5, <5>1, <6>1
          <6>3. QED
            BY <5>1, <6>2
        <5>2. CASE i # 1 /\ i <= m
          <6>1. i \in 1 .. m /\ i - 1 \in 1 .. m
            BY <4>2, <5>2
          <6> HIDE DEF w
          <6>2. QED
            BY <4>3, <4>5, <5>2, <6>1
        <5>3. CASE i = m + 1
          <6>1. i - 1 = m /\ m \in 1 .. m /\ i # 1
            BY <4>2, <5>3
          <6> HIDE DEF w
          <6>2. QED
            BY <4>3, <4>4, <5>3, <6>1
        <5>4. QED
          BY <4>2, <5>1, <5>2, <5>3
      <4>7. w = [i \in 1 .. m + 1 |-> w[i]]
        OBVIOUS
      <4> HIDE DEF w
      <4>8. w = [i \in 1 .. m + 1 |-> Body(w, i)]
        BY <4>6, <4>7
      <4>9. Flat(w, m + 1)
        BY <4>8 DEF Flat
      <4>10. QED
        BY <4>2, <4>9
    <3> HIDE DEF G
    <3>3. \A i \in 1 .. n : i \in G
      BY <1>1, <3>1, <3>2, ClimbNumbers
    <3>4. n \in 1 .. n
      BY <1>1, <1>3
    <3>5. QED
      BY <3>3, <3>4 DEF G
  <2>3. Flat(f, n)
    <3> HIDE DEF Flat
    <3>1. QED
      BY <2>2
  <2> HIDE DEF f
  <2>4. f[1] = ss[1] /\ \A i \in 2 .. n : f[i] = f[i - 1] \o ss[i]
    <3>1. \A i \in 1 .. n : f[i] = Body(f, i)
      BY <2>3
    <3> HIDE DEF Flat
    <3>2. 1 \in 1 .. n /\ \A i \in 2 .. n : i \in 1 .. n /\ i # 1
      BY <1>1, <1>3
    <3>3. QED
      BY ONLY <3>1, <3>2
  <2> HIDE DEF Flat
  <2> DEFINE Good(i) == /\ f[i] \in Seq(T) /\ ToSet(f[i]) = Upto(i)
                        /\ Once => IsInjective(f[i])
             G == {i \in 1 .. n : Good(i)}
  <2>5. 1 \in G
    <3>1. 1 \in 1 .. n /\ 1 .. 1 = {1}
      BY <1>1, <1>3
    <3>2. Upto(1) = ToSet(ss[1])
      BY <3>1
    <3>3. QED
      BY <1>1, <2>4, <3>1, <3>2
  <2>6. ASSUME NEW i \in 1 .. n - 1, i \in G PROVE i + 1 \in G
    <3>1. i + 1 \in 1 .. n /\ f[i + 1] = f[i] \o ss[i + 1] /\ ss[i + 1] \in Seq(T) /\ Good(i)
      <4>1. Good(i)
        BY <2>6
      <4>2. i + 1 \in 1 .. n /\ i + 1 \in 2 .. n /\ (i + 1) - 1 = i
        BY <1>1
      <4> HIDE DEF Good
      <4>3. f[i + 1] = f[i] \o ss[i + 1]
        BY <2>4, <4>2
      <4>4. QED
        BY <1>1, <4>1, <4>2, <4>3
    <3>2. Upto(i + 1) = Upto(i) \cup ToSet(ss[i + 1])
      <4>1. 1 .. i + 1 = (1 .. i) \cup {i + 1}
        BY <1>1
      <4>2. QED
        BY <4>1
    <3>3. Once => Upto(i) \cap ToSet(ss[i + 1]) = {}
      <4>1. \A j \in 1 .. i : j \in 1 .. n /\ j # i + 1
        BY <1>1
      <4>2. i + 1 \in 1 .. n
        BY <3>1
      <4>3. ASSUME Once PROVE \A j \in 1 .. i : ToSet(ss[j]) \cap ToSet(ss[i + 1]) = {}
        BY <4>1, <4>2, <4>3
      <4>4. QED
        BY <4>3
    <3> HIDE DEF Once, Upto
    <3>4. /\ f[i] \o ss[i + 1] \in Seq(T) /\ ToSet(f[i] \o ss[i + 1]) = ToSet(f[i]) \cup ToSet(ss[i + 1])
          /\ IsInjective(f[i]) /\ IsInjective(ss[i + 1]) /\ ToSet(f[i]) \cap ToSet(ss[i + 1]) = {}
               => IsInjective(f[i] \o ss[i + 1])
      BY <3>1, JoinQueues
    <3>5. Once => IsInjective(ss[i + 1])
      BY <3>1 DEF Once
    <3>6. QED
      BY <3>1, <3>2, <3>3, <3>4, <3>5
  <2> HIDE DEF G
  <2>7. \A i \in 1 .. n : i \in G
    BY <1>1, <2>5, <2>6, ClimbNumbers
  <2>8. n \in 1 .. n
    BY <1>1, <1>3
  <2>9. Good(n)
    BY <2>7, <2>8 DEF G
  <2>10. QED
    BY <2>1, <2>9 DEF n
<1>4. QED
  BY <1>2, <1>3

-----------------------------------------------------------------------------
(* The search path                                                         *)

(* The states of the path are alive, and the last one is in the last       *)
(* component.                                                              *)
LEMMA PathFacts ==
  ASSUME NEW hh \in [State -> Int], NEW r, NEW t, Roots(hh, r), SearchPath(hh, r, t)
  PROVE  /\ Len(t) \in Nat /\ DOMAIN t = 1 .. Len(t) /\ (t # << >> => Len(t) \in 1 .. Len(t))
         /\ \A k \in 1 .. Len(t) : /\ t[k] \in Todo /\ t[k].s \in State /\ t[k].n \in Nat \ {0}
                                   /\ t[k].q \in Seq(Edge) /\ hh[t[k].s] = t[k].n
         /\ \A k, l \in 1 .. Len(t) : k <= l => t[k].n <= t[l].n
         /\ t # << >> => /\ r # << >> /\ Len(r) \in 1 .. Len(r)
                         /\ \A i \in 1 .. Len(r) : r[i].index <= t[Len(t)].n
         /\ \A k \in 1 .. Len(t) : t[k].s \in Scc(hh, r, Len(r)) <=> r[Len(r)].index <= t[k].n
<1> DEFINE N == Len(t)
<1>1. t \in Seq(Todo) /\ N \in Nat /\ DOMAIN t = 1 .. N /\ (t # << >> => N \in 1 .. N)
  BY DEF SearchPath
<1>2. \A k \in 1 .. N : t[k] \in Todo
  BY <1>1
<1>3. \A k \in 1 .. N : /\ t[k].s \in State /\ t[k].n \in Nat \ {0} /\ t[k].q \in Seq(Edge)
                        /\ hh[t[k].s] = t[k].n
  BY <1>2 DEF SearchPath, Todo
<1>4. \A k, l \in 1 .. N : k <= l => t[k].n <= t[l].n
  <2> SUFFICES ASSUME NEW k \in 1 .. N, NEW l \in 1 .. N, k <= l PROVE t[k].n <= t[l].n
    OBVIOUS
  <2>1. k = l \/ k < l
    OBVIOUS
  <2>2. k < l => t[k].n < t[l].n
    BY DEF SearchPath
  <2>3. t[k].n \in Nat /\ t[l].n \in Nat
    BY <1>3
  <2>4. QED
    BY <2>1, <2>2, <2>3
<1>5. /\ Len(r) \in Nat /\ r \in Seq(Component) /\ \A i \in 1 .. Len(r) : r[i].index \in Nat
  BY RootFacts DEF Roots
<1>6. ASSUME t # << >>
      PROVE  r # << >> /\ Len(r) \in 1 .. Len(r) /\ \A i \in 1 .. Len(r) : r[i].index <= t[N].n
  <2>1. N \in 1 .. N /\ t[N].s \in State /\ hh[t[N].s] > 0
    BY <1>1, <1>3, <1>6
  <2>2. r # << >>
    BY <2>1 DEF Roots
  <2>3. Len(r) \in 1 .. Len(r)
    BY <1>5, <2>2
  <2>4. ASSUME NEW i \in 1 .. Len(r) PROVE r[i].index <= t[N].n
    <3>1. PICK k \in 1 .. N : t[k].n = r[i].index
      BY DEF SearchPath
    <3>2. k <= N
      BY <1>1
    <3>3. QED
      BY <1>4, <2>1, <3>1, <3>2
  <2>5. QED
    BY <2>2, <2>3, <2>4
<1>7. ASSUME NEW k \in 1 .. N PROVE t[k].s \in Scc(hh, r, Len(r)) <=> r[Len(r)].index <= t[k].n
  <2>1. t[k].s \in State /\ hh[t[k].s] = t[k].n /\ t[k].n \in Nat
    BY <1>3
  <2>2. ~(Len(r) < Len(r))
    BY <1>5
  <2>3. t # << >>
    BY <1>1
  <2>4. r[Len(r)].index \in Nat
    BY <1>5, <1>6, <2>3
  <2>5. QED
    BY <2>1, <2>2, <2>4 DEF Scc
<1> HIDE DEF N
<1>8. QED
  BY <1>1, <1>2, <1>3, <1>4, <1>6, <1>7 DEF N

(* A queued edge leaves the component of the state it is queued with.      *)
LEMMA QueueFacts ==
  ASSUME NEW A \in SUBSET Edge, NEW hh \in [State -> Int], NEW r, NEW t, Roots(hh, r),
         SearchPath(hh, r, t), Queues(A, hh, r, t), NEW k \in 1 .. Len(t), NEW e \in ToSet(t[k].q)
  PROVE  /\ e \in A /\ e \in Queued(t) /\ e.src \in State /\ e.dst \in State /\ hh[e.src] > 0
         /\ e.src \in Scc(hh, r, Len(r)) <=> r[Len(r)].index <= t[k].n
<1>1. /\ e \in A /\ hh[e.src] > 0
      /\ \A i \in 1 .. Len(r) : r[i].index <= hh[e.src] <=> r[i].index <= t[k].n
  BY DEF Queues
<1>2. e.src \in State /\ e.dst \in State
  BY <1>1 DEF Edge
<1>3. DOMAIN t = 1 .. Len(t) /\ t # << >>
  BY PathFacts
<1>4. Len(r) \in 1 .. Len(r) /\ Len(r) \in Nat /\ r[Len(r)].index \in Nat
  BY <1>3, PathFacts, RootFacts
<1>5. e \in Queued(t)
  BY <1>3 DEF Queued
<1>6. ~(Len(r) < Len(r)) /\ hh[e.src] \in Int
  BY <1>2, <1>4
<1>7. e.src \in Scc(hh, r, Len(r)) <=> r[Len(r)].index <= hh[e.src]
  BY <1>2, <1>4, <1>6 DEF Scc
<1>8. QED
  BY <1>1, <1>2, <1>4, <1>5, <1>7

(* t2 is t without the edge e, at x in the last queue.                     *)
WithoutEdge(t, x, e, t2) ==
  LET q == t[Len(t)].q
  IN /\ x \in 1 .. Len(q) /\ e = q[x]
     /\ t2 \in Seq(Todo) /\ Len(t2) = Len(t)
     /\ \A k \in 1 .. Len(t) : t2[k].s = t[k].s /\ t2[k].n = t[k].n /\ (k # Len(t) => t2[k].q = t[k].q)
     /\ Len(t2[Len(t)].q) = Len(q) - 1
     /\ \A i \in 1 .. Len(q) - 1 : t2[Len(t)].q[i] = q[IF i < x THEN i ELSE i + 1]

(* The edge e, out of the last component, was taken from the stack t,      *)
(* which leaves t2.                                                        *)
Took(A, hh, r, t, e, t2) ==
  /\ SearchPath(hh, r, t2) /\ Queues(A, hh, r, t2) /\ t2 # << >>
  /\ Queued(t2) = Queued(t) \ {e} /\ e \in Queued(t) /\ OnPath(t2) = OnPath(t)
  /\ e \in A /\ e.src \in Scc(hh, r, Len(r))

(* An edge is taken from the last queue.                                   *)
LEMMA TakeEdge ==
  ASSUME NEW A \in SUBSET Edge, NEW hh \in [State -> Int], NEW r, NEW t, Roots(hh, r),
         SearchPath(hh, r, t), Queues(A, hh, r, t), t # << >>,
         NEW x, NEW e, NEW t2, WithoutEdge(t, x, e, t2)
  PROVE  Took(A, hh, r, t, e, t2)
<1> DEFINE q == t[Len(t)].q
<1>0. /\ q = t[Len(t)].q /\ x \in 1 .. Len(q) /\ e = q[x]
      /\ t2 \in Seq(Todo) /\ Len(t2) = Len(t)
      /\ \A k \in 1 .. Len(t) : t2[k].s = t[k].s /\ t2[k].n = t[k].n /\ (k # Len(t) => t2[k].q = t[k].q)
      /\ Len(t2[Len(t)].q) = Len(q) - 1
      /\ \A i \in 1 .. Len(q) - 1 : t2[Len(t)].q[i] = q[IF i < x THEN i ELSE i + 1]
  BY Zenon DEF WithoutEdge
<1> HIDE DEF q
<1> USE <1>0
<1> DEFINE N == Len(t)
           q2 == t2[N].q
           m == Len(q)
<1>1. N \in Nat /\ N \in 1 .. N /\ DOMAIN t = 1 .. N /\ DOMAIN t2 = 1 .. N /\ q \in Seq(Edge)
  BY PathFacts
<1>2. t2[N] \in Todo
  <2>1. \A k \in 1 .. Len(t2) : t2[k] \in Todo
    OBVIOUS
  <2>2. QED
    BY <1>1, <2>1
<1>3. q2 \in Seq(Edge)
  BY <1>2 DEF Todo
<1>4. m \in Nat /\ DOMAIN q = 1 .. m /\ DOMAIN q2 = 1 .. m - 1
  <2>0. Len(q2) = m - 1
    BY <1>0
  <2> HIDE DEF q2
  <2>1. DOMAIN q2 = 1 .. Len(q2) /\ Len(q2) = m - 1
    BY ONLY <1>3, <2>0
  <2>2. m \in Nat /\ DOMAIN q = 1 .. m
    <3>1. q \in Seq(Edge)
      BY ONLY <1>1
    <3>2. QED
      BY ONLY <3>1, LenProperties
  <2>3. QED
    BY ONLY <2>1, <2>2
<1>5. IsInjective(q)
  <2>1. Queues(A, hh, r, t)
    OBVIOUS
  <2>2. \A k \in DOMAIN t : IsInjective(t[k].q)
    BY ONLY <2>1 DEF Queues
  <2>3. N \in DOMAIN t /\ q = t[N].q
    BY ONLY <1>0, <1>1 DEF N
  <2>4. QED
    BY ONLY <2>2, <2>3
<1>6. /\ \A k \in 1 .. N : t2[k].s = t[k].s /\ t2[k].n = t[k].n /\ (k # N => t2[k].q = t[k].q)
      /\ \A i \in 1 .. m - 1 : q2[i] = q[IF i < x THEN i ELSE i + 1]
      /\ x \in 1 .. m /\ q = t[N].q /\ Len(t2) = N
  OBVIOUS
<1> HIDE DEF N, q2, m
<1>7. ASSUME NEW i \in 1 .. m - 1
      PROVE  \E j \in 1 .. m : j # x /\ q2[i] = q[j] /\ j = IF i < x THEN i ELSE i + 1
  <2>1. i \in 1 .. m /\ i + 1 \in 1 .. m
    BY <1>4
  <2>2. CASE i < x
    BY <1>6, <2>1, <2>2
  <2>3. CASE ~(i < x)
    <3>1. i + 1 # x
      BY <1>4, <1>6, <2>3
    <3>2. QED
      BY <1>6, <2>1, <2>3, <3>1
  <2>4. QED
    BY <2>2, <2>3
<1>8. ASSUME NEW j \in 1 .. m, j # x
      PROVE  \E i \in 1 .. m - 1 : q2[i] = q[j]
  <2>1. CASE j < x
    <3>1. j \in 1 .. m - 1
      BY <1>4, <1>6, <2>1
    <3>2. QED
      BY <1>6, <2>1, <3>1
  <2>2. CASE ~(j < x)
    <3>1. j - 1 \in 1 .. m - 1 /\ ~(j - 1 < x) /\ (j - 1) + 1 = j
      BY <1>4, <1>6, <1>8, <2>2
    <3>2. QED
      BY <1>6, <3>1
  <2>3. QED
    BY <2>1, <2>2
<1>9. ToSet(q2) = ToSet(q) \ {e}
  <2>1. \A i \in 1 .. m - 1 : q2[i] \in ToSet(q) /\ q2[i] # e
    <3> SUFFICES ASSUME NEW i \in 1 .. m - 1 PROVE q2[i] \in ToSet(q) /\ q2[i] # e
      OBVIOUS
    <3>1. PICK j \in 1 .. m : j # x /\ q2[i] = q[j]
      BY <1>7
    <3>2. QED
      BY <1>4, <1>5, <1>6, <3>1 DEF ToSet, IsInjective
  <2>2. \A j \in 1 .. m : q[j] # e => q[j] \in ToSet(q2)
    BY <1>4, <1>6, <1>8 DEF ToSet
  <2>3. \A z \in ToSet(q) : z # e => z \in ToSet(q2)
    BY <1>4, <2>2 DEF ToSet
  <2>4. \A z \in ToSet(q2) : z \in ToSet(q) /\ z # e
    BY ONLY <1>4, <2>1 DEF ToSet
  <2>5. QED
    BY ONLY <2>3, <2>4
<1>10. IsInjective(q2)
  <2> DEFINE D == 1 .. m - 1
  <2>1. DOMAIN q2 = D
    BY <1>4
  <2>2. ASSUME NEW i \in D, NEW j \in D, q2[i] = q2[j] PROVE i = j
    <3>1. PICK a \in 1 .. m : q2[i] = q[a] /\ a = IF i < x THEN i ELSE i + 1
      BY <1>7
    <3>2. PICK b \in 1 .. m : q2[j] = q[b] /\ b = IF j < x THEN j ELSE j + 1
      BY <1>7
    <3>3. a = b
      <4>1. a \in DOMAIN q /\ b \in DOMAIN q
        BY <1>4
      <4>2. q[a] = q[b]
        BY ONLY <2>2, <3>1, <3>2
      <4>3. QED
        BY ONLY <1>5, <4>1, <4>2, OnceThen
    <3>4. i \in Nat /\ j \in Nat /\ x \in Nat
      BY <1>4, <1>6
    <3>5. QED
      BY ONLY <3>1, <3>2, <3>3, <3>4
  <2> HIDE DEF D
  <2>3. QED
    BY ONLY <2>1, <2>2, OnceIf
<1>11. e \in ToSet(q)
  BY <1>4, <1>6 DEF ToSet
<1>12. /\ e \in A /\ e \in Queued(t)
       /\ e.src \in Scc(hh, r, Len(r)) <=> r[Len(r)].index <= t[N].n
  <2>1. Len(t) \in 1 .. Len(t) /\ e \in ToSet(t[Len(t)].q)
    BY <1>1, <1>6, <1>11 DEF N
  <2>2. QED
    BY <2>1, QueueFacts DEF N
<1>13. e.src \in Scc(hh, r, Len(r))
  BY <1>12, PathFacts DEF N
<1>14. \A k \in 1 .. N : ToSet(t2[k].q) = ToSet(t[k].q) \ {e}
  <2> SUFFICES ASSUME NEW k \in 1 .. N PROVE ToSet(t2[k].q) = ToSet(t[k].q) \ {e}
    OBVIOUS
  <2>1. CASE k = N
    BY <1>6, <1>9, <2>1 DEF q2
  <2>2. CASE k # N
    <3>1. ToSet(t[k].q) \cap ToSet(t[N].q) = {}
      BY <1>1, <2>2 DEF Queues, N
    <3>2. QED
      BY <1>6, <1>11, <2>2, <3>1
  <2>3. QED
    BY <2>1, <2>2
<1>15. Queued(t2) = Queued(t) \ {e}
  <2>1. \A z : z \in Queued(t2) <=> \E k \in 1 .. N : z \in ToSet(t2[k].q)
    BY <1>1 DEF Queued
  <2>2. \A z : z \in Queued(t) <=> \E k \in 1 .. N : z \in ToSet(t[k].q)
    BY <1>1 DEF Queued
  <2>3. \A z : z \in Queued(t2) <=> z \in Queued(t) /\ z # e
    BY ONLY <1>14, <2>1, <2>2
  <2>4. QED
    BY ONLY <2>3
<1>16. SearchPath(hh, r, t2)
  BY <1>6 DEF SearchPath, N
<1>17. Queues(A, hh, r, t2)
  <2>1. \A k \in 1 .. N : IsInjective(t2[k].q)
    <3> SUFFICES ASSUME NEW k \in 1 .. N PROVE IsInjective(t2[k].q)
      OBVIOUS
    <3>1. CASE k = N
      BY <1>10, <3>1 DEF q2
    <3>2. CASE k # N
      BY <1>6, <3>2 DEF Queues, N
    <3>3. QED
      BY <3>1, <3>2
  <2>2. \A k \in 1 .. N : \A f \in ToSet(t2[k].q) : f \in ToSet(t[k].q)
    BY <1>14
  <2>3. ASSUME NEW k \in 1 .. N, NEW f \in ToSet(t2[k].q)
        PROVE  /\ f \in A /\ hh[f.src] > 0
               /\ \A i \in 1 .. Len(r) : r[i].index <= hh[f.src] <=> r[i].index <= t2[k].n
    BY <1>6, <2>2 DEF Queues, N
  <2>4. \A k, l \in 1 .. N : k # l => ToSet(t2[k].q) \cap ToSet(t2[l].q) = {}
    BY <2>2 DEF Queues, N
  <2>5. QED
    BY <1>6, <2>1, <2>3, <2>4 DEF Queues
<1>18. {t2[k].s : k \in 1 .. N} = {t[k].s : k \in 1 .. N}
  BY <1>6
<1>19. OnPath(t2) = OnPath(t)
  BY <1>6, <1>18 DEF N, OnPath
<1>20. t2 # << >>
  <2>1. Len(t2) = N /\ N # 0
    BY <1>1, <1>6
  <2>2. QED
    BY ONLY <2>1
<1>21. QED
  BY <1>12, <1>13, <1>15, <1>16, <1>17, <1>19, <1>20 DEF Took

(* What holds once the state s was stacked on t.                           *)
PushedOn(A, n, t, s, q, hh2, r2, t2) ==
  /\ Orders(hh2, n + 1) /\ SearchPath(hh2, r2, t2) /\ Queues(A, hh2, r2, t2)
  /\ Queued(t2) = Queued(t) \cup ToSet(q) /\ OnPath(t2) = OnPath(t) \cup {s}

(* A new state is stacked.                                                 *)
LEMMA PushState ==
  ASSUME NEW A \in SUBSET Edge, NEW hh \in [State -> Int], NEW n \in Nat, NEW r, NEW t,
         Orders(hh, n), Roots(hh, r), SearchPath(hh, r, t), Queues(A, hh, r, t),
         NEW s \in State, hh[s] = 0,
         NEW hh2, Numbered(hh, s, n, hh2), NEW r2, Stacked(r, connected_component(n + 1), r2),
         NEW q, IsInjective(q), ToSet(q) \subseteq succ_iter(A, s),
         NEW t2 \in Seq(Todo), Stacked(t, [s |-> s, n |-> n + 1, q |-> q], t2)
  PROVE  PushedOn(A, n, t, s, q, hh2, r2, t2)
<1>00. /\ hh2 \in [State -> Int] /\ hh2[s] = n + 1 /\ \A u \in State : u # s => hh2[u] = hh[u]
       /\ Len(r2) = Len(r) + 1 /\ (\A i \in 1 .. Len(r) : r2[i] = r[i]) /\ r2[Len(r) + 1].index = n + 1
       /\ Len(t2) = Len(t) + 1 /\ \A k \in 1 .. Len(t) : t2[k] = t[k]
       /\ t2[Len(t) + 1].s = s /\ t2[Len(t) + 1].n = n + 1 /\ t2[Len(t) + 1].q = q
  BY DEF Numbered, Stacked, connected_component
<1> USE <1>00
<1> DEFINE N == Len(t)
           M == Len(r)
<1>1. /\ N \in Nat /\ DOMAIN t = 1 .. N
      /\ \A k \in 1 .. N : t[k].s \in State /\ t[k].n \in Nat \ {0} /\ hh[t[k].s] = t[k].n
  BY PathFacts
<1>2. M \in Nat /\ \A i \in 1 .. M : r[i].index \in Nat
  BY RootFacts
<1>3. \A u \in State : -1 <= hh[u] /\ hh[u] <= n
  BY DEF Orders
<1>4. /\ Len(t2) = N + 1 /\ DOMAIN t2 = 1 .. N + 1 /\ \A k \in 1 .. N : t2[k] = t[k]
      /\ t2[N + 1].s = s /\ t2[N + 1].n = n + 1 /\ t2[N + 1].q = q
  OBVIOUS
<1>5. Len(r2) = M + 1 /\ (\A i \in 1 .. M : r2[i] = r[i]) /\ r2[M + 1].index = n + 1
  OBVIOUS
<1> HIDE DEF N, M
<1>6. /\ \A k \in 1 .. N + 1 : k \in 1 .. N \/ k = N + 1
      /\ \A k \in 1 .. N : k \in 1 .. N + 1 /\ k < N + 1
      /\ N + 1 \in 1 .. N + 1
  BY <1>1
<1>7. /\ \A i \in 1 .. M + 1 : i \in 1 .. M \/ i = M + 1
      /\ \A i \in 1 .. M : i \in 1 .. M + 1
  BY <1>2
<1>8. \A k \in 1 .. N : t[k].s # s /\ hh2[t[k].s] = t[k].n /\ t[k].n <= n
  BY <1>1, <1>3
<1>9. Orders(hh2, n + 1)
  <2>1. \A u \in State : -1 <= hh2[u] /\ hh2[u] <= n + 1
    <3> SUFFICES ASSUME NEW u \in State PROVE -1 <= hh2[u] /\ hh2[u] <= n + 1
      OBVIOUS
    <3>1. u # s => hh2[u] = hh[u] /\ -1 <= hh[u] /\ hh[u] <= n /\ hh[u] \in Int
      BY <1>3
    <3>2. QED
      BY <3>1
  <2>2. ASSUME NEW u \in State, NEW v \in State, hh2[u] > 0, hh2[u] = hh2[v] PROVE u = v
    <3>1. \A w \in State : w # s => hh2[w] = hh[w] /\ hh[w] <= n /\ hh[w] \in Int
      BY <1>3
    <3>2. u = s <=> v = s
      BY <2>2, <3>1
    <3>3. QED
      BY <2>2, <3>1, <3>2 DEF Orders
  <2>3. QED
    BY <2>1, <2>2 DEF Orders
<1>10. SearchPath(hh2, r2, t2)
  <2>1. \A k \in 1 .. N + 1 : t2[k].n = hh2[t2[k].s] /\ t2[k].n > 0
    BY <1>1, <1>4, <1>6, <1>8
  <2>2. ASSUME NEW k \in 1 .. N + 1, NEW l \in 1 .. N + 1, k < l PROVE t2[k].n < t2[l].n
    <3>1. k \in 1 .. N
      BY <1>1, <2>2
    <3>2. CASE l \in 1 .. N
      BY <1>4, <2>2, <3>1, <3>2 DEF SearchPath, N
    <3>3. CASE l = N + 1
      BY <1>1, <1>4, <1>8, <3>1, <3>3
    <3>4. QED
      BY <1>6, <3>2, <3>3
  <2>3. ASSUME NEW i \in 1 .. M + 1 PROVE \E k \in 1 .. N + 1 : t2[k].n = r2[i].index
    <3>1. CASE i = M + 1
      BY <1>4, <1>5, <1>6, <3>1
    <3>2. CASE i \in 1 .. M
      <4>1. PICK k \in 1 .. N : t[k].n = r[i].index
        BY <3>2 DEF SearchPath, N, M
      <4>2. QED
        BY <1>4, <1>5, <1>6, <3>2, <4>1
    <3>3. QED
      BY <1>7, <3>1, <3>2
  <2>4. QED
    BY <1>4, <1>5, <2>1, <2>2, <2>3 DEF SearchPath
<1>11. ASSUME NEW k \in 1 .. N, NEW e \in ToSet(t[k].q)
       PROVE  e \in A /\ e.src \in State /\ e.src # s /\ hh[e.src] > 0 /\ hh2[e.src] = hh[e.src]
              /\ \A i \in 1 .. M : r[i].index <= hh[e.src] <=> r[i].index <= t[k].n
  <2>1. /\ e \in A /\ hh[e.src] > 0
        /\ \A i \in 1 .. M : r[i].index <= hh[e.src] <=> r[i].index <= t[k].n
    BY DEF Queues, N, M
  <2>2. e.src \in State
    BY <2>1 DEF Edge
  <2>3. QED
    BY <2>1, <2>2
<1>12. \A e \in ToSet(q) : e \in A /\ e.src = s
  BY DEF succ_iter
<1>13. Queues(A, hh2, r2, t2)
  <2>1. ASSUME NEW k \in 1 .. N + 1, NEW e \in ToSet(t2[k].q)
        PROVE  /\ e \in A /\ hh2[e.src] > 0
               /\ \A i \in 1 .. M + 1 : r2[i].index <= hh2[e.src] <=> r2[i].index <= t2[k].n
    <3>1. CASE k = N + 1
      BY <1>4, <1>12, <2>1, <3>1
    <3>2. CASE k \in 1 .. N
      <4>1. e \in ToSet(t[k].q)
        BY <1>4, <2>1, <3>2
      <4>2. /\ e \in A /\ e.src \in State /\ hh[e.src] > 0 /\ hh2[e.src] = hh[e.src]
            /\ \A i \in 1 .. M : r[i].index <= hh[e.src] <=> r[i].index <= t[k].n
        BY <1>11, <3>2, <4>1
      <4>3. hh[e.src] <= n /\ hh[e.src] \in Int /\ t[k].n <= n /\ t[k].n \in Nat /\ t2[k] = t[k]
        BY <1>1, <1>3, <1>4, <1>8, <3>2, <4>2
      <4>4. ~(n + 1 <= hh[e.src]) /\ ~(n + 1 <= t[k].n)
        BY <4>3
      <4>5. \A i \in 1 .. M + 1 : r2[i].index <= hh[e.src] <=> r2[i].index <= t[k].n
        BY ONLY <1>5, <1>7, <4>2, <4>4
      <4>6. QED
        BY <4>2, <4>3, <4>5
    <3>3. QED
      BY <1>6, <3>1, <3>2
  <2>2. \A k \in 1 .. N + 1 : IsInjective(t2[k].q)
    <3>1. \A k \in 1 .. N : IsInjective(t[k].q)
      BY DEF Queues, N
    <3>2. QED
      BY <1>4, <1>6, <3>1
  <2>3. ASSUME NEW k \in 1 .. N + 1, NEW l \in 1 .. N + 1, k # l
        PROVE  ToSet(t2[k].q) \cap ToSet(t2[l].q) = {}
    <3>1. CASE k \in 1 .. N /\ l \in 1 .. N
      BY <1>4, <2>3, <3>1 DEF Queues, N
    <3>2. CASE k \in 1 .. N /\ l = N + 1
      BY <1>4, <1>11, <1>12, <3>2
    <3>3. CASE l \in 1 .. N /\ k = N + 1
      BY <1>4, <1>11, <1>12, <3>3
    <3>4. QED
      BY <1>6, <2>3, <3>1, <3>2, <3>3
  <2>4. QED
    BY <1>4, <1>5, <2>1, <2>2, <2>3 DEF Queues
<1>14. Queued(t2) = Queued(t) \cup ToSet(q)
  <2>1. \A z : z \in Queued(t2) <=> \E k \in 1 .. N + 1 : z \in ToSet(t2[k].q)
    BY <1>4 DEF Queued
  <2>2. \A z : z \in Queued(t) <=> \E k \in 1 .. N : z \in ToSet(t[k].q)
    BY <1>1 DEF Queued
  <2>3. \A z : z \in Queued(t2) <=> z \in Queued(t) \/ z \in ToSet(q)
    BY ONLY <1>4, <1>6, <2>1, <2>2
  <2>4. QED
    BY ONLY <2>3
<1>15. {t2[k].s : k \in 1 .. N + 1} = {t[k].s : k \in 1 .. N} \cup {s}
  BY ONLY <1>4, <1>6
<1>16. QED
  BY <1>4, <1>9, <1>10, <1>13, <1>14, <1>15 DEF N, OnPath, PushedOn

(* The indices that are left after a merge.                                *)
LEMMA MergePath ==
  ASSUME NEW A, NEW hh, NEW r, NEW t, SearchPath(hh, r, t), Queues(A, hh, r, t), Len(r) \in Nat,
         NEW k \in 1 .. Len(r), NEW a, NEW acc, NEW r2, MergedInto(r, a, k, acc, r2)
  PROVE  SearchPath(hh, r2, t) /\ Queues(A, hh, r2, t)
<1>00. Len(r2) = k /\ \A i \in 1 .. k : r2[i].index = r[i].index
  BY DEF MergedInto
<1> USE <1>00
<1>1. \A i \in 1 .. k : i \in 1 .. Len(r)
  OBVIOUS
<1>2. QED
  BY <1>1 DEF SearchPath, Queues

(* What the merged components remember.                                    *)
LEMMA MergeRemembered ==
  ASSUME NEW hh, NEW r, NEW t, Remembered(hh, r, t), Len(r) \in Nat, NEW k \in 1 .. Len(r),
         NEW a, NEW acc, NEW r2, MergedInto(r, a, k, acc, r2),
         \A i \in 1 .. k - 1 : Scc(hh, r2, i) = Scc(hh, r, i),
         \A s \in State : s \in Scc(hh, r2, k) <=> \E i \in k .. Len(r) : s \in Scc(hh, r, i)
  PROVE  Remembered(hh, r2, t)
<1>00. /\ Len(r2) = k /\ \A i \in 1 .. k - 1 : r2[i].rem = r[i].rem
       /\ ToSet(r2[k].rem) = UNION {ToSet(r[i].rem) : i \in k .. Len(r)}
  BY DEF MergedInto
<1> USE <1>00
<1> DEFINE N == Len(r)
           O == {t[l].s : l \in 1 .. Len(t)}
<1>1. \A i \in 1 .. N : ToSet(r[i].rem) = Scc(hh, r, i) \ O
  BY DEF Remembered, OnPath
<1>2. N \in Nat /\ (\A i \in k .. N : i \in 1 .. N) /\ \A i \in 1 .. k - 1 : i \in 1 .. N
  OBVIOUS
<1>3. \A i \in 1 .. N : Scc(hh, r, i) \subseteq State
  BY DEF Scc
<1>4. Scc(hh, r2, k) \subseteq State
  BY DEF Scc
<1> HIDE DEF N, O
<1>5. \A s : s \in ToSet(r2[k].rem) <=> \E i \in k .. N : s \in ToSet(r[i].rem)
  BY DEF N
<1>6. \A s : s \in Scc(hh, r2, k) <=> \E i \in k .. N : s \in Scc(hh, r, i)
  BY <1>2, <1>3, <1>4 DEF N
<1>7. \A s : s \in ToSet(r2[k].rem) <=> s \in Scc(hh, r2, k) \ O
  BY ONLY <1>1, <1>2, <1>5, <1>6
<1>8. ToSet(r2[k].rem) = Scc(hh, r2, k) \ O
  BY ONLY <1>7
<1>9. \A i \in 1 .. k : i = k \/ i \in 1 .. k - 1
  OBVIOUS
<1>10. \A i \in 1 .. k : ToSet(r2[i].rem) = Scc(hh, r2, i) \ O
  BY <1>1, <1>2, <1>8, <1>9
<1>11. QED
  BY <1>10 DEF Remembered, OnPath, O

(* The queues of t from k on are joined.                                   *)
GroupedInto(t, k, t2) ==
  /\ t2 \in Seq(Todo) /\ Len(t2) = k /\ \A l \in 1 .. k - 1 : t2[l] = t[l]
  /\ t2[k].s = t[k].s /\ t2[k].n = t[k].n /\ IsInjective(t2[k].q)
  /\ ToSet(t2[k].q) = UNION {ToSet(t[l].q) : l \in k .. Len(t)}

(* The last component of r remembers the states of t above k, too.         *)
Remembers(t, k, r, r2) ==
  /\ Len(r2) = Len(r) /\ \A i \in 1 .. Len(r) : r2[i].index = r[i].index
  /\ \A i \in 1 .. Len(r) - 1 : r2[i].rem = r[i].rem
  /\ ToSet(r2[Len(r)].rem) = {t[l].s : l \in k + 1 .. Len(t)} \cup ToSet(r[Len(r)].rem)

(* The queues of the states above the root of the last component are given *)
(* to it.                                                                  *)
LEMMA GroupPath ==
  ASSUME NEW A \in SUBSET Edge, NEW hh \in [State -> Int], NEW r, NEW t, Roots(hh, r),
         SearchPath(hh, r, t), Queues(A, hh, r, t), r # << >>,
         NEW k \in 1 .. Len(t), t[k].n = r[Len(r)].index,
         NEW t2, GroupedInto(t, k, t2)
  PROVE  SearchPath(hh, r, t2) /\ Queues(A, hh, r, t2) /\ Queued(t2) = Queued(t)
<1>00. /\ t2 \in Seq(Todo) /\ Len(t2) = k /\ \A l \in 1 .. k - 1 : t2[l] = t[l]
       /\ t2[k].s = t[k].s /\ t2[k].n = t[k].n /\ IsInjective(t2[k].q)
       /\ ToSet(t2[k].q) = UNION {ToSet(t[l].q) : l \in k .. Len(t)}
  BY DEF GroupedInto
<1> USE <1>00
<1> DEFINE N == Len(t)
           M == Len(r)
<1>1. /\ N \in Nat /\ DOMAIN t = 1 .. N
      /\ \A l \in 1 .. N : t[l].s \in State /\ t[l].n \in Nat \ {0} /\ hh[t[l].s] = t[l].n
      /\ \A l, m \in 1 .. N : l <= m => t[l].n <= t[m].n
  BY PathFacts
<1>2. M \in 1 .. M /\ \A i \in 1 .. M : r[i].index \in Nat
  BY RootFacts, PathFacts
<1>3. \A i \in 1 .. M : r[i].index <= r[M].index
  <2> SUFFICES ASSUME NEW i \in 1 .. M PROVE r[i].index <= r[M].index
    OBVIOUS
  <2>1. i < M => r[i].index < r[M].index
    BY <1>2 DEF Roots
  <2>2. i = M \/ i < M
    BY <1>2
  <2>3. QED
    BY <1>2, <2>1, <2>2
<1>4. /\ k \in 1 .. N /\ t[k].n = r[M].index /\ t2[k].s = t[k].s /\ t2[k].n = t[k].n
      /\ Len(t2) = k /\ \A l \in 1 .. k - 1 : t2[l] = t[l]
  OBVIOUS
<1>5. DOMAIN t2 = 1 .. k
  OBVIOUS
<1>6. \A z : z \in ToSet(t2[k].q) <=> \E l \in k .. N : z \in ToSet(t[l].q)
  OBVIOUS
<1> HIDE DEF N, M
<1>7. /\ \A l \in 1 .. k : l = k \/ l \in 1 .. k - 1
      /\ \A l \in 1 .. k : l \in 1 .. N
      /\ \A l \in 1 .. k - 1 : l \in 1 .. N /\ l \in 1 .. k /\ l < k
      /\ \A l \in k .. N : l \in 1 .. N /\ k <= l
      /\ k \in k .. N /\ k \in 1 .. k
  BY <1>1, <1>4
<1>8. \A l \in 1 .. k : t2[l].s = t[l].s /\ t2[l].n = t[l].n
  BY <1>4, <1>7
<1>9. SearchPath(hh, r, t2)
  <2>1. \A l \in 1 .. k : t2[l].n = hh[t2[l].s] /\ t2[l].n > 0
    BY <1>1, <1>7, <1>8
  <2>2. \A l, m \in 1 .. k : l < m => t2[l].n < t2[m].n
    BY <1>7, <1>8 DEF SearchPath, N
  <2>3. ASSUME NEW i \in 1 .. M PROVE \E l \in 1 .. k : t2[l].n = r[i].index
    <3>1. PICK l \in 1 .. N : t[l].n = r[i].index
      BY DEF SearchPath, N, M
    <3>2. t[l].n <= t[k].n
      BY <1>3, <1>4, <3>1
    <3>3. ~(k < l)
      <4>1. k < l => t[k].n < t[l].n
        BY <1>4 DEF SearchPath, N
      <4>2. QED
        BY <1>1, <1>4, <3>2, <4>1
    <3>4. l \in 1 .. k
      BY <1>1, <1>4, <3>3
    <3>5. QED
      BY <1>8, <3>1, <3>4
  <2>4. QED
    BY <1>4, <2>1, <2>2, <2>3 DEF SearchPath, M
<1>10. \A l \in 1 .. N : \A e \in ToSet(t[l].q) :
         /\ e \in A /\ hh[e.src] > 0
         /\ \A i \in 1 .. M : r[i].index <= hh[e.src] <=> r[i].index <= t[l].n
  BY DEF Queues, N, M
<1>11. \A l, m \in 1 .. N : l # m => ToSet(t[l].q) \cap ToSet(t[m].q) = {}
  BY DEF Queues, N
<1>12. Queues(A, hh, r, t2)
  <2>1. ASSUME NEW l \in 1 .. k, NEW e \in ToSet(t2[l].q)
        PROVE  /\ e \in A /\ hh[e.src] > 0
               /\ \A i \in 1 .. M : r[i].index <= hh[e.src] <=> r[i].index <= t2[l].n
    <3>1. CASE l \in 1 .. k - 1
      BY <1>4, <1>7, <1>10, <2>1, <3>1
    <3>2. CASE l = k
      <4>1. PICK m \in k .. N : e \in ToSet(t[m].q)
        BY <1>6, <2>1, <3>2
      <4>2. m \in 1 .. N /\ t[k].n <= t[m].n
        BY <1>1, <1>4, <1>7
      <4>3. /\ e \in A /\ hh[e.src] > 0
            /\ \A i \in 1 .. M : r[i].index <= hh[e.src] <=> r[i].index <= t[m].n
        BY <1>10, <4>1, <4>2
      <4>4. ASSUME NEW i \in 1 .. M PROVE r[i].index <= t[k].n /\ r[i].index <= t[m].n
        <5>1. r[i].index <= r[M].index /\ r[i].index \in Nat /\ t[k].n \in Nat /\ t[m].n \in Nat
          BY <1>1, <1>2, <1>3, <1>4, <4>2
        <5>2. QED
          BY <1>4, <4>2, <5>1
      <4>5. QED
        BY <1>4, <3>2, <4>3, <4>4
    <3>3. QED
      BY <1>7, <3>1, <3>2
  <2>2. \A l \in 1 .. k : IsInjective(t2[l].q)
    <3>1. \A l \in 1 .. N : IsInjective(t[l].q)
      BY DEF Queues, N
    <3>2. QED
      BY <1>4, <1>7, <3>1
  <2>3. ASSUME NEW l \in 1 .. k, NEW m \in 1 .. k, l # m
        PROVE  ToSet(t2[l].q) \cap ToSet(t2[m].q) = {}
    <3>1. \A i \in 1 .. k - 1, j \in k .. N : ToSet(t[i].q) \cap ToSet(t[j].q) = {}
      <4>1. \A i \in 1 .. k - 1, j \in k .. N : i # j
        BY <1>1, <1>4
      <4>2. QED
        BY ONLY <1>7, <1>11, <4>1
    <3>2. \A i \in 1 .. k - 1 : ToSet(t2[i].q) \cap ToSet(t2[k].q) = {}
      BY <1>4, <1>6, <3>1
    <3>3. CASE l = k
      BY <1>7, <2>3, <3>2, <3>3
    <3>4. CASE m = k
      BY <1>7, <2>3, <3>2, <3>4
    <3>5. CASE l \in 1 .. k - 1 /\ m \in 1 .. k - 1
      BY <1>4, <1>7, <1>11, <2>3, <3>5
    <3>6. QED
      BY <1>7, <3>3, <3>4, <3>5
  <2>4. QED
    BY <1>4, <2>1, <2>2, <2>3 DEF Queues, M
<1>13. Queued(t2) = Queued(t)
  <2>1. \A z : z \in Queued(t2) <=> \E l \in 1 .. k : z \in ToSet(t2[l].q)
    BY <1>5 DEF Queued
  <2>2. \A z : z \in Queued(t) <=> \E l \in 1 .. N : z \in ToSet(t[l].q)
    BY <1>1 DEF Queued
  <2>3. \A l \in 1 .. N : l \in 1 .. k - 1 \/ l \in k .. N
    BY <1>1, <1>4
  <2>4. ASSUME NEW z \in Queued(t2) PROVE z \in Queued(t)
    <3>1. PICK l \in 1 .. k : z \in ToSet(t2[l].q)
      BY <2>1
    <3>2. CASE l \in 1 .. k - 1
      <4>1. t2[l] = t[l] /\ l \in 1 .. N
        BY <1>4, <1>7, <3>2
      <4>2. QED
        BY ONLY <2>2, <3>1, <4>1
    <3>3. CASE l = k
      <4>1. PICK i \in k .. N : z \in ToSet(t[i].q)
        BY ONLY <1>6, <3>1, <3>3
      <4>2. i \in 1 .. N
        BY <1>7
      <4>3. QED
        BY ONLY <2>2, <4>1, <4>2
    <3>4. QED
      BY <1>7, <3>2, <3>3
  <2>5. ASSUME NEW z \in Queued(t) PROVE z \in Queued(t2)
    <3>1. PICK l \in 1 .. N : z \in ToSet(t[l].q)
      BY <2>2
    <3>2. CASE l \in 1 .. k - 1
      <4>1. t2[l] = t[l] /\ l \in 1 .. k
        BY <1>4, <1>7, <3>2
      <4>2. QED
        BY ONLY <2>1, <3>1, <4>1
    <3>3. CASE l \in k .. N
      <4>1. z \in ToSet(t2[k].q) /\ k \in 1 .. k
        BY <1>6, <1>7, <3>1, <3>3
      <4>2. QED
        BY ONLY <2>1, <4>1
    <3>4. QED
      BY <2>3, <3>2, <3>3
  <2>6. QED
    BY ONLY <2>4, <2>5
<1>14. QED
  BY <1>9, <1>12, <1>13

(* The states above k leave the path and are remembered.                   *)
LEMMA GroupRemembered ==
  ASSUME NEW hh \in [State -> Int], NEW r, NEW t, Roots(hh, r), SearchPath(hh, r, t), r # << >>,
         Remembered(hh, r, t), NEW k \in 1 .. Len(t), r[Len(r)].index <= t[k].n,
         NEW t2, Len(t2) = k, \A l \in 1 .. k : t2[l].s = t[l].s,
         NEW r2, Remembers(t, k, r, r2)
  PROVE  Remembered(hh, r2, t2)
<1>00. /\ Len(r2) = Len(r) /\ \A i \in 1 .. Len(r) : r2[i].index = r[i].index
       /\ \A i \in 1 .. Len(r) - 1 : r2[i].rem = r[i].rem
       /\ ToSet(r2[Len(r)].rem) = {t[l].s : l \in k + 1 .. Len(t)} \cup ToSet(r[Len(r)].rem)
  BY DEF Remembers
<1> USE <1>00
<1> DEFINE N == Len(t)
           M == Len(r)
           O == {t[l].s : l \in 1 .. N}
           O2 == {t2[l].s : l \in 1 .. k}
           Up == {t[l].s : l \in k + 1 .. N}
<1>1. /\ N \in Nat /\ \A l \in 1 .. N : t[l].s \in State /\ t[l].n \in Nat /\ hh[t[l].s] = t[l].n
      /\ \A l \in 1 .. N : t[l].s \in Scc(hh, r, M) <=> r[M].index <= t[l].n
  BY PathFacts
<1>2. M \in Nat /\ M \in 1 .. M /\ \A i \in 1 .. M : r[i].index \in Nat
  BY RootFacts, PathFacts
<1>3. \A i \in 1 .. M : Scc(hh, r2, i) = Scc(hh, r, i)
  <2> SUFFICES ASSUME NEW i \in 1 .. M PROVE Scc(hh, r2, i) = Scc(hh, r, i)
    OBVIOUS
  <2>1. i < M => i + 1 \in 1 .. M
    BY <1>2
  <2>2. QED
    BY <2>1 DEF Scc
<1>4. /\ \A i \in 1 .. M : ToSet(r[i].rem) = Scc(hh, r, i) \ O
      /\ \A i \in 1 .. M - 1 : r2[i].rem = r[i].rem
      /\ ToSet(r2[M].rem) = Up \cup ToSet(r[M].rem)
      /\ k \in 1 .. N /\ r[M].index <= t[k].n /\ \A l \in 1 .. k : t2[l].s = t[l].s
      /\ Len(t2) = k /\ Len(r2) = M
  BY DEF Remembered, OnPath
<1>5. \A l, m \in 1 .. N : l < m => t[l].n < t[m].n
  BY DEF SearchPath
<1> HIDE DEF N, M
<1>6. /\ \A l \in k + 1 .. N : l \in 1 .. N /\ k < l
      /\ \A l \in 1 .. k : l \in 1 .. N
      /\ \A l \in 1 .. N : l \in 1 .. k \/ l \in k + 1 .. N
  BY <1>1, <1>4
<1>7. O = O2 \cup Up
  <2>1. O2 = {t[l].s : l \in 1 .. k}
    BY ONLY <1>4
  <2> HIDE DEF O2
  <2>2. QED
    BY ONLY <1>6, <2>1
<1>8. \A s \in Up : s \in Scc(hh, r, M) /\ s \notin O2
  <2> SUFFICES ASSUME NEW l \in k + 1 .. N PROVE t[l].s \in Scc(hh, r, M) /\ t[l].s \notin O2
    OBVIOUS
  <2>1. l \in 1 .. N /\ t[k].n < t[l].n
    BY <1>4, <1>5, <1>6
  <2>2. r[M].index <= t[l].n
    BY <1>1, <1>2, <1>4, <2>1
  <2>3. t[l].s \in Scc(hh, r, M)
    BY <1>1, <2>1, <2>2
  <2>4. ASSUME NEW m \in 1 .. k, t2[m].s = t[l].s PROVE FALSE
    <3>1. m \in 1 .. N /\ t[m].s = t[l].s /\ m < l
      BY <1>1, <1>4, <1>6, <2>4
    <3>2. t[m].n = t[l].n /\ t[m].n < t[l].n
      BY <1>1, <1>5, <2>1, <3>1
    <3>3. QED
      BY <1>1, <3>1, <3>2
  <2>5. QED
    BY <2>3, <2>4
<1>9. ASSUME NEW i \in 1 .. M - 1 PROVE Scc(hh, r, i) \cap Up = {}
  <2>1. i \in 1 .. M /\ i # M
    BY <1>2
  <2>2. QED
    BY <1>2, <1>8, <2>1, SccsAreDisjoint DEF M
<1> HIDE DEF O, O2, Up
<1>10. ASSUME NEW i \in 1 .. M PROVE ToSet(r2[i].rem) = Scc(hh, r2, i) \ O2
  <2>1. CASE i = M
    <3>1. ToSet(r2[M].rem) = Up \cup (Scc(hh, r, M) \ (O2 \cup Up))
      BY <1>2, <1>4, <1>7
    <3>2. QED
      BY <1>3, <1>8, <2>1, <3>1
  <2>2. CASE i \in 1 .. M - 1
    BY <1>3, <1>4, <1>7, <1>9, <2>2
  <2>3. QED
    BY <1>2, <2>1, <2>2
<1>11. QED
  BY <1>4, <1>10 DEF Remembered, OnPath, O2

(* What is left when a state leaves the path alone.                        *)
StatePopped(A, hh, r, t, t2) ==
  /\ SearchPath(hh, r, t2) /\ Queues(A, hh, r, t2) /\ Queued(t2) = Queued(t)
  /\ Len(t) - 1 \in 1 .. Len(t) /\ r[Len(r)].index <= t[Len(t) - 1].n

(* A state leaves the path when its queue is empty; if it is not the root  *)
(* of its component, nothing else changes.                                 *)
LEMMA PopState ==
  ASSUME NEW A, NEW hh \in [State -> Int], NEW r, NEW t, Roots(hh, r),
         SearchPath(hh, r, t), Queues(A, hh, r, t), t # << >>, t[Len(t)].q = << >>,
         t[Len(t)].n # r[Len(r)].index,
         NEW t2 \in Seq(Todo), Popped(t, t2)
  PROVE  StatePopped(A, hh, r, t, t2)
<1>00. Len(t2) = Len(t) - 1 /\ \A k \in 1 .. Len(t) - 1 : t2[k] = t[k]
  BY DEF Popped
<1> USE <1>00
<1> DEFINE N == Len(t)
           M == Len(r)
<1>1. /\ N \in Nat /\ N \in 1 .. N /\ DOMAIN t = 1 .. N
      /\ \A l \in 1 .. N : t[l].n \in Nat
      /\ \A k, l \in 1 .. N : k <= l => t[k].n <= t[l].n
      /\ M \in 1 .. M /\ \A i \in 1 .. M : r[i].index <= t[N].n
  BY ONLY hh \in [State -> Int], Roots(hh, r), SearchPath(hh, r, t), t # << >>, PathFacts
<1>2. /\ \A i \in 1 .. M : r[i].index \in Nat
      /\ \A i, j \in 1 .. M : i < j => r[i].index < r[j].index
  BY RootFacts DEF Roots
<1>3. DOMAIN t2 = 1 .. N - 1 /\ Len(t2) = N - 1 /\ \A k \in 1 .. N - 1 : t2[k] = t[k]
  <2>1. DOMAIN t2 = 1 .. Len(t2)
    OBVIOUS
  <2>2. QED
    BY <2>1
<1>4. t[N].q = << >> /\ t[N].n # r[M].index
  OBVIOUS
<1>5. \A i \in 1 .. M : \E k \in 1 .. N : t[k].n = r[i].index
  BY DEF SearchPath
<1> HIDE DEF N, M
<1>6. /\ \A k \in 1 .. N : k \in 1 .. N - 1 \/ k = N
      /\ \A k \in 1 .. N - 1 : k \in 1 .. N
  BY <1>1
<1>7. ASSUME NEW i \in 1 .. M PROVE \E k \in 1 .. N - 1 : t[k].n = r[i].index
  <2>1. PICK k \in 1 .. N : t[k].n = r[i].index
    BY <1>5
  <2>2. k # N
    <3> SUFFICES ASSUME k = N PROVE FALSE
      OBVIOUS
    <3>1. r[M].index <= r[i].index /\ r[i].index # r[M].index
      BY <1>1, <1>4, <2>1
    <3>2. i < M
      BY <1>1, <3>1
    <3>3. r[i].index < r[M].index
      BY <1>1, <1>2, <3>2
    <3>4. QED
      BY <1>1, <1>2, <3>1, <3>3
  <2>3. QED
    BY <1>6, <2>1, <2>2
<1>8. N - 1 \in 1 .. N /\ r[M].index <= t[N - 1].n
  <2>1. PICK k \in 1 .. N - 1 : t[k].n = r[M].index
    BY <1>1, <1>7
  <2>2. N - 1 \in 1 .. N /\ k \in 1 .. N /\ k <= N - 1
    BY <1>1
  <2>3. QED
    BY <1>1, <2>1, <2>2
<1>9. SearchPath(hh, r, t2)
  <2>1. /\ \A k \in 1 .. N - 1 : t[k].n = hh[t[k].s] /\ t[k].n > 0
        /\ \A k, l \in 1 .. N - 1 : k < l => t[k].n < t[l].n
    BY <1>6 DEF SearchPath, N
  <2>2. /\ \A k \in 1 .. N - 1 : t2[k].n = hh[t2[k].s] /\ t2[k].n > 0
        /\ \A k, l \in 1 .. N - 1 : k < l => t2[k].n < t2[l].n
        /\ \A i \in 1 .. M : \E k \in 1 .. N - 1 : t2[k].n = r[i].index
    BY ONLY <1>3, <1>7, <2>1
  <2>3. QED
    BY <1>3, <2>2 DEF SearchPath, M
<1>10. Queues(A, hh, r, t2)
  <2>1. /\ \A k \in 1 .. N - 1 : \A e \in ToSet(t[k].q) :
             /\ e \in A /\ hh[e.src] > 0
             /\ \A i \in 1 .. M : r[i].index <= hh[e.src] <=> r[i].index <= t[k].n
        /\ \A k \in 1 .. N - 1 : IsInjective(t[k].q)
        /\ \A k, l \in 1 .. N - 1 : k # l => ToSet(t[k].q) \cap ToSet(t[l].q) = {}
    BY <1>6 DEF Queues, N, M
  <2>2. QED
    BY <1>3, <2>1 DEF Queues, M
<1>11. Queued(t2) = Queued(t)
  <2>1. \A z : z \in Queued(t2) <=> \E k \in 1 .. N - 1 : z \in ToSet(t2[k].q)
    BY <1>3 DEF Queued
  <2>2. \A z : z \in Queued(t) <=> \E k \in 1 .. N : z \in ToSet(t[k].q)
    BY <1>1 DEF Queued
  <2>3. ToSet(t[N].q) = {}
    BY <1>4 DEF ToSet
  <2>4. \A z : z \in Queued(t2) <=> z \in Queued(t)
    BY ONLY <1>3, <1>6, <2>1, <2>2, <2>3
  <2>5. QED
    BY ONLY <2>4
<1>12. QED
  BY <1>8, <1>9, <1>10, <1>11 DEF N, M, StatePopped

(* The last state of the path is alone with its component: no other state  *)
(* of the path is in the component, nor any edge queued out of it.         *)
LastLeft(hh, r, t) ==
  /\ t[Len(t)].s \in Scc(hh, r, Len(r))
  /\ \A k \in 1 .. Len(t) - 1 : t[k].s \notin Scc(hh, r, Len(r))
  /\ \A k \in 1 .. Len(t) - 1 : \A e \in ToSet(t[k].q) : e.src \notin Scc(hh, r, Len(r))
  /\ \A e \in Queued(t) : e.src \notin Scc(hh, r, Len(r))
  /\ Remembered(hh, r, t) => {t[Len(t)].s} \cup ToSet(r[Len(r)].rem) = Scc(hh, r, Len(r))

(* When the last state of the path is the root of the last component and   *)
(* has no edge left, nothing of the component is left to do.               *)
LEMMA RootIsLast ==
  ASSUME NEW A \in SUBSET Edge, NEW hh \in [State -> Int], NEW r, NEW t, Roots(hh, r),
         SearchPath(hh, r, t), Queues(A, hh, r, t), t # << >>, t[Len(t)].q = << >>,
         t[Len(t)].n = r[Len(r)].index
  PROVE  LastLeft(hh, r, t)
<1> DEFINE N == Len(t)
           M == Len(r)
           S == Scc(hh, r, M)
<1>1. /\ N \in Nat /\ N \in 1 .. N /\ DOMAIN t = 1 .. N
      /\ \A k \in 1 .. N : t[k].n \in Nat /\ (t[k].s \in S <=> r[M].index <= t[k].n)
      /\ M \in 1 .. M
  BY PathFacts
<1>2. t[N].q = << >> /\ t[N].n = r[M].index
  OBVIOUS
<1>3. \A k \in 1 .. N : \A e \in ToSet(t[k].q) : e.src \in S <=> r[M].index <= t[k].n
  BY QueueFacts
<1>4. \A k, l \in 1 .. N : k < l => t[k].n < t[l].n
  BY DEF SearchPath
<1>5. Remembered(hh, r, t) => ToSet(r[M].rem) = S \ {t[k].s : k \in 1 .. N}
  BY <1>1 DEF Remembered, OnPath
<1> HIDE DEF N, M, S
<1>6. ASSUME NEW k \in 1 .. N - 1 PROVE k \in 1 .. N /\ ~(r[M].index <= t[k].n)
  <2>1. k \in 1 .. N /\ k < N
    BY <1>1
  <2>2. QED
    BY <1>1, <1>2, <1>4, <2>1
<1>7. t[N].s \in S
  BY <1>1, <1>2
<1>8. \A k \in 1 .. N - 1 : t[k].s \notin S
  BY <1>1, <1>6
<1>9. \A k \in 1 .. N - 1 : \A e \in ToSet(t[k].q) : e.src \notin S
  BY <1>3, <1>6
<1>10. \A k \in 1 .. N : k \in 1 .. N - 1 \/ k = N
  BY <1>1
<1>11. \A e \in Queued(t) : e.src \notin S
  <2>1. \A z : z \in Queued(t) <=> \E k \in 1 .. N : z \in ToSet(t[k].q)
    BY <1>1 DEF Queued
  <2>2. ToSet(t[N].q) = {}
    BY <1>2 DEF ToSet
  <2>3. QED
    BY <1>9, <1>10, <2>1, <2>2
<1>12. \A u \in S : u \in {t[k].s : k \in 1 .. N} <=> u = t[N].s
  BY <1>1, <1>8, <1>10
<1>13. Remembered(hh, r, t) => {t[N].s} \cup ToSet(r[M].rem) = S
  BY <1>5, <1>7, <1>12
<1>14. QED
  BY <1>7, <1>8, <1>9, <1>11, <1>13 DEF N, M, S, LastLeft

(* What is left when the root of a component leaves the path, and the      *)
(* component the roots.                                                    *)
RootPopped(A, n, hh, r, t, hh2, r2, t2) ==
  /\ Orders(hh2, n) /\ SearchPath(hh2, r2, t2) /\ Queues(A, hh2, r2, t2)
  /\ Queued(t2) = Queued(t)
  /\ Remembered(hh, r, t) => Remembered(hh2, r2, t2)

(* The root of the last component leaves the path, the component leaves    *)
(* the roots, and its states are dead: the rest is as it was.              *)
LEMMA PopRoot ==
  ASSUME NEW A \in SUBSET Edge, NEW hh \in [State -> Int], NEW n, NEW r, NEW t, Orders(hh, n), Roots(hh, r),
         SearchPath(hh, r, t), Queues(A, hh, r, t), t # << >>, t[Len(t)].q = << >>,
         t[Len(t)].n = r[Len(r)].index,
         NEW t2 \in Seq(Todo), Popped(t, t2), NEW hh2, Killed(hh, Scc(hh, r, Len(r)), hh2),
         NEW r2, Popped(r, r2), \A i \in 1 .. Len(r) - 1 : Scc(hh2, r2, i) = Scc(hh, r, i)
  PROVE  RootPopped(A, n, hh, r, t, hh2, r2, t2)
<1>00. /\ Len(t2) = Len(t) - 1 /\ \A k \in 1 .. Len(t) - 1 : t2[k] = t[k]
       /\ hh2 \in [State -> Int]
       /\ \A s \in State : hh2[s] = IF s \in Scc(hh, r, Len(r)) THEN -1 ELSE hh[s]
       /\ Len(r2) = Len(r) - 1
       /\ \A i \in 1 .. Len(r) - 1 : r2[i].index = r[i].index /\ r2[i].rem = r[i].rem
  BY DEF Killed, Popped
<1> USE <1>00
<1> DEFINE N == Len(t)
           M == Len(r)
           S == Scc(hh, r, M)
<1>1. /\ N \in Nat /\ N \in 1 .. N /\ DOMAIN t = 1 .. N
      /\ \A k \in 1 .. N : t[k].s \in State
      /\ M \in 1 .. M
  BY PathFacts
<1>2. M \in Nat /\ \A i, j \in 1 .. M : i < j => r[i].index < r[j].index
  BY RootFacts DEF Roots
<1>3. DOMAIN t2 = 1 .. N - 1 /\ Len(t2) = N - 1 /\ \A k \in 1 .. N - 1 : t2[k] = t[k]
  <2>1. DOMAIN t2 = 1 .. Len(t2)
    OBVIOUS
  <2>2. QED
    BY <2>1
<1>4. /\ t[N].s \in S
      /\ \A k \in 1 .. N - 1 : t[k].s \notin S
      /\ \A k \in 1 .. N - 1 : \A e \in ToSet(t[k].q) : e.src \notin S
  BY RootIsLast DEF LastLeft
<1>5. /\ t[N].q = << >> /\ t[N].n = r[M].index
      /\ \A s \in State : hh2[s] = IF s \in S THEN -1 ELSE hh[s]
      /\ Len(r2) = M - 1
      /\ \A i \in 1 .. M - 1 : /\ r2[i].index = r[i].index /\ r2[i].rem = r[i].rem
                               /\ Scc(hh2, r2, i) = Scc(hh, r, i)
  OBVIOUS
<1>6. \A i \in 1 .. M : \E k \in 1 .. N : t[k].n = r[i].index
  BY DEF SearchPath
<1>7. \A i, j \in 1 .. M : \A s \in Scc(hh, r, i) \cap Scc(hh, r, j) : i = j
  BY SccsAreDisjoint
<1> HIDE DEF N, M, S
<1>8. /\ \A k \in 1 .. N : k \in 1 .. N - 1 \/ k = N
      /\ \A k \in 1 .. N - 1 : k \in 1 .. N
      /\ \A i \in 1 .. M - 1 : i \in 1 .. M /\ i < M /\ i # M
  BY <1>1, <1>2
<1>9. Orders(hh2, n)
  <2>1. n \in Nat /\ \A s \in State : -1 <= hh[s] /\ hh[s] <= n
    BY DEF Orders
  <2>2. \A s \in State : -1 <= hh2[s] /\ hh2[s] <= n
    <3> SUFFICES ASSUME NEW s \in State PROVE -1 <= hh2[s] /\ hh2[s] <= n
      OBVIOUS
    <3>1. hh2[s] = -1 \/ hh2[s] = hh[s]
      BY <1>5
    <3>2. QED
      BY <2>1, <3>1
  <2>3. ASSUME NEW s \in State, NEW u \in State, hh2[s] > 0, hh2[s] = hh2[u] PROVE s = u
    <3>1. hh2[s] = hh[s] /\ hh2[u] = hh[u]
      BY <1>5, <2>3
    <3>2. QED
      BY <2>3, <3>1 DEF Orders
  <2>4. QED
    BY <2>1, <2>2, <2>3 DEF Orders
<1>10. SearchPath(hh2, r2, t2)
  <2>1. \A k \in 1 .. N - 1 : t[k].n = hh2[t[k].s] /\ t[k].n > 0
    <3>1. \A k \in 1 .. N - 1 : t[k].n = hh[t[k].s] /\ t[k].n > 0
      BY <1>8 DEF SearchPath, N
    <3>2. QED
      BY <1>1, <1>4, <1>5, <1>8, <3>1
  <2>2. \A k, l \in 1 .. N - 1 : k < l => t[k].n < t[l].n
    BY <1>8 DEF SearchPath, N
  <2>3. ASSUME NEW i \in 1 .. M - 1 PROVE \E k \in 1 .. N - 1 : t[k].n = r2[i].index
    <3>1. PICK k \in 1 .. N : t[k].n = r[i].index
      BY <1>6, <1>8
    <3>2. r[i].index < r[M].index
      BY <1>1, <1>2, <1>8
    <3>3. k # N
      <4>1. r[i].index \in Nat
        BY <1>8, RootFacts DEF M
      <4>2. QED
        BY ONLY <1>5, <3>1, <3>2, <4>1
    <3>4. QED
      BY <1>5, <1>8, <3>1, <3>3
  <2>4. /\ \A k \in 1 .. N - 1 : t2[k].n = hh2[t2[k].s] /\ t2[k].n > 0
        /\ \A k, l \in 1 .. N - 1 : k < l => t2[k].n < t2[l].n
        /\ \A i \in 1 .. M - 1 : \E k \in 1 .. N - 1 : t2[k].n = r2[i].index
    BY ONLY <1>3, <2>1, <2>2, <2>3
  <2>5. QED
    BY <1>3, <1>5, <2>4 DEF SearchPath
<1>11. Queues(A, hh2, r2, t2)
  <2>1. ASSUME NEW k \in 1 .. N - 1, NEW e \in ToSet(t[k].q)
        PROVE  /\ e \in A /\ hh2[e.src] > 0
               /\ \A i \in 1 .. M - 1 : r2[i].index <= hh2[e.src] <=> r2[i].index <= t[k].n
    <3>1. /\ e \in A /\ hh[e.src] > 0
          /\ \A i \in 1 .. M : r[i].index <= hh[e.src] <=> r[i].index <= t[k].n
      BY <1>8 DEF Queues, N, M
    <3>2. e.src \in State
      BY <3>1 DEF Edge
    <3>3. hh2[e.src] = hh[e.src]
      BY <1>4, <1>5, <3>2
    <3>4. QED
      BY <1>5, <1>8, <3>1, <3>3
  <2>2. /\ \A k \in 1 .. N - 1 : IsInjective(t[k].q)
        /\ \A k, l \in 1 .. N - 1 : k # l => ToSet(t[k].q) \cap ToSet(t[l].q) = {}
    BY <1>8 DEF Queues, N
  <2>3. QED
    BY <1>3, <1>5, <2>1, <2>2 DEF Queues
<1>12. Queued(t2) = Queued(t)
  <2>1. \A z : z \in Queued(t2) <=> \E k \in 1 .. N - 1 : z \in ToSet(t2[k].q)
    BY <1>3 DEF Queued
  <2>2. \A z : z \in Queued(t) <=> \E k \in 1 .. N : z \in ToSet(t[k].q)
    BY <1>1 DEF Queued
  <2>3. ToSet(t[N].q) = {}
    BY <1>5 DEF ToSet
  <2>4. \A z : z \in Queued(t2) <=> z \in Queued(t)
    BY ONLY <1>3, <1>8, <2>1, <2>2, <2>3
  <2>5. QED
    BY ONLY <2>4
<1>13. ASSUME Remembered(hh, r, t) PROVE Remembered(hh2, r2, t2)
  <2>1. \A i \in 1 .. M : ToSet(r[i].rem) = Scc(hh, r, i) \ {t[k].s : k \in 1 .. N}
    BY <1>13 DEF Remembered, OnPath, N, M
  <2>2. ASSUME NEW i \in 1 .. M - 1
        PROVE  ToSet(r2[i].rem) = Scc(hh2, r2, i) \ {t2[k].s : k \in 1 .. N - 1}
    <3>1. t[N].s \notin Scc(hh, r, i)
      BY <1>1, <1>4, <1>7, <1>8 DEF S
    <3>2. \A u \in Scc(hh, r, i) : u \in {t[k].s : k \in 1 .. N} <=> u \in {t2[k].s : k \in 1 .. N - 1}
      BY <1>3, <1>8, <3>1
    <3>3. i \in 1 .. M /\ r2[i].rem = r[i].rem /\ Scc(hh2, r2, i) = Scc(hh, r, i)
      BY <1>5, <1>8
    <3>4. QED
      BY <2>1, <3>2, <3>3
  <2>3. QED
    BY <1>3, <1>5, <2>2 DEF Remembered, OnPath
<1>14. QED
  BY <1>9, <1>10, <1>11, <1>12, <1>13 DEF RootPopped

-----------------------------------------------------------------------------
(* The steps of check()                                                    *)

(* What holds once the initial state was numbered and stacked.             *)
FirstInv(A, n, hh, r, a, t, q) ==
  /\ Orders(hh, n + 1) /\ Roots(hh, r) /\ SearchPath(hh, r, t) /\ Queues(A, hh, r, t)
  /\ Queued(t) = ToSet(q)
  /\ Steps(A, hh, r, a, Queued(t)) /\ Sccs(A, hh, r, Queued(t)) /\ Remembered(hh, r, t)
  /\ NoRun(A, DeadSet(hh)) /\ Visited(A, hh)

(* When only the initial state is numbered, alone on the path and in a     *)
(* component of its own, with its successors in its queue, the invariant   *)
(* of the search holds.                                                    *)
LEMMA FirstState ==
  ASSUME NEW A \in SUBSET Edge, NEW n \in Nat, NEW hh \in [State -> Int],
         hh[s0] = n + 1, \A s \in State : s # s0 => hh[s] = 0,
         NEW r \in Seq(Component), Len(r) = 1, r[1] = connected_component(n + 1), NEW a,
         NEW t \in Seq(Todo), Len(t) = 1, t[1].s = s0, t[1].n = n + 1,
         NEW q, t[1].q = q, IsInjective(q), ToSet(q) \subseteq succ_iter(A, s0),
         \A f \in Live(A) : f.src = s0 => f \in ToSet(q)
  PROVE  FirstInv(A, n, hh, r, a, t, q)
<1>0. s0 \in State
  BY TwaAssumption
<1>1. r[1].index = n + 1 /\ r[1].condition = {} /\ r[1].rem = << >>
  BY DEF connected_component
<1>2. Orders(hh, n + 1)
  <2>1. \A s \in State : -1 <= hh[s] /\ hh[s] <= n + 1
    <3> SUFFICES ASSUME NEW s \in State PROVE -1 <= hh[s] /\ hh[s] <= n + 1
      OBVIOUS
    <3>1. hh[s] = 0 \/ hh[s] = n + 1
      OBVIOUS
    <3>2. QED
      BY <3>1
  <2>2. \A s \in State : hh[s] > 0 => s = s0
    OBVIOUS
  <2>3. QED
    BY <2>1, <2>2 DEF Orders
<1>3. \A i \in 1 .. 1 : i = 1
  OBVIOUS
<1>4. Roots(hh, r)
  <2>1. r # << >> /\ \A s \in State : hh[s] > 0 => r[1].index <= hh[s]
    <3>1. \A s \in State : hh[s] > 0 => hh[s] = n + 1
      OBVIOUS
    <3>2. r # << >>
      OBVIOUS
    <3>3. QED
      BY ONLY n \in Nat, <1>1, <3>1, <3>2
  <2>2. QED
    BY <1>1, <1>3, <2>1 DEF Roots
<1>5. SearchPath(hh, r, t)
  BY <1>1, <1>3 DEF SearchPath
<1>6. DOMAIN t = {1} /\ 1 \in 1 .. 1
  OBVIOUS
<1>7. Queued(t) = ToSet(q)
  BY <1>6 DEF Queued
<1>8. Queues(A, hh, r, t)
  <2>1. \A e \in ToSet(q) : e \in A /\ e.src = s0
    BY DEF succ_iter
  <2>2. QED
    BY <1>3, <2>1 DEF Queues
<1>9. Scc(hh, r, 1) = {s0}
  BY <1>0, <1>1 DEF Scc
<1>10. Taken(A, hh, Queued(t)) = {}
  <2>1. \A f \in Live(A) : f.src \in State
    BY DEF Live, Edge
  <2>2. QED
    BY <1>7, <2>1 DEF Taken
<1>11. Steps(A, hh, r, a, Queued(t))
  <2>1. \A i \in 2 .. 1 : FALSE
    OBVIOUS
  <2>2. QED
    BY <1>10, <2>1 DEF Steps
<1>12. Sccs(A, hh, r, Queued(t))
  <2>1. Within({}, Scc(hh, r, 1)) = {} /\ Marks({}) = {}
    BY DEF Within, Marks
  <2>2. Connects({}, {s0})
    BY DEF Connects
  <2>3. QED
    BY <1>1, <1>3, <1>9, <1>10, <2>1, <2>2 DEF Sccs
<1>13. Remembered(hh, r, t)
  <2>1. {t[k].s : k \in 1 .. 1} = {s0}
    BY <1>3, <1>6
  <2>2. ToSet(r[1].rem) = {}
    BY <1>1 DEF ToSet
  <2>3. QED
    BY <1>3, <1>9, <2>1, <2>2 DEF Remembered, OnPath
<1>14. DeadSet(hh) = {}
  BY DEF DeadSet
<1>15. NoRun(A, {})
  BY DEF NoRun, Closed, StronglyConnected
<1>16. Visited(A, hh)
  <2>1. Live(A) \in SUBSET Edge
    BY DEF Live
  <2>2. s0 \in Reach(Live(A), s0)
    BY <1>0, <2>1, ReachFacts
  <2>3. QED
    BY <1>0, <2>2 DEF Visited
<1>17. QED
  BY <1>2, <1>4, <1>5, <1>7, <1>8, <1>11, <1>12, <1>13, <1>14, <1>15, <1>16 DEF FirstInv

(* The last queue is replaced.                                             *)
LEMMA NewQueue ==
  ASSUME NEW t \in Seq(Todo), t # << >>, NEW q2 \in Seq(Edge)
  PROVE  LET t2 == [t EXCEPT ![Len(t)].q = q2]
         IN  /\ t2 \in Seq(Todo) /\ Len(t2) = Len(t)
             /\ \A k \in 1 .. Len(t) : /\ t2[k].s = t[k].s /\ t2[k].n = t[k].n
                                       /\ k # Len(t) => t2[k].q = t[k].q
             /\ t2[Len(t)].q = q2
<1> DEFINE N == Len(t)
           t2 == [t EXCEPT ![N].q = q2]
           x == [t[N] EXCEPT !.q = q2]
<1>1. N \in 1 .. N /\ t[N] \in Todo
  OBVIOUS
<1>2. x \in Todo /\ x.s = t[N].s /\ x.n = t[N].n /\ x.q = q2
  BY <1>1 DEF Todo
<1>3. t2 = [t EXCEPT ![N] = x]
  OBVIOUS
<1> HIDE DEF x
<1>4. /\ t2 \in Seq(Todo) /\ Len(t2) = N /\ t2[N] = x
      /\ \A k \in 1 .. N : k # N => t2[k] = t[k]
  BY <1>1, <1>2, <1>3
<1> HIDE DEF t2
<1>5. \A k \in 1 .. N : t2[k].s = t[k].s /\ t2[k].n = t[k].n /\ (k # N => t2[k].q = t[k].q)
  BY <1>2, <1>4
<1>6. QED
  BY <1>2, <1>4, <1>5 DEF t2

(* queue.erase(old)                                                        *)
LEMMA EraseAt ==
  ASSUME NEW q \in Seq(Edge), NEW x \in 1 .. Len(q)
  PROVE  /\ RemoveAt(q, x) \in Seq(Edge) /\ Len(RemoveAt(q, x)) = Len(q) - 1
         /\ \A i \in 1 .. Len(q) - 1 : RemoveAt(q, x)[i] = q[IF i < x THEN i ELSE i + 1]
<1> DEFINE m == Len(q)
           a == SubSeq(q, 1, x - 1)
           b == SubSeq(q, x + 1, m)
           c == a \o b
<1>1. m \in Nat /\ x \in 1 .. m
  OBVIOUS
<1>2. a \in Seq(Edge) /\ Len(a) = x - 1 /\ \A i \in 1 .. x - 1 : a[i] = q[i]
  BY <1>1
<1>3. b \in Seq(Edge) /\ Len(b) = m - x /\ \A i \in 1 .. m - x : b[i] = q[x + i]
  BY <1>1
<1>4. RemoveAt(q, x) = c
  BY DEF RemoveAt
<1> HIDE DEF a, b, m
<1>5. /\ c \in Seq(Edge) /\ Len(c) = Len(a) + Len(b)
      /\ \A i \in 1 .. Len(a) : c[i] = a[i]
      /\ \A i \in 1 .. Len(b) : c[Len(a) + i] = b[i]
  <2>1. a \in Seq(Edge) /\ b \in Seq(Edge)
    BY <1>2, <1>3
  <2>2. QED
    BY ONLY <2>1
<1> HIDE DEF c
<1>6. ASSUME NEW i \in 1 .. m - 1 PROVE c[i] = q[IF i < x THEN i ELSE i + 1]
  <2>1. CASE i < x
    <3>1. i \in 1 .. x - 1
      BY <1>1, <2>1
    <3>2. QED
      BY <1>2, <1>5, <2>1, <3>1
  <2>2. CASE ~(i < x)
    <3>1. i - (x - 1) \in 1 .. m - x /\ (x - 1) + (i - (x - 1)) = i /\ x + (i - (x - 1)) = i + 1
      BY <1>1, <2>2
    <3>2. c[i] = b[i - (x - 1)]
      BY <1>2, <1>3, <1>5, <3>1
    <3>3. b[i - (x - 1)] = q[i + 1]
      BY <1>3, <3>1
    <3>4. QED
      BY <2>2, <3>2, <3>3
  <2>3. QED
    BY <2>1, <2>2
<1>7. Len(c) = m - 1
  BY <1>1, <1>2, <1>3, <1>5
<1>8. QED
  BY <1>4, <1>5, <1>6, <1>7 DEF m

(* The edge at x is removed from the last queue.                           *)
LEMMA TookAt ==
  ASSUME edges \in SUBSET Edge, SearchInv, todo # << >>, NEW x \in 1 .. Len(Last(todo).q),
         NEW e, e = Last(todo).q[x], NEW q2 \in Seq(Edge), Len(q2) = Len(Last(todo).q) - 1,
         \A i \in 1 .. Len(Last(todo).q) - 1 : q2[i] = Last(todo).q[IF i < x THEN i ELSE i + 1]
  PROVE  Took(edges, h, root, todo, e, [todo EXCEPT ![Len(todo)].q = q2])
<1> DEFINE t2 == [todo EXCEPT ![Len(todo)].q = q2]
           q == Last(todo).q
<1>1. /\ h \in [State -> Int] /\ Roots(h, root) /\ SearchPath(h, root, todo)
      /\ Queues(edges, h, root, todo) /\ todo \in Seq(Todo)
  BY DEF SearchInv, Orders, SearchPath
<1>2. /\ t2 \in Seq(Todo) /\ Len(t2) = Len(todo)
      /\ \A k \in 1 .. Len(todo) : /\ t2[k].s = todo[k].s /\ t2[k].n = todo[k].n
                                   /\ k # Len(todo) => t2[k].q = todo[k].q
      /\ t2[Len(todo)].q = q2
  BY <1>1, NewQueue
<1>3. /\ q = todo[Len(todo)].q /\ x \in 1 .. Len(q) /\ e = q[x] /\ Len(q2) = Len(q) - 1
      /\ \A i \in 1 .. Len(q) - 1 : q2[i] = q[IF i < x THEN i ELSE i + 1]
  BY DEF Last
<1> HIDE DEF t2, q
<1>4. WithoutEdge(todo, x, e, t2)
  BY <1>2, <1>3 DEF WithoutEdge
<1>5. Took(edges, h, root, todo, e, t2)
  BY <1>1, <1>4, TakeEdge
<1>6. QED
  BY <1>5 DEF t2

(* The iterator of the last state was moved.                               *)
LEMMA MovedTook ==
  ASSUME edges \in SUBSET Edge, SearchInv, NEW e, On(e)
  PROVE  Took(edges, h, root, todo, e, Moved)
<1> DEFINE q == Last(todo).q
<1>1. todo # << >> /\ q # << >> /\ e = Head(q)
  BY DEF On
<1>2. q \in Seq(Edge)
  <2>1. todo \in Seq(Todo)
    BY DEF SearchInv, SearchPath
  <2>2. Last(todo) \in Todo
    BY <1>1, <2>1 DEF Last
  <2>3. QED
    BY <2>2 DEF Todo
<1>3. Moved = [todo EXCEPT ![Len(todo)].q = Tail(q)]
  BY DEF Moved, Last
<1> HIDE DEF q
<1>4. 1 \in 1 .. Len(q) /\ e = q[1]
  BY <1>1, <1>2
<1>5. /\ Tail(q) \in Seq(Edge) /\ Len(Tail(q)) = Len(q) - 1
      /\ \A i \in 1 .. Len(q) - 1 : Tail(q)[i] = q[IF i < 1 THEN i ELSE i + 1]
  BY <1>1, <1>2
<1>6. Took(edges, h, root, todo, e, [todo EXCEPT ![Len(todo)].q = Tail(q)])
  BY <1>1, <1>4, <1>5, TookAt DEF q
<1>7. QED
  BY <1>3, <1>6

(* The edge under consideration was erased.                                *)
LEMMA ErasedTook ==
  ASSUME edges \in SUBSET Edge, SearchInv, todo # << >>, pos \in Nat \ {0}, NEW e, Considered(e)
  PROVE  Took(edges, h, root, todo, e, Erased)
<1> DEFINE q == Last(todo).q
<1>1. q # << >> /\ e = q[old]
  BY DEF Considered, queue
<1>2. q \in Seq(Edge)
  <2>1. todo \in Seq(Todo)
    BY DEF SearchInv, SearchPath
  <2>2. Last(todo) \in Todo
    BY <2>1 DEF Last
  <2>3. QED
    BY <2>2 DEF Todo
<1>3. Erased = [todo EXCEPT ![Len(todo)].q = RemoveAt(q, old)]
  BY DEF Erased, Last
<1>4. old \in 1 .. Len(q)
  BY <1>1, <1>2 DEF old, queue
<1> HIDE DEF q
<1>5. /\ RemoveAt(q, old) \in Seq(Edge) /\ Len(RemoveAt(q, old)) = Len(q) - 1
      /\ \A i \in 1 .. Len(q) - 1 : RemoveAt(q, old)[i] = q[IF i < old THEN i ELSE i + 1]
  BY <1>2, <1>4, EraseAt
<1>6. Took(edges, h, root, todo, e, [todo EXCEPT ![Len(todo)].q = RemoveAt(q, old)])
  BY <1>1, <1>4, <1>5, TookAt DEF q
<1>7. QED
  BY <1>3, <1>6

(* An edge labelled by false, or to a dead state, is left aside.           *)
LEMMA StepDead ==
  ASSUME edges \in SUBSET Edge, SearchInv, NEW e, Took(edges, h, root, todo, e, todo'),
         ~e.cond \/ h[e.dst] = -1, UNCHANGED <<edges, o, h, root, arc, num>>
  PROVE  SearchInv' /\ todo' # << >>
<1>1. /\ SearchPath(h, root, todo') /\ Queues(edges, h, root, todo') /\ todo' # << >>
      /\ Queued(todo') = Queued(todo) \ {e} /\ OnPath(todo') = OnPath(todo)
  BY DEF Took
<1>2. /\ Taken(edges, h, Queued(todo)) \subseteq Taken(edges, h, Queued(todo'))
      /\ \A f \in Taken(edges, h, Queued(todo')) : f \in Taken(edges, h, Queued(todo)) \/ h[f.dst] = -1
  BY <1>1 DEF Taken, Live
<1>3. h \in [State -> Int] /\ Roots(h, root)
  BY DEF SearchInv, Orders
<1>4. Steps(edges, h, root, arc, Queued(todo')) /\ Sccs(edges, h, root, Queued(todo'))
  <2>1. Steps(edges, h, root, arc, Queued(todo)) /\ Sccs(edges, h, root, Queued(todo))
    BY DEF SearchInv
  <2>2. QED
    BY <1>2, <1>3, <2>1, TakeDead
<1>5. o.poprem => Remembered(h, root, todo')
  BY <1>1 DEF SearchInv, Remembered
<1>6. o.shy => Queued(todo') \subseteq Live(edges)
  BY <1>1 DEF SearchInv
<1>7. QED
  BY <1>1, <1>4, <1>5, <1>6 DEF SearchInv

(* An edge to a new state is taken, and the state stacked.                 *)
LEMMA StepNew ==
  ASSUME edges \in SUBSET Edge, SearchInv, NEW e, NEW t, Took(edges, h, root, todo, e, t),
         e.cond, h[e.dst] = 0, num' = num + 1, h' = [h EXCEPT ![e.dst] = num'],
         root' = Append(root, connected_component(num')), arc' = Append(arc, e.acc),
         NEW q \in Seq(Edge), IsInjective(q), ToSet(q) \subseteq succ_iter(edges, e.dst),
         \A f \in Live(edges) : f.src = e.dst => f \in ToSet(q),
         o.shy => ToSet(q) \subseteq Live(edges),
         todo' = Append(t, [s |-> e.dst, n |-> num', q |-> q]), UNCHANGED <<edges, o>>
  PROVE  SearchInv' /\ todo' # << >>
<1> DEFINE P == Queued(todo)
           P2 == Queued(todo')
           d == e.dst
           N == Len(root)
<1>1. /\ SearchPath(h, root, t) /\ Queues(edges, h, root, t) /\ t # << >>
      /\ Queued(t) = P \ {e} /\ e \in P /\ OnPath(t) = OnPath(todo)
      /\ e \in edges /\ e.src \in Scc(h, root, N)
  BY DEF Took
<1>2. /\ Orders(h, num) /\ h \in [State -> Int] /\ num \in Nat /\ Roots(h, root)
      /\ \A s \in State : h[s] <= num
      /\ arc \in Seq(SUBSET Mark) /\ Len(arc) = N - (IF o.shy THEN 1 ELSE 0)
      /\ Steps(edges, h, root, arc, P) /\ Sccs(edges, h, root, P)
      /\ (o.poprem => Remembered(h, root, todo)) /\ (o.shy => P \subseteq Live(edges))
      /\ NoRun(edges, DeadSet(h)) /\ Visited(edges, h)
  BY DEF SearchInv, Orders
<1>3. /\ root \in Seq(Component) /\ t \in Seq(Todo) /\ root # << >>
      /\ N \in Nat \ {0} /\ Len(arc) >= N - 1 /\ Len(arc) \in Nat
  <2>1. root \in Seq(Component) /\ t \in Seq(Todo)
    <3>1. Roots(h, root) /\ SearchPath(h, root, t)
      BY <1>1, <1>2
    <3>2. QED
      BY ONLY <3>1 DEF Roots, SearchPath
  <2>2. root # << >>
    BY <1>1, <1>2, PathFacts
  <2>3. QED
    BY <1>2, <2>1, <2>2
<1>4. d \in State /\ e.acc \in SUBSET Mark /\ e.src \in State /\ e \in Live(edges)
  BY <1>1 DEF Edge, Live
<1>5. connected_component(num + 1) \in Component
  BY <1>2 DEF connected_component, Component
<1>6. [s |-> d, n |-> num + 1, q |-> q] \in Todo
  BY <1>2, <1>4 DEF Todo
<1>7. Numbered(h, d, num, h')
  BY <1>2, <1>4 DEF Numbered
<1>8. root' \in Seq(Component) /\ Stacked(root, connected_component(num + 1), root') /\ Len(root') = N + 1
  BY <1>3, <1>5 DEF Stacked
<1>9. arc' \in Seq(SUBSET Mark) /\ Stacked(arc, e.acc, arc') /\ Len(arc') = Len(arc) + 1
  BY <1>2, <1>4 DEF Stacked
<1>10. todo' \in Seq(Todo) /\ Stacked(t, [s |-> d, n |-> num + 1, q |-> q], todo') /\ todo' # << >>
  BY <1>3, <1>6 DEF Stacked
<1>11. /\ Orders(h', num + 1) /\ SearchPath(h', root', todo') /\ Queues(edges, h', root', todo')
       /\ P2 = Queued(t) \cup ToSet(q) /\ OnPath(todo') = OnPath(t) \cup {d}
  <2>1. PushedOn(edges, num, t, d, q, h', root', todo')
    BY <1>1, <1>2, <1>4, <1>7, <1>8, <1>10, PushState
  <2>2. QED
    BY <2>1 DEF PushedOn
<1>12. NewTaken(edges, P, e, P2)
  BY <1>1, <1>11 DEF succ_iter, NewTaken
<1> HIDE DEF P, P2, N
<1>13. /\ Roots(h', root') /\ Steps(edges, h', root', arc', P2) /\ Sccs(edges, h', root', P2)
       /\ \A i \in 1 .. N : Scc(h', root', i) = Scc(h, root, i)
       /\ Scc(h', root', N + 1) = {d}
  <2>1. NewComponent(edges, h, root, d, h', root', arc', P2)
    BY <1>1, <1>2, <1>3, <1>4, <1>7, <1>8, <1>9, <1>12, NewScc DEF N
  <2>2. QED
    BY <2>1 DEF NewComponent, N
<1>14. ASSUME o.poprem PROVE Remembered(h', root', todo')
  <2> SUFFICES ASSUME NEW i \in 1 .. N + 1
               PROVE  ToSet(root'[i].rem) = Scc(h', root', i) \ OnPath(todo')
    BY <1>8 DEF Remembered
  <2>1. CASE i \in 1 .. N
    <3>1. root'[i] = root[i]
      BY <1>8, <2>1 DEF Stacked, N
    <3>2. ToSet(root[i].rem) = Scc(h, root, i) \ OnPath(t)
      BY <1>1, <1>2, <1>14, <2>1 DEF Remembered, N
    <3>3. d \notin Scc(h, root, i)
      <4>1. \A s \in Scc(h, root, i) : h[s] > 0
        BY <1>2, <2>1, SccFacts DEF N
      <4>2. QED
        BY <4>1
    <3>4. Scc(h', root', i) = Scc(h, root, i) /\ OnPath(todo') = OnPath(t) \cup {d}
      BY <1>11, <1>13, <2>1
    <3>5. QED
      BY ONLY <3>1, <3>2, <3>3, <3>4
  <2>2. CASE i = N + 1
    <3>1. root'[i].rem = << >>
      BY <1>8, <2>2 DEF Stacked, N, connected_component
    <3>2. ToSet(<< >>) = {}
      BY DEF ToSet
    <3>3. Scc(h', root', i) \ OnPath(todo') = {}
      BY <1>11, <1>13, <2>2
    <3>4. QED
      BY <3>1, <3>2, <3>3
  <2>3. i \in 1 .. N \/ i = N + 1
    BY <1>3
  <2>4. QED
    BY ONLY <2>1, <2>2, <2>3
<1>15. DeadSet(h') = DeadSet(h)
  <2>1. \A s \in State : h'[s] = -1 <=> h[s] = -1
    BY <1>2, <1>4, <1>7 DEF Numbered
  <2>2. QED
    BY <2>1 DEF DeadSet
<1>16. Visited(edges, h')
  <2>0. N \in 1 .. N
    BY <1>3
  <2>1. h[e.src] > 0
    BY <1>1, <1>2, <2>0, SccFacts DEF N
  <2>2. e.src \in Reach(Live(edges), s0)
    BY <1>2, <1>4, <2>1 DEF Visited
  <2>3. d \in Reach(Live(edges), s0)
    BY <1>4, <2>2 DEF Reach, Closed
  <2>4. s0 \in State /\ s0 # d
    BY <1>2, TwaAssumption DEF Visited
  <2>5. QED
    BY <1>2, <1>7, <2>3, <2>4 DEF Visited, Numbered
<1>17. o.shy => P2 \subseteq Live(edges)
  BY <1>1, <1>2, <1>11
<1>18. Len(arc') = Len(root') - (IF o.shy THEN 1 ELSE 0)
  BY <1>2, <1>3, <1>8, <1>9
<1>19. QED
  BY <1>2, <1>9, <1>10, <1>11, <1>13, <1>14, <1>15, <1>16, <1>17, <1>18 DEF SearchInv, P2

(* The greatest element of a set of indices.                               *)
LEMMA LastIndex ==
  ASSUME NEW n \in Nat, NEW I \in SUBSET (1 .. n), I # {}
  PROVE  Max(I) \in I /\ \A i \in I : i <= Max(I)
<1>1. PICK x \in I : \A y \in I : y <= x
  BY GreatestNumber
<1>2. \E z \in I : \A y \in I : z >= y
  <2>1. \A y \in I : x >= y
    BY <1>1
  <2>2. QED
    BY <2>1
<1>3. Max(I) \in I /\ \A y \in I : Max(I) >= y
  BY <1>2, Zenon DEF Max
<1>4. QED
  BY <1>3

(* The loop over the roots stops in the component of the state it is       *)
(* called for.                                                             *)
LEMMA StopFacts ==
  ASSUME h \in [State -> Int], Roots(h, root), NEW d \in State, h[d] > 0
  PROVE  Stop(h[d]) \in 1 .. Len(root) /\ d \in Scc(h, root, Stop(h[d]))
<1> DEFINE I == {i \in 1 .. Len(root) : root[i].index <= h[d]}
           k == Stop(h[d])
<1>1. PICK j \in 1 .. Len(root) : d \in Scc(h, root, j)
  BY SccFacts
<1>2. \A i \in 1 .. Len(root) : root[i].index <= h[d] <=> i <= j
  BY <1>1, SccFacts
<1>3. Len(root) \in Nat /\ I \in SUBSET (1 .. Len(root)) /\ j \in I
  <2>1. Len(root) \in Nat
    BY RootFacts
  <2>2. j <= j
    BY <2>1
  <2>3. QED
    BY <1>2, <2>1, <2>2
<1>4. k = Max(I)
  BY <1>3 DEF Stop, SelectLastInSeq
<1>5. k \in I /\ j <= k
  BY <1>3, <1>4, LastIndex
<1>6. k = j
  <2>1. k <= j /\ k \in 1 .. Len(root)
    BY <1>2, <1>5
  <2>2. QED
    BY <1>3, <1>5, <2>1
<1>7. QED
  BY <1>1, <1>6

(* The marks gathered from the components above k and the edges into them. *)
LEMMA GatheredFacts ==
  ASSUME root \in Seq(Component), arc \in Seq(SUBSET Mark), Len(arc) >= Len(root) - 1,
         NEW k \in 1 .. Len(root)
  PROVE  /\ Gathered(k) \subseteq Mark
         /\ Gathered(k) = (UNION {root[i].condition : i \in k + 1 .. Len(root)})
                            \cup (UNION {ArcInto(root, arc, i) : i \in k + 1 .. Len(root)})
<1> DEFINE N == Len(root)
           A(i) == arc[Len(arc) - i]
           X == UNION {A(i) : i \in 0 .. N - k - 1}
           Y == UNION {ArcInto(root, arc, i) : i \in k + 1 .. N}
           C == UNION {root[i].condition : i \in k + 1 .. N}
<1>1. N \in Nat /\ Len(arc) \in Nat /\ k \in 1 .. N
  OBVIOUS
<1>2. \A i \in k + 1 .. N : N - i \in 0 .. N - k - 1 /\ ArcInto(root, arc, i) = A(N - i)
  BY <1>1 DEF ArcInto
<1>3. \A i \in 0 .. N - k - 1 : N - i \in k + 1 .. N /\ ArcInto(root, arc, N - i) = A(i)
  <2> SUFFICES ASSUME NEW i \in 0 .. N - k - 1
               PROVE  N - i \in k + 1 .. N /\ ArcInto(root, arc, N - i) = A(i)
    OBVIOUS
  <2>1. N - i \in k + 1 .. N /\ Len(arc) - (N - (N - i)) = Len(arc) - i
    BY <1>1
  <2>2. QED
    BY <2>1 DEF ArcInto
<1>4. \A i \in k + 1 .. N : root[i].condition \subseteq Mark
  <2> SUFFICES ASSUME NEW i \in k + 1 .. N PROVE root[i].condition \subseteq Mark
    OBVIOUS
  <2>1. i \in 1 .. N
    BY <1>1
  <2>2. root[i] \in Component
    BY <2>1
  <2>3. QED
    BY <2>2 DEF Component
<1>5. \A i \in 0 .. N - k - 1 : A(i) \subseteq Mark
  <2> SUFFICES ASSUME NEW i \in 0 .. N - k - 1 PROVE A(i) \subseteq Mark
    OBVIOUS
  <2>1. Len(arc) - i \in 1 .. Len(arc)
    BY <1>1
  <2>2. QED
    BY <2>1
<1> HIDE DEF A, N
<1>6. \A z : z \in X <=> z \in Y
  <2>1. \A z : z \in X <=> \E i \in 0 .. N - k - 1 : z \in A(i)
    OBVIOUS
  <2>2. \A z : z \in Y <=> \E i \in k + 1 .. N : z \in ArcInto(root, arc, i)
    OBVIOUS
  <2>3. QED
    BY ONLY <1>2, <1>3, <2>1, <2>2
<1>7. X \subseteq Mark /\ C \subseteq Mark
  BY ONLY <1>4, <1>5
<1>8. Gathered(k) = C \cup X
  BY DEF Gathered, N, A
<1> HIDE DEF X, Y, C
<1>9. X = Y
  BY <1>6
<1>10. Gathered(k) \subseteq Mark /\ Gathered(k) = C \cup Y
  BY <1>7, <1>8, <1>9
<1>11. QED
  BY <1>10 DEF C, Y, N

(* What the components above k remember.                                   *)
LEMMA SplicedFacts ==
  ASSUME root \in Seq(Component), NEW k \in 1 .. Len(root)
  PROVE  /\ Spliced(k) \in Seq(State)
         /\ ToSet(Spliced(k)) = UNION {ToSet(root[i].rem) : i \in k + 1 .. Len(root)}
<1> DEFINE N == Len(root)
           ss == [i \in 1 .. N - k |-> root[N + 1 - i].rem]
<1>1. N \in Nat /\ k \in 1 .. N
  OBVIOUS
<1>2. \A i \in 1 .. N : root[i].rem \in Seq(State)
  <2> SUFFICES ASSUME NEW i \in 1 .. N PROVE root[i].rem \in Seq(State)
    OBVIOUS
  <2>1. root[i] \in Component
    OBVIOUS
  <2>2. QED
    BY <2>1 DEF Component
<1> HIDE DEF N
<1>3. \A i \in 1 .. N - k : N + 1 - i \in k + 1 .. N /\ N + 1 - i \in 1 .. N
  BY <1>1
<1>4. \A i \in k + 1 .. N : N + 1 - i \in 1 .. N - k /\ N + 1 - (N + 1 - i) = i
  BY <1>1
<1>5. N - k \in Nat
  BY <1>1
<1>6. ss \in Seq(Seq(State)) /\ Len(ss) = N - k
  BY <1>2, <1>3, <1>5
<1>7. \A i \in 1 .. N - k : ss[i] = root[N + 1 - i].rem
  OBVIOUS
<1>8. Spliced(k) = FlattenSeq(ss)
  BY DEF Spliced, N
<1> HIDE DEF ss
<1>9. FlattenSeq(ss) \in Seq(State) /\ ToSet(FlattenSeq(ss)) = UNION {ToSet(ss[i]) : i \in 1 .. Len(ss)}
  BY <1>6, FlatQueues
<1>10. \A z : (\E i \in 1 .. Len(ss) : z \in ToSet(ss[i])) <=> (\E i \in k + 1 .. N : z \in ToSet(root[i].rem))
  BY <1>3, <1>4, <1>6, <1>7
<1>11. UNION {ToSet(ss[i]) : i \in 1 .. Len(ss)} = UNION {ToSet(root[i].rem) : i \in k + 1 .. N}
  BY ONLY <1>10
<1>12. QED
  BY <1>8, <1>9, <1>11 DEF N

(* root and arc once the components above the k-th were merged into it.    *)
LEMMA MergedFacts ==
  ASSUME root \in Seq(Component), arc \in Seq(SUBSET Mark), Len(arc) >= Len(root) - 1,
         NEW threshold, NEW k \in 1 .. Len(root), k = Stop(threshold), NEW acc \in SUBSET Mark
  PROVE  /\ MergedInto(root, arc, k, acc, Merged(threshold, acc))
         /\ FirstOf(arc, Len(arc) - (Len(root) - k), MergedArc(threshold))
         /\ MergedArc(threshold) \in Seq(SUBSET Mark)
<1> DEFINE N == Len(root)
           g == Gathered(k)
           sp == Spliced(k)
           r1 == SubSeq(root, 1, k)
           c2 == root[k].condition \cup acc \cup g
           m2 == root[k].rem \o sp
           x == [root[k] EXCEPT !.condition = c2, !.rem = m2]
           r2 == Merged(threshold, acc)
<1>1. N \in Nat /\ k \in 1 .. N /\ Len(arc) \in Nat
  OBVIOUS
<1>2. root[k] \in Component
  OBVIOUS
<1>3. /\ root[k].condition \subseteq Mark /\ root[k].rem \in Seq(State) /\ root[k].index \in Int
      /\ root[k] = [index |-> root[k].index, condition |-> root[k].condition, rem |-> root[k].rem]
  BY <1>2 DEF Component
<1>4. r1 \in Seq(Component) /\ Len(r1) = k /\ \A i \in 1 .. k : r1[i] = root[i]
  BY <1>1
<1>5. /\ g \subseteq Mark /\ sp \in Seq(State)
      /\ g = (UNION {root[i].condition : i \in k + 1 .. N})
               \cup (UNION {ArcInto(root, arc, i) : i \in k + 1 .. N})
      /\ ToSet(sp) = UNION {ToSet(root[i].rem) : i \in k + 1 .. N}
  BY GatheredFacts, SplicedFacts
<1>6. m2 \in Seq(State) /\ ToSet(m2) = ToSet(root[k].rem) \cup ToSet(sp)
  BY <1>3, <1>5, JoinQueues
<1>7. r2 = [[r1 EXCEPT ![k].condition = @ \cup acc \cup g] EXCEPT ![k].rem = @ \o sp]
  BY DEF Merged
<1> HIDE DEF g, sp, r1, r2, N
<1>8. /\ DOMAIN r1 = 1 .. k /\ k \in 1 .. k /\ r1[k] = root[k]
  BY <1>1, <1>4
<1>9. x \in Component /\ x.index = root[k].index /\ x.condition = c2 /\ x.rem = m2
  BY <1>3, <1>5, <1>6 DEF Component
<1>10. r2 = [r1 EXCEPT ![k] = x]
  BY <1>3, <1>7, <1>8
<1> HIDE DEF x, c2, m2
<1>11. r2 \in Seq(Component) /\ Len(r2) = k /\ r2[k] = x /\ \A i \in 1 .. k - 1 : r2[i] = root[i]
  <2>1. r2 \in Seq(Component) /\ Len(r2) = k /\ r2[k] = x
    BY <1>4, <1>8, <1>9, <1>10
  <2>2. \A i \in 1 .. k - 1 : r2[i] = root[i]
    BY <1>1, <1>4, <1>8, <1>10
  <2>3. QED
    BY <2>1, <2>2
<1>12. ToSet(r2[k].rem) = UNION {ToSet(root[i].rem) : i \in k .. N}
  <2>1. \A i : i \in k .. N <=> i = k \/ i \in k + 1 .. N
    BY <1>1
  <2>2. \A z : z \in ToSet(r2[k].rem) <=> \E i \in k .. N : z \in ToSet(root[i].rem)
    <3>1. ToSet(r2[k].rem) = ToSet(root[k].rem) \cup ToSet(sp)
      BY <1>6, <1>9, <1>11
    <3>2. \A z : z \in ToSet(sp) <=> \E i \in k + 1 .. N : z \in ToSet(root[i].rem)
      BY ONLY <1>5
    <3>3. QED
      BY ONLY <2>1, <3>1, <3>2
  <2>3. QED
    BY ONLY <2>2
<1>13. r2[k].condition = root[k].condition \cup acc
                            \cup (UNION {root[i].condition : i \in k + 1 .. N})
                            \cup (UNION {ArcInto(root, arc, i) : i \in k + 1 .. N})
  <2>1. r2[k].condition = root[k].condition \cup acc \cup g
    BY <1>9, <1>11 DEF c2
  <2>2. QED
    BY <1>5, <2>1
<1>14. \A i \in 1 .. k : r2[i].index = root[i].index
  <2>1. \A i \in 1 .. k : i = k \/ i \in 1 .. k - 1
    BY <1>1
  <2>2. QED
    BY <1>9, <1>11, <2>1
<1>15. MergedInto(root, arc, k, acc, r2)
  BY <1>11, <1>12, <1>13, <1>14 DEF MergedInto, N
<1>16. FirstOf(arc, Len(arc) - (N - k), MergedArc(threshold)) /\ MergedArc(threshold) \in Seq(SUBSET Mark)
  <2>1. Len(arc) - (N - k) \in Nat /\ Len(arc) - (N - k) <= Len(arc)
    BY <1>1 DEF N
  <2>2. MergedArc(threshold) = SubSeq(arc, 1, Len(arc) - (N - k))
    BY DEF MergedArc, N
  <2>3. QED
    BY <2>1, <2>2 DEF FirstOf
<1>17. QED
  BY <1>15, <1>16 DEF r2, N

(* What holds once the edge e to an alive state was taken, with t, r2 and  *)
(* a2 for todo, root and arc; the last component may be accepting.         *)
MergeStep(e, t, r2, a2) ==
  /\ e \in Live(edges) /\ e.dst \in Scc(h, r2, Len(r2)) /\ r2 # << >>
  /\ Roots(h, r2) /\ SearchPath(h, r2, t) /\ Queues(edges, h, r2, t)
  /\ a2 \in Seq(SUBSET Mark) /\ Len(a2) = Len(r2) - (IF o.shy THEN 1 ELSE 0)
  /\ Queued(t) = Queued(todo) \ {e} /\ t # << >>
  /\ LET E == Within(Taken(edges, h, Queued(t)), Scc(h, r2, Len(r2)))
     IN e \in E /\ Connects(E, Scc(h, r2, Len(r2))) /\ r2[Len(r2)].condition = Marks(E)
  /\ Steps(edges, h, r2, a2, Queued(t))
  /\ ~accepting(r2[Len(r2)].condition) => Sccs(edges, h, r2, Queued(t))
  /\ o.poprem => Remembered(h, r2, t)

(* An edge to an alive state merges components.                            *)
LEMMA StepMerge ==
  ASSUME edges \in SUBSET Edge, SearchInv, NEW e, NEW t, Took(edges, h, root, todo, e, t),
         e.cond, h[e.dst] > 0
  PROVE  MergeStep(e, t, Merged(h[e.dst], e.acc), MergedArc(h[e.dst]))
<1> DEFINE P == Queued(todo)
           P2 == Queued(t)
           d == e.dst
           N == Len(root)
           k == Stop(h[d])
           r2 == Merged(h[d], e.acc)
           a2 == MergedArc(h[d])
<1>1. /\ SearchPath(h, root, t) /\ Queues(edges, h, root, t) /\ t # << >>
      /\ P2 = P \ {e} /\ e \in P /\ OnPath(t) = OnPath(todo)
      /\ e \in edges /\ e.src \in Scc(h, root, N)
  BY DEF Took
<1>2. /\ Orders(h, num) /\ h \in [State -> Int] /\ num \in Nat /\ Roots(h, root)
      /\ arc \in Seq(SUBSET Mark) /\ Len(arc) = N - (IF o.shy THEN 1 ELSE 0)
      /\ Steps(edges, h, root, arc, P) /\ Sccs(edges, h, root, P)
      /\ (o.poprem => Remembered(h, root, todo))
  BY DEF SearchInv, Orders
<1>3. root \in Seq(Component) /\ N \in Nat /\ Len(arc) >= N - 1 /\ Len(arc) \in Nat
  <2>1. root \in Seq(Component)
    BY <1>2 DEF Roots
  <2>2. QED
    BY <1>2, <2>1
<1>4. d \in State /\ e.acc \in SUBSET Mark /\ e.src \in State /\ e \in Live(edges)
  BY <1>1 DEF Edge, Live
<1>5. k \in 1 .. N /\ d \in Scc(h, root, k)
  BY <1>2, <1>4, StopFacts
<1>6. MergedInto(root, arc, k, e.acc, r2) /\ FirstOf(arc, Len(arc) - (N - k), a2) /\ a2 \in Seq(SUBSET Mark)
  BY <1>2, <1>3, <1>4, <1>5, MergedFacts
<1>7. OneLess(edges, P, e, P2)
  BY <1>1 DEF OneLess
<1> HIDE DEF P, P2, N, k, r2, a2
<1>8. /\ Roots(h, r2) /\ Steps(edges, h, r2, a2, P2)
      /\ \A i \in 1 .. k - 1 : Scc(h, r2, i) = Scc(h, root, i)
      /\ \A s \in State : s \in Scc(h, r2, k) <=> \E i \in k .. N : s \in Scc(h, root, i)
      /\ LET E == Within(Taken(edges, h, P2), Scc(h, r2, k))
         IN e \in E /\ Connects(E, Scc(h, r2, k)) /\ r2[k].condition = Marks(E)
      /\ ~accepting(r2[k].condition) => Sccs(edges, h, r2, P2)
  <2>1. MergedScc(edges, h, root, k, e, r2, a2, P2)
    BY <1>1, <1>2, <1>3, <1>4, <1>5, <1>6, <1>7, MergeScc DEF N
  <2>2. QED
    BY <2>1 DEF MergedScc, N
<1>9. Len(r2) = k /\ Len(a2) = Len(arc) - (N - k)
  BY <1>6 DEF MergedInto, FirstOf
<1>10. SearchPath(h, r2, t) /\ Queues(edges, h, r2, t)
  BY <1>1, <1>3, <1>5, <1>6, MergePath DEF N
<1>11. o.poprem => Remembered(h, r2, t)
  <2>1. o.poprem => Remembered(h, root, t)
    BY <1>1, <1>2 DEF Remembered
  <2>2. QED
    BY <1>3, <1>5, <1>6, <1>8, <2>1, MergeRemembered DEF N
<1>12. d \in Scc(h, r2, k)
  BY <1>8 DEF Within
<1>13. r2 # << >>
  BY <1>3, <1>5, <1>9
<1>14. Len(a2) = k - (IF o.shy THEN 1 ELSE 0)
  BY <1>2, <1>3, <1>5, <1>9
<1>15. MergeStep(e, t, r2, a2)
  BY <1>1, <1>4, <1>6, <1>8, <1>9, <1>10, <1>11, <1>12, <1>13, <1>14 DEF MergeStep, P, P2
<1>16. QED
  BY <1>15 DEF r2, a2

(* r2 is r, but for what the components remember.                          *)
SameButRem(r, r2) ==
  /\ r2 \in Seq(Component) /\ Len(r2) = Len(r)
  /\ \A i \in 1 .. Len(r) : r2[i].index = r[i].index /\ r2[i].condition = r[i].condition

(* Nothing but Remembered depends on what the components remember.         *)
LEMMA RemAside ==
  ASSUME NEW A, NEW hh, NEW r, NEW a, NEW P, NEW t, Roots(hh, r), Steps(A, hh, r, a, P),
         Sccs(A, hh, r, P), SearchPath(hh, r, t), Queues(A, hh, r, t), NEW r2, SameButRem(r, r2)
  PROVE  /\ Roots(hh, r2) /\ Steps(A, hh, r2, a, P) /\ Sccs(A, hh, r2, P)
         /\ SearchPath(hh, r2, t) /\ Queues(A, hh, r2, t)
<1>1. /\ r2 \in Seq(Component) /\ Len(r2) = Len(r)
      /\ \A i \in 1 .. Len(r) : r2[i].index = r[i].index /\ r2[i].condition = r[i].condition
  BY DEF SameButRem
<1>2. Roots(hh, r2) /\ Steps(A, hh, r2, a, P) /\ Sccs(A, hh, r2, P)
  BY <1>1, SameRoots
<1>3. SearchPath(hh, r2, t)
  BY <1>1 DEF SearchPath
<1>4. Queues(A, hh, r2, t)
  BY <1>1 DEF Queues
<1>5. QED
  BY <1>2, <1>3, <1>4

(* The last component remembers the states of p, too.                      *)
RemPrepended(r, p, r2) == r2 = [r EXCEPT ![Len(r)].rem = p \o @]

(* A component that remembers more states keeps the rest.                  *)
LEMMA RemAdded ==
  ASSUME NEW r \in Seq(Component), r # << >>, NEW p \in Seq(State), NEW r2, RemPrepended(r, p, r2)
  PROVE  /\ SameButRem(r, r2) /\ \A i \in 1 .. Len(r) - 1 : r2[i] = r[i]
         /\ ToSet(r2[Len(r)].rem) = ToSet(p) \cup ToSet(r[Len(r)].rem)
<1> DEFINE N == Len(r)
           m == p \o r[N].rem
           x == [r[N] EXCEPT !.rem = m]
<1>1. N \in Nat \ {0} /\ N \in 1 .. N /\ DOMAIN r = 1 .. N
  OBVIOUS
<1>2. r[N] \in Component
  BY <1>1
<1>3. /\ r[N].condition \subseteq Mark /\ r[N].rem \in Seq(State) /\ r[N].index \in Int
      /\ r[N] = [index |-> r[N].index, condition |-> r[N].condition, rem |-> r[N].rem]
  BY <1>2 DEF Component
<1>4. m \in Seq(State) /\ ToSet(m) = ToSet(p) \cup ToSet(r[N].rem)
  BY <1>3, JoinQueues
<1>5. x \in Component /\ x.index = r[N].index /\ x.condition = r[N].condition /\ x.rem = m
  BY <1>3, <1>4 DEF Component
<1>6. r2 = [r EXCEPT ![N] = x] /\ N = Len(r)
  BY <1>1 DEF RemPrepended
<1> HIDE DEF x, m, N
<1>7. r2 \in Seq(Component) /\ Len(r2) = N /\ r2[N] = x
  BY ONLY r \in Seq(Component), <1>1, <1>5, <1>6
<1>8. ASSUME NEW i \in 1 .. N - 1 PROVE r2[i] = r[i]
  <2>1. i \in 1 .. N /\ i # N
    BY ONLY <1>1, i \in 1 .. N - 1
  <2>2. QED
    BY ONLY <1>1, <1>6, <2>1
<1>9. \A i \in 1 .. N : i = N \/ i \in 1 .. N - 1
  BY <1>1
<1>10. \A i \in 1 .. N : r2[i].index = r[i].index /\ r2[i].condition = r[i].condition
  BY <1>5, <1>7, <1>8, <1>9
<1>11. QED
  BY <1>4, <1>5, <1>7, <1>8, <1>10 DEF SameButRem, N

(* The loop over the stacked states stops at the root of the last          *)
(* component.                                                              *)
LEMMA KeptFacts ==
  ASSUME NEW hh \in [State -> Int], NEW r, NEW t, Roots(hh, r), SearchPath(hh, r, t), r # << >>
  PROVE  LET k == Kept(t, Last(r)) IN k \in 1 .. Len(t) /\ t[k].n = r[Len(r)].index
<1> DEFINE x == r[Len(r)].index
           I == {i \in 1 .. Len(t) : t[i].n <= x}
           k == Kept(t, Last(r))
<1>1. /\ Len(t) \in Nat /\ \A i \in 1 .. Len(t) : t[i].n \in Nat
      /\ \A i, j \in 1 .. Len(t) : i <= j => t[i].n <= t[j].n
  BY PathFacts
<1>2. Len(r) \in 1 .. Len(r)
  BY DEF Roots
<1>3. PICK j \in 1 .. Len(t) : t[j].n = x
  BY <1>2 DEF SearchPath
<1>4. j \in I /\ I \in SUBSET (1 .. Len(t))
  BY <1>1, <1>3
<1>5. k = Max(I)
  BY <1>4 DEF Kept, SelectLastInSeq, Last
<1>6. k \in I /\ j <= k
  BY <1>1, <1>4, <1>5, LastIndex
<1>7. QED
  BY <1>1, <1>3, <1>6

(* The queues of the states of t above k, in both orders.                  *)
LEMMA QueuesAbove ==
  ASSUME NEW t \in Seq(Todo), NEW k \in 1 .. Len(t),
         \A i \in 1 .. Len(t) : IsInjective(t[i].q),
         \A i, j \in 1 .. Len(t) : i # j => ToSet(t[i].q) \cap ToSet(t[j].q) = {},
         NEW p, \/ p = FlattenSeq([i \in 1 .. Len(t) - k |-> t[k + i].q])
                \/ p = FlattenSeq([i \in 1 .. Len(t) - k |-> t[Len(t) + 1 - i].q])
  PROVE  /\ p \in Seq(Edge) /\ IsInjective(p)
         /\ ToSet(p) = UNION {ToSet(t[i].q) : i \in k + 1 .. Len(t)}
         /\ ToSet(p) \cap ToSet(t[k].q) = {}
<1> DEFINE N == Len(t)
<1>1. N \in Nat /\ k \in 1 .. N /\ N - k \in Nat
  OBVIOUS
<1>2. \A i \in 1 .. N : t[i].q \in Seq(Edge)
  <2> SUFFICES ASSUME NEW i \in 1 .. N PROVE t[i].q \in Seq(Edge)
    OBVIOUS
  <2>1. t[i] \in Todo
    OBVIOUS
  <2>2. QED
    BY <2>1 DEF Todo
<1>3. /\ \A i \in 1 .. N : IsInjective(t[i].q)
      /\ \A i, j \in 1 .. N : i # j => ToSet(t[i].q) \cap ToSet(t[j].q) = {}
  OBVIOUS
<1> HIDE DEF N
<1>4. PICK ss : /\ p = FlattenSeq(ss)
                /\ \/ ss = [i \in 1 .. N - k |-> t[k + i].q]
                   \/ ss = [i \in 1 .. N - k |-> t[N + 1 - i].q]
  BY DEF N
<1>5. /\ \A i \in 1 .. N - k : k + i \in k + 1 .. N /\ N + 1 - i \in k + 1 .. N
      /\ \A i \in k + 1 .. N : /\ i - k \in 1 .. N - k /\ k + (i - k) = i
                               /\ N + 1 - i \in 1 .. N - k /\ N + 1 - (N + 1 - i) = i
      /\ \A i \in k + 1 .. N : i \in 1 .. N /\ i # k
      /\ \A i, j \in 1 .. N - k : i # j => k + i # k + j /\ N + 1 - i # N + 1 - j
  BY <1>1
<1>6. PICK f : /\ \A i \in 1 .. N - k : f[i] \in k + 1 .. N
               /\ \A i \in k + 1 .. N : \E j \in 1 .. N - k : f[j] = i
               /\ \A i, j \in 1 .. N - k : i # j => f[i] # f[j]
               /\ ss = [i \in 1 .. N - k |-> t[f[i]].q]
  <2>1. CASE ss = [i \in 1 .. N - k |-> t[k + i].q]
    <3> DEFINE f == [i \in 1 .. N - k |-> k + i]
    <3>1. \A i \in 1 .. N - k : f[i] = k + i
      OBVIOUS
    <3>2. ss = [i \in 1 .. N - k |-> t[f[i]].q]
      BY <2>1, <3>1
    <3> HIDE DEF f
    <3>3. ASSUME NEW i \in k + 1 .. N PROVE \E j \in 1 .. N - k : f[j] = i
      <4>1. i - k \in 1 .. N - k /\ f[i - k] = i
        BY ONLY <1>5, <3>1, i \in k + 1 .. N
      <4>2. QED
        BY ONLY <4>1
    <3>4. ASSUME NEW i \in 1 .. N - k PROVE f[i] \in k + 1 .. N
      <4>1. f[i] = k + i
        BY ONLY <3>1, i \in 1 .. N - k
      <4>2. k + i \in k + 1 .. N
        BY ONLY <1>1, i \in 1 .. N - k
      <4>3. QED
        BY ONLY <4>1, <4>2
    <3>5. ASSUME NEW i \in 1 .. N - k, NEW j \in 1 .. N - k, i # j PROVE f[i] # f[j]
      BY ONLY <1>1, <3>1, <3>5, i \in 1 .. N - k, j \in 1 .. N - k
    <3>6. QED
      BY ONLY <3>2, <3>3, <3>4, <3>5
  <2>2. CASE ss = [i \in 1 .. N - k |-> t[N + 1 - i].q]
    <3> DEFINE f == [i \in 1 .. N - k |-> N + 1 - i]
    <3>1. \A i \in 1 .. N - k : f[i] = N + 1 - i
      OBVIOUS
    <3>2. ss = [i \in 1 .. N - k |-> t[f[i]].q]
      BY <2>2, <3>1
    <3> HIDE DEF f
    <3>3. ASSUME NEW i \in k + 1 .. N PROVE \E j \in 1 .. N - k : f[j] = i
      <4>1. N + 1 - i \in 1 .. N - k /\ f[N + 1 - i] = i
        BY ONLY <1>5, <3>1, i \in k + 1 .. N
      <4>2. QED
        BY ONLY <4>1
    <3>4. ASSUME NEW i \in 1 .. N - k PROVE f[i] \in k + 1 .. N
      <4>1. f[i] = N + 1 - i
        BY ONLY <3>1, i \in 1 .. N - k
      <4>2. N + 1 - i \in k + 1 .. N
        BY ONLY <1>1, i \in 1 .. N - k
      <4>3. QED
        BY ONLY <4>1, <4>2
    <3>5. ASSUME NEW i \in 1 .. N - k, NEW j \in 1 .. N - k, i # j PROVE f[i] # f[j]
      BY ONLY <1>1, <3>1, <3>5, i \in 1 .. N - k, j \in 1 .. N - k
    <3>6. QED
      BY ONLY <3>2, <3>3, <3>4, <3>5
  <2>3. QED
    BY <1>4, <2>1, <2>2
<1>7. ss \in Seq(Seq(Edge)) /\ Len(ss) = N - k /\ \A i \in 1 .. N - k : ss[i] = t[f[i]].q
  BY <1>1, <1>2, <1>5, <1>6
<1>8. /\ \A i \in 1 .. Len(ss) : IsInjective(ss[i])
      /\ \A i, j \in 1 .. Len(ss) : i # j => ToSet(ss[i]) \cap ToSet(ss[j]) = {}
  <2>1. ASSUME NEW i \in 1 .. N - k PROVE f[i] \in 1 .. N /\ ss[i] = t[f[i]].q
    BY ONLY <1>5, <1>6, <1>7, i \in 1 .. N - k
  <2>2. \A i, j \in 1 .. N - k : i # j => f[i] # f[j]
    BY ONLY <1>6
  <2>3. \A i \in 1 .. N - k : IsInjective(ss[i])
    BY ONLY <1>3, <2>1
  <2>4. \A i, j \in 1 .. N - k : i # j => ToSet(ss[i]) \cap ToSet(ss[j]) = {}
    BY ONLY <1>3, <2>1, <2>2
  <2>5. QED
    BY ONLY <1>7, <2>3, <2>4
<1>9. /\ p \in Seq(Edge) /\ ToSet(p) = UNION {ToSet(ss[i]) : i \in 1 .. Len(ss)}
      /\ IsInjective(p)
  BY <1>4, <1>7, <1>8, FlatQueues
<1>10. \A z : z \in ToSet(p) <=> \E i \in k + 1 .. N : z \in ToSet(t[i].q)
  <2>1. \A z : z \in ToSet(p) <=> \E i \in 1 .. N - k : z \in ToSet(t[f[i]].q)
    <3>1. \A z : z \in ToSet(p) <=> \E i \in 1 .. N - k : z \in ToSet(ss[i])
      BY ONLY <1>7, <1>9
    <3>2. QED
      BY ONLY <1>7, <3>1
  <2>2. QED
    BY ONLY <1>6, <2>1
<1>11. ToSet(p) = UNION {ToSet(t[i].q) : i \in k + 1 .. N}
  BY ONLY <1>10
<1>12. ToSet(p) \cap ToSet(t[k].q) = {}
  BY ONLY <1>1, <1>3, <1>5, <1>10
<1>13. QED
  BY <1>9, <1>11, <1>12 DEF N

(* The queues above k are moved to the one of k.                           *)
LEMMA GroupedFacts ==
  ASSUME NEW A, NEW hh, NEW r, NEW t \in Seq(Todo), Queues(A, hh, r, t), NEW k \in 1 .. Len(t)
  PROVE  GroupedInto(t, k, Grouped(t, k))
<1> DEFINE N == Len(t)
           up == FlattenSeq([i \in 1 .. N - k |-> t[k + i].q])
           down == FlattenSeq([i \in 1 .. N - k |-> t[N + 1 - i].q])
           q2 == IF o.group2 THEN down \o t[k].q ELSE t[k].q \o up
           x == [t[k] EXCEPT !.q = q2]
           t1 == SubSeq(t, 1, k)
           t2 == Grouped(t, k)
<1>1. N \in Nat /\ k \in 1 .. N /\ N = Len(t)
  OBVIOUS
<1>2. t[k] \in Todo
  OBVIOUS
<1>3. t[k].q \in Seq(Edge) /\ t[k] = [s |-> t[k].s, n |-> t[k].n, q |-> t[k].q]
      /\ t[k].s \in State /\ t[k].n \in Nat
  BY <1>2 DEF Todo
<1>4. /\ \A i \in 1 .. N : IsInjective(t[i].q)
      /\ \A i, j \in 1 .. N : i # j => ToSet(t[i].q) \cap ToSet(t[j].q) = {}
  BY DEF Queues
<1>5. /\ up \in Seq(Edge) /\ IsInjective(up) /\ ToSet(up) = UNION {ToSet(t[i].q) : i \in k + 1 .. N}
      /\ ToSet(up) \cap ToSet(t[k].q) = {}
  BY <1>4, QueuesAbove
<1>6. /\ down \in Seq(Edge) /\ IsInjective(down) /\ ToSet(down) = UNION {ToSet(t[i].q) : i \in k + 1 .. N}
      /\ ToSet(down) \cap ToSet(t[k].q) = {}
  BY <1>4, QueuesAbove
<1>7. t1 \in Seq(Todo) /\ Len(t1) = k /\ \A i \in 1 .. k : t1[i] = t[i]
  BY <1>1
<1>8. t2 = [t1 EXCEPT ![k].q = IF o.group2 THEN down \o @ ELSE @ \o up]
  BY DEF Grouped
<1> HIDE DEF up, down, t1, t2, N
<1>9. /\ q2 \in Seq(Edge) /\ IsInjective(q2)
      /\ ToSet(q2) = ToSet(t[k].q) \cup (UNION {ToSet(t[i].q) : i \in k + 1 .. N})
  <2>1. IsInjective(t[k].q)
    BY <1>1, <1>4
  <2>2. CASE o.group2
    <3>1. /\ down \o t[k].q \in Seq(Edge) /\ ToSet(down \o t[k].q) = ToSet(down) \cup ToSet(t[k].q)
          /\ IsInjective(down \o t[k].q)
      BY <1>3, <1>6, <2>1, JoinQueues
    <3>2. q2 = down \o t[k].q
      BY <2>2
    <3>3. QED
      BY <1>6, <3>1, <3>2
  <2>3. CASE ~o.group2
    <3>0. ToSet(t[k].q) \cap ToSet(up) = {}
      BY <1>5
    <3>1. /\ t[k].q \o up \in Seq(Edge) /\ ToSet(t[k].q \o up) = ToSet(t[k].q) \cup ToSet(up)
          /\ IsInjective(t[k].q \o up)
      BY <1>3, <1>5, <2>1, <3>0, JoinQueues
    <3>2. q2 = t[k].q \o up
      BY <2>3
    <3>3. QED
      BY <1>5, <3>1, <3>2
  <2>4. QED
    BY <2>2, <2>3
<1>10. k \in 1 .. k /\ t1[k] = t[k] /\ DOMAIN t1 = 1 .. k
  BY <1>1, <1>7
<1>11. t2 = [t1 EXCEPT ![k] = x]
  BY <1>8, <1>10
<1> HIDE DEF q2
<1>12. x \in Todo /\ x.s = t[k].s /\ x.n = t[k].n /\ x.q = q2
  BY <1>3, <1>9 DEF Todo
<1> HIDE DEF x
<1>13. t2 \in Seq(Todo) /\ Len(t2) = k /\ t2[k] = x
  BY ONLY <1>7, <1>10, <1>11, <1>12
<1>14. \A i \in 1 .. k - 1 : t2[i] = t[i]
  BY ONLY <1>1, <1>7, <1>10, <1>11
<1>15. ToSet(q2) = UNION {ToSet(t[i].q) : i \in k .. N}
  <2>1. \A i : i \in k .. N <=> i = k \/ i \in k + 1 .. N
    BY <1>1
  <2>2. \A z : z \in ToSet(q2) <=> \E i \in k .. N : z \in ToSet(t[i].q)
    BY ONLY <1>9, <2>1
  <2>3. QED
    BY ONLY <2>2
<1>16. QED
  BY <1>9, <1>12, <1>13, <1>14, <1>15 DEF GroupedInto, N, t2

(* The search goes on after a merge, the states above the root of the      *)
(* component being grouped or not.                                         *)
LEMMA StepMerged ==
  ASSUME SearchInv, NEW e, NEW t, NEW r2, MergeStep(e, t, r2, arc'), ~accepting(Last(r2).condition),
         root' = r2 /\ todo' = t, UNCHANGED <<edges, o, h, num>>
  PROVE  SearchInv' /\ todo' # << >>
<1>1. Queued(t) \subseteq Queued(todo) /\ Sccs(edges, h, r2, Queued(t))
  BY DEF MergeStep, Last
<1>2. QED
  BY <1>1 DEF SearchInv, MergeStep

(* The search goes on after a merge and the grouping of the states above   *)
(* the root of the component (group of couvreur99_check_shy): their queues *)
(* become one.                                                             *)
LEMMA StepGroup ==
  ASSUME edges \in SUBSET Edge, SearchInv, NEW e, NEW t, NEW r2, MergeStep(e, t, r2, arc'),
         ~accepting(Last(r2).condition), Group(t, r2), UNCHANGED <<edges, o, h, num>>
  PROVE  SearchInv' /\ todo' # << >>
<1> DEFINE k == Kept(t, Last(r2))
           N == Len(r2)
           states == [i \in 1 .. Len(t) - k |-> t[k + i].s]
<1>1. /\ r2 # << >> /\ Roots(h, r2) /\ SearchPath(h, r2, t) /\ Queues(edges, h, r2, t)
      /\ arc' \in Seq(SUBSET Mark) /\ Len(arc') = Len(r2) - (IF o.shy THEN 1 ELSE 0)
      /\ Queued(t) = Queued(todo) \ {e} /\ Steps(edges, h, r2, arc', Queued(t))
      /\ Sccs(edges, h, r2, Queued(t)) /\ (o.poprem => Remembered(h, r2, t))
  BY DEF MergeStep, Last
<1>2. h \in [State -> Int] /\ (o.shy => Queued(todo) \subseteq Live(edges))
  BY DEF SearchInv, Orders
<1>3. t \in Seq(Todo) /\ r2 \in Seq(Component) /\ N \in Nat \ {0}
  BY <1>1 DEF SearchPath, Roots
<1>4. k \in 1 .. Len(t) /\ t[k].n = r2[N].index
  BY <1>1, <1>2, KeptFacts
<1>5. todo' = Grouped(t, k)
  BY DEF Group
<1>6. root' = IF o.poprem THEN [r2 EXCEPT ![N].rem = states \o @] ELSE r2
  BY DEF Group
<1> HIDE DEF k, N
<1>7. GroupedInto(t, k, todo')
  BY <1>1, <1>3, <1>4, <1>5, GroupedFacts
<1>8. SearchPath(h, r2, todo') /\ Queues(edges, h, r2, todo') /\ Queued(todo') = Queued(t)
  BY <1>1, <1>2, <1>4, <1>7, GroupPath DEF N
<1>9. /\ states \in Seq(State) /\ ToSet(states) = {t[l].s : l \in k + 1 .. Len(t)}
  <2>1. Len(t) \in Nat /\ k \in 1 .. Len(t) /\ Len(t) - k \in Nat
    BY <1>3, <1>4
  <2>2. \A i \in 1 .. Len(t) - k : k + i \in k + 1 .. Len(t) /\ k + i \in 1 .. Len(t)
    BY <2>1
  <2>3. \A i \in 1 .. Len(t) : t[i].s \in State
    BY <1>1, <1>2, PathFacts
  <2>4. states \in Seq(State) /\ Len(states) = Len(t) - k /\ DOMAIN states = 1 .. Len(t) - k
    BY <2>1, <2>2, <2>3
  <2>5. \A i \in k + 1 .. Len(t) : i - k \in 1 .. Len(t) - k /\ k + (i - k) = i
    BY <2>1
  <2>6. \A i \in 1 .. Len(t) - k : states[i] = t[k + i].s
    OBVIOUS
  <2> HIDE DEF states
  <2>7. ASSUME NEW z PROVE z \in ToSet(states) <=> \E l \in k + 1 .. Len(t) : z = t[l].s
    <3>1. z \in ToSet(states) <=> \E i \in 1 .. Len(t) - k : z = states[i]
      BY <2>4 DEF ToSet
    <3>2. ASSUME NEW i \in 1 .. Len(t) - k, z = states[i] PROVE \E l \in k + 1 .. Len(t) : z = t[l].s
      BY ONLY <2>2, <2>6, <3>2, i \in 1 .. Len(t) - k
    <3>3. ASSUME NEW l \in k + 1 .. Len(t), z = t[l].s PROVE \E i \in 1 .. Len(t) - k : z = states[i]
      <4>1. l - k \in 1 .. Len(t) - k /\ z = states[l - k]
        BY ONLY <2>5, <2>6, <3>3, l \in k + 1 .. Len(t)
      <4>2. QED
        BY ONLY <4>1
    <3>4. QED
      BY <3>1, <3>2, <3>3
  <2>8. QED
    BY <2>4, <2>7
<1> HIDE DEF states
<1>10. ASSUME o.poprem
       PROVE  /\ SameButRem(r2, root') /\ \A i \in 1 .. N - 1 : root'[i] = r2[i]
              /\ ToSet(root'[N].rem) = ToSet(states) \cup ToSet(r2[N].rem)
  <2>1. RemPrepended(r2, states, root')
    BY <1>6, <1>10 DEF N, RemPrepended
  <2>2. r2 \in Seq(Component) /\ r2 # << >> /\ states \in Seq(State)
    BY <1>1, <1>3, <1>9
  <2>3. /\ SameButRem(r2, root') /\ \A i \in 1 .. Len(r2) - 1 : root'[i] = r2[i]
        /\ ToSet(root'[Len(r2)].rem) = ToSet(states) \cup ToSet(r2[Len(r2)].rem)
    BY ONLY <2>1, <2>2, RemAdded
  <2>4. QED
    BY <2>3 DEF N
<1>11. SameButRem(r2, root')
  <2>1. CASE o.poprem
    BY <1>10, <2>1
  <2>2. CASE ~o.poprem
    BY <1>3, <1>6, <2>2 DEF SameButRem
  <2>3. QED
    BY <2>1, <2>2
<1>12. /\ Roots(h, root') /\ Steps(edges, h, root', arc', Queued(todo'))
       /\ Sccs(edges, h, root', Queued(todo'))
       /\ SearchPath(h, root', todo') /\ Queues(edges, h, root', todo')
  <2>1. Steps(edges, h, r2, arc', Queued(todo')) /\ Sccs(edges, h, r2, Queued(todo'))
    BY <1>1, <1>8
  <2>2. QED
    BY <1>1, <1>8, <1>11, <2>1, RemAside
<1>13. ASSUME o.poprem PROVE Remembered(h, root', todo')
  <2>1. Remembers(t, k, r2, root')
    BY <1>9, <1>10, <1>11, <1>13 DEF Remembers, SameButRem, N
  <2>2. Len(todo') = k /\ \A l \in 1 .. k : todo'[l].s = t[l].s
    <3>1. \A l \in 1 .. k : l = k \/ l \in 1 .. k - 1
      BY <1>3, <1>4
    <3>2. QED
      BY <1>7, <3>1 DEF GroupedInto
  <2>3. r2[Len(r2)].index <= t[k].n
    <3>1. r2[N].index \in Nat
      BY <1>1, <1>3, RootFacts DEF N
    <3>2. QED
      BY <1>4, <3>1 DEF N
  <2>4. QED
    BY <1>1, <1>2, <1>4, <1>13, <2>1, <2>2, <2>3, GroupRemembered
<1>14. Len(root') = N /\ todo' # << >>
  <2>1. Len(todo') = k /\ k # 0
    BY <1>3, <1>4, <1>7 DEF GroupedInto
  <2>2. QED
    BY <1>11, <2>1 DEF SameButRem, N
<1>15. QED
  BY <1>1, <1>2, <1>8, <1>12, <1>13, <1>14 DEF SearchInv, N

(* The last state of todo has no edge left: it is popped, and when it is   *)
(* the root of its component, the component is declared dead.              *)
Leaving ==
  /\ edges \in SUBSET Edge /\ SearchInv /\ ~uses_fin_acceptance
  /\ todo # << >> /\ Last(todo).q = << >> /\ (o.shy => Len(todo) > 1)
  /\ todo' = Front(todo) /\ UNCHANGED <<edges, o, num>>

(* Front() removes the last element, and nothing else.                     *)
LEMMA PoppedFront ==
  ASSUME NEW T, NEW s \in Seq(T), Len(s) > 0, NEW f, f = Front(s)
  PROVE  f \in Seq(T) /\ Popped(s, f) /\ Len(f) = Len(s) - 1
<1>1. Len(s) \in Nat \ {0} /\ Len(s) - 1 \in Nat /\ Len(s) - 1 <= Len(s)
  OBVIOUS
<1>2. f = SubSeq(s, 1, Len(s) - 1)
  BY DEF Front
<1>3. f = [i \in 1 .. Len(s) - 1 |-> s[i]]
  BY <1>1, <1>2
<1>4. \A i \in 1 .. Len(s) - 1 : s[i] \in T
  BY <1>1
<1>5. f \in Seq(T) /\ Len(f) = Len(s) - 1
  BY ONLY <1>1, <1>3, <1>4
<1>6. QED
  BY <1>3, <1>5 DEF Popped

(* What the invariant says when a state is about to leave todo.            *)
LEMMA LeavingFacts ==
  ASSUME Leaving
  PROVE  /\ edges \in SUBSET Edge /\ ~uses_fin_acceptance
         /\ h \in [State -> Int] /\ num \in Nat
         /\ Orders(h, num) /\ Roots(h, root) /\ SearchPath(h, root, todo)
         /\ Queues(edges, h, root, todo)
         /\ Steps(edges, h, root, arc, Queued(todo)) /\ Sccs(edges, h, root, Queued(todo))
         /\ arc \in Seq(SUBSET Mark) /\ Len(arc) = Len(root) - (IF o.shy THEN 1 ELSE 0)
         /\ Len(arc) >= Len(root) - 1 /\ Len(arc) \in Nat
         /\ root \in Seq(Component) /\ root # << >> /\ Len(root) \in Nat \ {0}
         /\ todo \in Seq(Todo) /\ todo # << >> /\ todo[Len(todo)].q = << >>
         /\ Len(todo) \in Nat \ {0}
         /\ todo' \in Seq(Todo) /\ Popped(todo, todo')
         /\ NoRun(edges, DeadSet(h))
         /\ Last(todo).s \in State /\ Last(todo).n = h[Last(todo).s]
         /\ Last(todo).n = todo[Len(todo)].n /\ Last(todo).n \in Nat /\ top = root[Len(root)]
<1>1. /\ edges \in SUBSET Edge /\ ~uses_fin_acceptance
      /\ h \in [State -> Int] /\ num \in Nat
      /\ Orders(h, num) /\ Roots(h, root) /\ SearchPath(h, root, todo)
      /\ Queues(edges, h, root, todo)
      /\ Steps(edges, h, root, arc, Queued(todo)) /\ Sccs(edges, h, root, Queued(todo))
      /\ arc \in Seq(SUBSET Mark) /\ Len(arc) = Len(root) - (IF o.shy THEN 1 ELSE 0)
      /\ todo # << >> /\ Last(todo).q = << >> /\ todo' = Front(todo)
      /\ NoRun(edges, DeadSet(h))
  BY DEF Leaving, SearchInv, Orders
<1>2. root \in Seq(Component) /\ todo \in Seq(Todo) /\ Len(todo) \in Nat \ {0}
  BY <1>1 DEF Roots, SearchPath
<1>3. root # << >> /\ Len(todo) \in 1 .. Len(todo)
  BY <1>1, PathFacts
<1>4. Last(todo) = todo[Len(todo)] /\ top = root[Len(root)]
  BY DEF Last, top
<1>5. Last(todo).s \in State /\ Last(todo).n = h[Last(todo).s] /\ Last(todo).n \in Nat
  BY <1>1, <1>3, <1>4, PathFacts
<1>6. todo' \in Seq(Todo) /\ Popped(todo, todo')
  <2>1. Len(todo) > 0
    BY <1>2
  <2>2. QED
    BY <1>1, <1>2, <2>1, PoppedFront
<1>7. Len(root) \in Nat \ {0} /\ Len(arc) >= Len(root) - 1 /\ Len(arc) \in Nat
  BY <1>1, <1>2, <1>3
<1>8. QED
  BY <1>1, <1>2, <1>3, <1>4, <1>5, <1>6, <1>7

(* root once the state was popped: its component remembers it.             *)
LEMMA RememberingFacts ==
  ASSUME root \in Seq(Component), root # << >>, NEW curr \in State,
         NEW r2, r2 = Remembering(curr)
  PROVE  /\ SameButRem(root, r2) /\ \A i \in 1 .. Len(root) - 1 : r2[i] = root[i]
         /\ o.poprem => ToSet(r2[Len(root)].rem) = {curr} \cup ToSet(root[Len(root)].rem)
<1>1. CASE o.poprem
  <2>1. RemPrepended(root, <<curr>>, r2)
    BY <1>1 DEF Remembering, RemPrepended
  <2>2. <<curr>> \in Seq(State) /\ ToSet(<<curr>>) = {curr}
    BY DEF ToSet
  <2>3. /\ SameButRem(root, r2) /\ \A i \in 1 .. Len(root) - 1 : r2[i] = root[i]
        /\ ToSet(r2[Len(root)].rem) = ToSet(<<curr>>) \cup ToSet(root[Len(root)].rem)
    BY ONLY root \in Seq(Component), root # << >>, <2>1, <2>2, RemAdded
  <2>4. QED
    BY <2>2, <2>3
<1>2. CASE ~o.poprem
  <2>1. r2 = root
    BY <1>2 DEF Remembering
  <2>2. QED
    BY <1>2, <2>1 DEF SameButRem
<1>3. QED
  BY <1>1, <1>2

(* The search goes on when the state that leaves is not the root of its    *)
(* component.                                                              *)
LEMMA StepPop ==
  ASSUME Leaving, Leave(Last(todo).s, Last(todo).n), top.index # Last(todo).n
  PROVE  SearchInv' /\ todo' # << >>
<1> DEFINE curr == Last(todo).s
           N == Len(todo)
<1>1. root' = Remembering(curr) /\ UNCHANGED <<h, arc, edges, o, num>>
  BY DEF Leave, Leaving
<1>2. /\ h \in [State -> Int] /\ Orders(h, num) /\ Roots(h, root) /\ SearchPath(h, root, todo)
      /\ Queues(edges, h, root, todo)
      /\ Steps(edges, h, root, arc, Queued(todo)) /\ Sccs(edges, h, root, Queued(todo))
      /\ root \in Seq(Component) /\ root # << >> /\ curr \in State
      /\ todo \in Seq(Todo) /\ N \in Nat \ {0} /\ todo # << >> /\ todo[N].q = << >>
      /\ todo' \in Seq(Todo) /\ Popped(todo, todo')
  BY LeavingFacts
<1>3. todo[N].n # root[Len(root)].index
  BY LeavingFacts
<1> HIDE DEF N, curr
<1>4. StatePopped(edges, h, root, todo, todo')
  BY <1>2, <1>3, PopState DEF N
<1>5. /\ SearchPath(h, root, todo') /\ Queues(edges, h, root, todo') /\ Queued(todo') = Queued(todo)
      /\ N - 1 \in 1 .. N /\ root[Len(root)].index <= todo[N - 1].n
  BY <1>4 DEF StatePopped, N
<1>6. /\ SameButRem(root, root') /\ \A i \in 1 .. Len(root) - 1 : root'[i] = root[i]
      /\ o.poprem => ToSet(root'[Len(root)].rem) = {curr} \cup ToSet(root[Len(root)].rem)
  BY <1>1, <1>2, RememberingFacts
<1>7. /\ Roots(h, root') /\ Steps(edges, h, root', arc, Queued(todo))
      /\ Sccs(edges, h, root', Queued(todo))
      /\ SearchPath(h, root', todo') /\ Queues(edges, h, root', todo')
  BY <1>2, <1>5, <1>6, RemAside
<1>8. Len(todo') = N - 1 /\ \A l \in 1 .. N - 1 : todo'[l] = todo[l]
  BY <1>2 DEF Popped, N
<1>9. ASSUME o.poprem PROVE Remembered(h, root', todo')
  <2>1. Remembered(h, root, todo)
    BY <1>9 DEF Leaving, SearchInv
  <2>2. {todo[l].s : l \in (N - 1) + 1 .. Len(todo)} = {curr}
    <3>1. \A l : l \in (N - 1) + 1 .. Len(todo) <=> l = N
      BY <1>2 DEF N
    <3>2. todo[N].s = curr
      BY DEF curr, Last, N
    <3>3. QED
      BY ONLY <3>1, <3>2
  <2>3. Remembers(todo, N - 1, root, root')
    BY <1>6, <1>9, <2>2 DEF Remembers, SameButRem
  <2>4. \A l \in 1 .. N - 1 : todo'[l].s = todo[l].s
    BY <1>8
  <2>5. QED
    BY <1>2, <1>5, <1>8, <2>1, <2>3, <2>4, GroupRemembered DEF N
<1>10. todo' # << >> /\ Len(root') = Len(root)
  BY <1>2, <1>5, <1>6, <1>8 DEF SameButRem
<1>11. QED
  BY <1>1, <1>5, <1>7, <1>9, <1>10 DEF SearchInv, Leaving

(* The search goes on when the state that leaves is the root of its        *)
(* component, and remove_component() has declared the component dead.      *)
LEMMA StepRemove ==
  ASSUME Leaving, Leave(Last(todo).s, Last(todo).n), top.index = Last(todo).n
  PROVE  SearchInv' /\ (o.shy => todo' # << >>)
<1> DEFINE curr == Last(todo).s
           N == Len(todo)
           M == Len(root)
           P == Queued(todo)
           S == Scc(h, root, M)
           r == Remembering(curr)
<1>1. /\ arc' = Front(arc) /\ root' = Front(r) /\ UNCHANGED <<edges, o, num>>
      /\ h' = [s \in State |-> IF s \in Removed(curr, Last(r).rem) THEN -1 ELSE h[s]]
  BY DEF Leave, Leaving, remove_component
<1>2. /\ edges \in SUBSET Edge /\ ~uses_fin_acceptance
      /\ h \in [State -> Int] /\ Orders(h, num) /\ Roots(h, root) /\ SearchPath(h, root, todo)
      /\ Queues(edges, h, root, todo)
      /\ Steps(edges, h, root, arc, P) /\ Sccs(edges, h, root, P)
      /\ root \in Seq(Component) /\ root # << >> /\ curr \in State /\ M \in Nat \ {0}
      /\ todo \in Seq(Todo) /\ N \in Nat \ {0} /\ todo # << >> /\ todo[N].q = << >>
      /\ todo' \in Seq(Todo) /\ Popped(todo, todo')
      /\ arc \in Seq(SUBSET Mark) /\ Len(arc) = M - (IF o.shy THEN 1 ELSE 0)
      /\ Len(arc) >= M - 1 /\ Len(arc) \in Nat
      /\ NoRun(edges, DeadSet(h)) /\ todo[N].n = root[M].index /\ todo[N].s = curr
  BY LeavingFacts DEF Last
<1> HIDE DEF N, curr, M, P, S, r
<1>3. /\ curr \in S /\ \A f \in P : f.src \notin S
      /\ Remembered(h, root, todo) => {curr} \cup ToSet(root[M].rem) = S
  <2>1. LastLeft(h, root, todo)
    BY <1>2, RootIsLast DEF N, M
  <2>2. QED
    BY <1>2, <2>1 DEF LastLeft, N, M, P, S
<1>4. LastClosed(edges, h, root, P) /\ NoRun(edges, DeadSet(h) \cup S)
  BY <1>2, <1>3, LastSccHasNoRun DEF M, S
<1>5. /\ SameButRem(root, r) /\ \A i \in 1 .. M - 1 : r[i] = root[i]
      /\ o.poprem => ToSet(r[M].rem) = {curr} \cup ToSet(root[M].rem)
  BY <1>2, RememberingFacts DEF M, r
<1>6. Last(r) = r[M] /\ Len(r) = M /\ r \in Seq(Component)
  BY <1>5 DEF SameButRem, Last, M
<1>7. Removed(curr, Last(r).rem) = S
  <2>1. CASE o.poprem
    <3>1. Remembered(h, root, todo)
      BY <2>1 DEF Leaving, SearchInv
    <3>2. QED
      BY <1>3, <1>5, <1>6, <2>1, <3>1 DEF Removed
  <2>2. CASE ~o.poprem
    <3>1. Reach({f \in Live(edges) : h[f.dst] # -1}, curr) = S
      BY <1>2, <1>3, <1>4, SearchInLastScc DEF S, M
    <3>2. QED
      BY <2>2, <3>1 DEF Removed
  <2>3. QED
    BY <2>1, <2>2
<1>8. Killed(h, S, h')
  BY <1>1, <1>2, <1>7 DEF Killed
<1>9. root' \in Seq(Component) /\ Popped(root, root')
  <2>1. M - 1 \in Nat /\ M - 1 <= Len(r)
    BY <1>2, <1>6
  <2>2. root' = SubSeq(r, 1, M - 1)
    BY <1>1, <1>6 DEF Front
  <2>3. root' \in Seq(Component) /\ Len(root') = M - 1 /\ \A i \in 1 .. M - 1 : root'[i] = r[i]
    BY <1>6, <2>1, <2>2
  <2>4. QED
    BY <1>5, <2>3 DEF Popped, M
<1>10. o.shy => M > 1 /\ N > 1
  <2> SUFFICES ASSUME o.shy PROVE M > 1 /\ N > 1
    OBVIOUS
  <2>1. N > 1
    BY DEF Leaving, N
  <2>2. 1 \in 1 .. N /\ N \in 1 .. N /\ 1 < N
    BY <1>2, <2>1
  <2>3. todo[1].n < todo[N].n /\ todo[1].n > 0 /\ todo[1].n = h[todo[1].s] /\ todo[1].s \in State
        /\ todo[1].n \in Nat /\ todo[N].n \in Nat
    <3>1. todo[1].s \in State /\ todo[1].n \in Nat /\ todo[N].n \in Nat
      BY <1>2, <2>2, PathFacts DEF N
    <3>2. QED
      BY <1>2, <2>2, <3>1 DEF SearchPath, N
  <2>4. root[1].index <= todo[1].n
    BY <1>2, <2>3 DEF Roots
  <2>5. root[1].index \in Nat
    <3>1. 1 \in 1 .. Len(root)
      BY <1>2 DEF M
    <3>2. QED
      BY <1>2, <3>1, RootFacts
  <2>6. M # 1
    BY <1>2, <2>3, <2>4, <2>5
  <2>7. QED
    BY <1>2, <2>1, <2>6
<1>11. arc' \in Seq(SUBSET Mark) /\ Popped(arc, arc') /\ Len(arc') = Len(arc) - 1
  <2>1. Len(arc) > 0
    BY <1>2, <1>10
  <2>2. QED
    BY <1>1, <1>2, <2>1, PoppedFront
<1>12. RemovedScc(edges, h, root, h', root', arc', P)
  BY <1>2, <1>8, <1>9, <1>11, RemoveScc DEF S, M
<1>13. /\ Roots(h', root') /\ Steps(edges, h', root', arc', P) /\ Sccs(edges, h', root', P)
       /\ \A i \in 1 .. M - 1 : Scc(h', root', i) = Scc(h, root, i)
       /\ DeadSet(h') = DeadSet(h) \cup S
  BY <1>12 DEF RemovedScc, M, S
<1>14. RootPopped(edges, num, h, root, todo, h', root', todo')
  BY <1>2, <1>8, <1>9, <1>13, PopRoot DEF N, M, S
<1>15. /\ Orders(h', num) /\ SearchPath(h', root', todo') /\ Queues(edges, h', root', todo')
       /\ Queued(todo') = P
       /\ o.poprem => Remembered(h', root', todo')
  BY <1>14 DEF RootPopped, Leaving, SearchInv, P
<1>16. Visited(edges, h')
  <2>1. \A s \in State : h'[s] # 0 <=> h[s] # 0
    <3>1. \A s \in S : s \in State /\ h[s] > 0
      <4>1. M \in 1 .. M
        BY <1>2
      <4>2. QED
        BY <1>2, <4>1, SccFacts DEF S, M
    <3>2. QED
      BY <1>8, <3>1 DEF Killed
  <2>2. Visited(edges, h) /\ s0 \in State
    BY TwaAssumption DEF Leaving, SearchInv
  <2>3. QED
    BY <2>1, <2>2 DEF Visited
<1>17. NoRun(edges, DeadSet(h'))
  BY <1>4, <1>13
<1>18. Len(arc') = Len(root') - (IF o.shy THEN 1 ELSE 0)
  BY <1>2, <1>9, <1>11 DEF Popped, M
<1>19. o.shy => todo' # << >>
  <2>1. Len(todo') = N - 1
    BY <1>2 DEF Popped, N
  <2>2. QED
    BY <1>2, <1>10, <2>1
<1>20. o.shy => P \subseteq Live(edges)
  BY DEF Leaving, SearchInv, P
<1>21. QED
  BY <1>1, <1>11, <1>13, <1>15, <1>16, <1>17, <1>18, <1>19, <1>20 DEF SearchInv

(* The queue of a newly stacked state.                                     *)
LEMMA NewQueueFacts ==
  ASSUME NEW A \in SUBSET Edge, IsFiniteSet(A), NEW s \in State, NEW B, B \subseteq A,
         NEW q \in SetToSeqs(succ_iter(B, s))
  PROVE  /\ q \in Seq(Edge) /\ IsInjective(q) /\ ToSet(q) = succ_iter(B, s)
         /\ ToSet(q) \subseteq succ_iter(A, s)
<1>1. succ_iter(B, s) \subseteq A /\ succ_iter(B, s) \subseteq succ_iter(A, s)
  BY DEF succ_iter
<1>2. IsFiniteSet(succ_iter(B, s))
  BY <1>1, FS_Subset
<1> DEFINE S == succ_iter(B, s)
<1>3. S \subseteq Edge
  BY <1>1
<1> HIDE DEF S
<1>4. q \in Seq(S) /\ ToSet(q) = S /\ IsInjective(q)
  BY <1>2, SeqOfSet DEF S
<1>5. q \in Seq(Edge)
  BY <1>3, <1>4
<1>6. QED
  BY <1>1, <1>4, <1>5 DEF S

(* check() starts: the initial state is stacked.                           *)
LEMMA StepFirst ==
  ASSUME edges \in SUBSET Edge, IsFiniteSet(edges), Check, ~is_f,
         h = [s \in State |-> 0], root = << >>, arc = << >>
  PROVE  SearchInv' /\ pc' = "loop"
<1>1. PICK q \in SetToSeqs(succ_iter(edges, s0)) : todo' = << [s |-> s0, n |-> 1, q |-> q] >>
  BY DEF Check
<1>2. /\ h' = [h EXCEPT ![s0] = 1] /\ root' = <<connected_component(1)>> /\ arc' = <<{}>> /\ num' = 1
      /\ ~o.shy /\ UNCHANGED <<edges, o>> /\ pc' = "loop"
  BY DEF Check
<1>3. s0 \in State
  BY TwaAssumption
<1>4. /\ q \in Seq(Edge) /\ IsInjective(q) /\ ToSet(q) = succ_iter(edges, s0)
      /\ ToSet(q) \subseteq succ_iter(edges, s0)
  BY <1>3, NewQueueFacts
<1>5. h' \in [State -> Int] /\ h'[s0] = 0 + 1 /\ \A s \in State : s # s0 => h'[s] = 0
  BY <1>2, <1>3
<1>6. root' \in Seq(Component) /\ Len(root') = 1 /\ root'[1] = connected_component(0 + 1)
  BY <1>2 DEF Component, connected_component
<1>7. /\ todo' \in Seq(Todo) /\ Len(todo') = 1 /\ todo'[1].s = s0 /\ todo'[1].n = 0 + 1
      /\ todo'[1].q = q
  <2>1. [s |-> s0, n |-> 1, q |-> q] \in Todo
    BY <1>3, <1>4 DEF Todo
  <2>2. QED
    BY <1>1, <2>1
<1>8. \A f \in Live(edges) : f.src = s0 => f \in ToSet(q)
  BY <1>4 DEF Live, succ_iter
<1>9. 0 \in Nat
  OBVIOUS
<1>10. FirstInv(edges, 0, h', root', arc', todo', q)
  BY <1>4, <1>5, <1>6, <1>7, <1>8, <1>9, FirstState
<1>11. arc' \in Seq(SUBSET Mark) /\ Len(arc') = 1
  BY <1>2
<1>12. Orders(h', num')
  <2>1. num' = 0 + 1
    BY <1>2
  <2>2. QED
    BY <1>10, <2>1 DEF FirstInv
<1>13. QED
  BY <1>2, <1>6, <1>10, <1>11, <1>12 DEF SearchInv, FirstInv

(* The constructor of the variant "shy" stacks the initial state.          *)
LEMMA ShyFirst ==
  ASSUME edges \in SUBSET Edge, IsFiniteSet(edges), couvreur99_check_shy
  PROVE  SearchInv
<1>1. PICK t \in todo_items(s0, 2) : todo = <<t>>
  BY DEF couvreur99_check_shy
<1>2. PICK q \in SetToSeqs(succ_iter(Live(edges), s0)) : t = [s |-> s0, n |-> 2, q |-> q]
  BY <1>1 DEF todo_items
<1>3. s0 \in State
  BY TwaAssumption
<1>4. /\ h = [s \in State |-> IF s = s0 THEN 2 ELSE 0] /\ root = <<connected_component(2)>>
      /\ arc = << >> /\ num = 2 /\ o.shy
  BY DEF couvreur99_check_shy
<1>5. Live(edges) \subseteq edges
  BY DEF Live
<1>6. /\ q \in Seq(Edge) /\ IsInjective(q) /\ ToSet(q) = succ_iter(Live(edges), s0)
      /\ ToSet(q) \subseteq succ_iter(edges, s0)
  BY <1>3, <1>5, NewQueueFacts
<1>7. h \in [State -> Int] /\ h[s0] = 1 + 1 /\ \A s \in State : s # s0 => h[s] = 0
  BY <1>3, <1>4
<1>8. root \in Seq(Component) /\ Len(root) = 1 /\ root[1] = connected_component(1 + 1)
  BY <1>4 DEF Component, connected_component
<1>9. /\ todo \in Seq(Todo) /\ Len(todo) = 1 /\ todo[1].s = s0 /\ todo[1].n = 1 + 1
      /\ todo[1].q = q
  <2>1. [s |-> s0, n |-> 2, q |-> q] \in Todo
    BY <1>3, <1>6 DEF Todo
  <2>2. QED
    BY <1>1, <1>2, <2>1
<1>10. \A f \in Live(edges) : f.src = s0 => f \in ToSet(q)
  BY <1>6 DEF succ_iter
<1>11. 1 \in Nat
  OBVIOUS
<1>12. FirstInv(edges, 1, h, root, arc, todo, q)
  BY <1>6, <1>7, <1>8, <1>9, <1>10, <1>11, FirstState
<1>13. arc \in Seq(SUBSET Mark) /\ Len(arc) = 0
  BY <1>4
<1>14. Orders(h, num)
  <2>1. num = 1 + 1
    BY <1>4
  <2>2. QED
    BY <1>12, <2>1 DEF FirstInv
<1>15. ToSet(q) \subseteq Live(edges)
  BY <1>6 DEF succ_iter
<1>16. QED
  BY <1>4, <1>8, <1>12, <1>13, <1>14, <1>15 DEF SearchInv, FirstInv

-----------------------------------------------------------------------------
(* The answer                                                              *)

(* A merge that makes a component accepting has found an accepting run.    *)
LEMMA AnswerRun ==
  ASSUME edges \in SUBSET Edge, SearchInv, NEW e, NEW t, NEW r2, NEW a2, MergeStep(e, t, r2, a2),
         accepting(Last(r2).condition)
  PROVE  NonEmpty(edges)
<1> DEFINE S == Scc(h, r2, Len(r2))
           E == Within(Taken(edges, h, Queued(t)), S)
<1>1. /\ e \in E /\ Connects(E, S) /\ Last(r2).condition = Marks(E) /\ Roots(h, r2) /\ r2 # << >>
  BY DEF MergeStep, Last
<1>2. h \in [State -> Int] /\ Visited(edges, h)
  BY DEF SearchInv, Orders
<1>3. \A s \in S : s \in State /\ h[s] > 0
  <2>1. Len(r2) \in 1 .. Len(r2)
    BY <1>1 DEF Roots
  <2>2. QED
    BY <1>1, <1>2, <2>1, SccFacts
<1>4. \A f \in E : f \in Live(edges) /\ f.src \in S /\ f.dst \in S
  BY DEF Within, Taken
<1> HIDE DEF S, E
<1>5. E \in SUBSET {f \in Live(edges) : f.src \in Reach(Live(edges), s0)}
  <2>1. \A f \in E : f.src \in Reach(Live(edges), s0)
    BY <1>2, <1>3, <1>4 DEF Visited
  <2>2. QED
    BY <1>4, <2>1
<1>6. Touched(E) \subseteq S
  BY <1>4 DEF Touched
<1>7. StronglyConnected(E)
  <2>1. ASSUME NEW C \in SUBSET Touched(E), C # {}, Closed(E, C) PROVE C = Touched(E)
    <3>1. C \in SUBSET S
      BY <1>6
    <3>2. C = S
      BY <1>1, <2>1, <3>1 DEF Connects
    <3>3. QED
      BY <1>6, <3>2
  <2>2. QED
    BY <1>1, <2>1 DEF StronglyConnected
<1>8. QED
  BY <1>1, <1>5, <1>7 DEF NonEmpty

(* No accepting run goes through the initial state.                        *)
LEMMA NoRunAtAll ==
  ASSUME NEW A \in SUBSET Edge, NEW D \in SUBSET State, NoRun(A, D), s0 \in D
  PROVE  ~NonEmpty(A)
<1>1. Reach(Live(A), s0) \subseteq D
  <2>1. Closed(Live(A), D) /\ s0 \in State
    BY TwaAssumption DEF NoRun
  <2>2. QED
    BY <2>1, ReachInClosed
<1>2. SUFFICES ASSUME NEW E \in SUBSET {e \in Live(A) : e.src \in Reach(Live(A), s0)},
                      StronglyConnected(E), accepting(Marks(E))
               PROVE  FALSE
  BY DEF NonEmpty
<1>3. E \in SUBSET {e \in Live(A) : e.src \in D}
  BY <1>1
<1>4. QED
  BY <1>2, <1>3 DEF NoRun

(* The stack is empty: every visited state is dead.                        *)
LEMMA AnswerNull ==
  ASSUME edges \in SUBSET Edge, SearchInv, todo = << >>
  PROVE  ~NonEmpty(edges)
<1>1. /\ h \in [State -> Int] /\ Orders(h, num) /\ Roots(h, root) /\ SearchPath(h, root, todo)
      /\ NoRun(edges, DeadSet(h)) /\ Visited(edges, h) /\ s0 \in State
  BY TwaAssumption DEF SearchInv, Orders
<1>2. root = << >>
  <2>1. \A i \in 1 .. Len(root) : FALSE
    BY <1>1 DEF SearchPath
  <2>2. root \in Seq(Component)
    BY <1>1 DEF Roots
  <2>3. QED
    BY <2>1, <2>2
<1>3. ~(h[s0] > 0)
  BY <1>1, <1>2 DEF Roots
<1>4. h[s0] # 0 /\ -1 <= h[s0] /\ h[s0] \in Int
  BY <1>1 DEF Visited, Orders
<1>5. h[s0] = -1
  BY <1>3, <1>4
<1>6. s0 \in DeadSet(h) /\ DeadSet(h) \in SUBSET State
  BY <1>1, <1>5 DEF DeadSet
<1>7. QED
  BY <1>1, <1>6, NoRunAtAll

(* The only state on the stack has no edge left: every visited state is    *)
(* dead, or in its component.                                              *)
LEMMA ShyAnswerNull ==
  ASSUME edges \in SUBSET Edge, SearchInv, ~uses_fin_acceptance, Len(todo) = 1, Last(todo).q = << >>
  PROVE  ~NonEmpty(edges)
<1> DEFINE S == Scc(h, root, Len(root))
<1>1. /\ h \in [State -> Int] /\ Orders(h, num) /\ Roots(h, root) /\ SearchPath(h, root, todo)
      /\ Steps(edges, h, root, arc, Queued(todo)) /\ Sccs(edges, h, root, Queued(todo))
      /\ NoRun(edges, DeadSet(h)) /\ Visited(edges, h) /\ s0 \in State
  BY TwaAssumption DEF SearchInv, Orders
<1>2. todo # << >> /\ DOMAIN todo = {1} /\ todo[1].q = << >>
  <2>1. todo \in Seq(Todo) /\ Len(todo) = 1
    BY <1>1 DEF SearchPath
  <2>2. DOMAIN todo = 1 .. Len(todo)
    BY ONLY <2>1, LenProperties
  <2>3. DOMAIN todo = {1}
    BY ONLY <2>1, <2>2
  <2>4. todo[1].q = << >>
    BY ONLY Last(todo).q = << >>, <2>1 DEF Last
  <2>5. todo # << >>
    BY ONLY <2>3
  <2>6. QED
    BY <2>3, <2>4, <2>5
<1>3. root # << >> /\ Len(root) \in Nat \ {0}
  <2>1. root # << >> /\ root \in Seq(Component)
    BY <1>1, <1>2, PathFacts DEF Roots
  <2>2. QED
    BY <2>1
<1>4. Queued(todo) = {}
  BY <1>2 DEF Queued, ToSet
<1>5. Len(root) = 1
  <2> SUFFICES ASSUME Len(root) # 1 PROVE FALSE
    OBVIOUS
  <2>1. 1 \in 1 .. Len(root) /\ 2 \in 1 .. Len(root) /\ 1 < 2
    <3>1. \A m \in Nat \ {0} : m # 1 => 1 \in 1 .. m /\ 2 \in 1 .. m
      OBVIOUS
    <3>2. QED
      BY ONLY <1>3, <3>1, Len(root) # 1
  <2>2. root[1].index < root[2].index
    BY <1>1, <2>1 DEF Roots
  <2>3. root[1].index = todo[1].n /\ root[2].index = todo[1].n
    <3>1. \A i \in 1 .. Len(root) : \E k \in 1 .. 1 : todo[k].n = root[i].index
      BY <1>1 DEF SearchPath
    <3>2. QED
      BY <2>1, <3>1
  <2>4. root[1].index \in Nat
    BY <1>1, <2>1, RootFacts
  <2>5. QED
    BY <2>2, <2>3, <2>4
<1>6. NoRun(edges, DeadSet(h) \cup S)
  <2>1. \A f \in {} : f.src \notin Scc(h, root, Len(root))
    OBVIOUS
  <2>2. LastClosed(edges, h, root, {}) /\ NoRun(edges, DeadSet(h) \cup Scc(h, root, Len(root)))
    BY <1>1, <1>3, <1>4, <2>1, LastSccHasNoRun
  <2>3. QED
    BY <2>2
<1>7. s0 \in DeadSet(h) \cup S
  <2>1. h[s0] # 0 /\ -1 <= h[s0] /\ h[s0] \in Int
    BY <1>1 DEF Visited, Orders
  <2>2. CASE h[s0] = -1
    BY <1>1, <2>2 DEF DeadSet
  <2>3. CASE h[s0] > 0
    <3>1. \E i \in 1 .. Len(root) : s0 \in Scc(h, root, i)
      BY <1>1, <2>3, SccFacts
    <3>2. QED
      BY <1>5, <3>1
  <2>4. QED
    BY <2>1, <2>2, <2>3
<1>8. DeadSet(h) \cup S \in SUBSET State
  BY DEF DeadSet, Scc
<1>9. QED
  BY <1>6, <1>7, <1>8, NoRunAtAll

-----------------------------------------------------------------------------
(* The steps of check()                                                    *)

(* Dead states lead to dead states, since no accepting run goes through.   *)
LEMMA DeadClosed ==
  ASSUME NEW A \in SUBSET Edge, NEW hh, NoRun(A, DeadSet(hh)), NEW e \in Live(A), hh[e.src] = -1
  PROVE  hh[e.dst] = -1
<1>1. Closed(Live(A), DeadSet(hh))
  BY DEF NoRun
<1>3. e.src \in State
  BY DEF Live, Edge
<1>4. QED
  BY <1>1, <1>3 DEF Closed, DeadSet

(* A step leaves the answer as it is, or gives the right one.              *)
Answers ==
  /\ edges' = edges
  /\ \/ result' = result
     \/ /\ result = "none" /\ result' \in {"run", "null"}
        /\ (result' = "run" <=> NonEmpty(edges))

(* The automaton has finitely many edges.                                  *)
LEMMA AutomataFacts ==
  ASSUME CheckInv
  PROVE  edges \in SUBSET Edge /\ IsFiniteSet(edges)
BY CouvreurAssumption DEF CheckInv

(* check() goes on, with the invariant of the search.                      *)
LEMMA StepGoesOn ==
  ASSUME CheckInv, pc = "loop", pc' = "loop", result' = result, UNCHANGED <<edges, o>>, SearchInv',
         o.shy => todo' # << >> /\ pos' \in Nat \ {0}
  PROVE  CheckInv' /\ Answers
<1>1. edges' \in SUBSET Edge /\ edges' = edges
  BY AutomataFacts
<1>2. DeadIsClosed'
  <2>1. NoRun(edges', DeadSet(h'))
    BY DEF SearchInv
  <2>2. QED
    BY <1>1, <2>1, DeadClosed DEF DeadIsClosed
<1>3. QED
  BY <1>1, <1>2 DEF CheckInv, Answers

(* check() ends with the right answer.                                     *)
LEMMA StepEnds ==
  ASSUME CheckInv, pc \in {"call", "loop"}, pc' = "idle", result' \in {"run", "null"},
         (result' = "run" <=> NonEmpty(edges)), UNCHANGED <<edges, o, h>>
  PROVE  CheckInv' /\ Answers
<1>1. result = "none" /\ ~Searching'
  BY DEF CheckInv, Searching
<1>2. DeadIsClosed'
  BY DEF CheckInv, DeadIsClosed
<1>3. QED
  BY <1>1, <1>2 DEF CheckInv, Answers

(* The actions of couvreur99_check                                         *)
LEMMA CheckSteps ==
  ASSUME CheckInv, check
  PROVE  CheckInv' /\ Answers
<1>1. edges \in SUBSET Edge /\ IsFiniteSet(edges)
  BY AutomataFacts
<1>2. CASE Check
  <2>1. CASE is_f
    <3>1. ~NonEmpty(edges)
      BY <2>1 DEF is_f, NonEmpty, accepting
    <3>2. pc = "call" /\ pc' = "idle" /\ result' = "null" /\ UNCHANGED <<edges, o, h>>
      BY <1>2, <2>1 DEF Check, Return
    <3>3. (result' = "run" <=> NonEmpty(edges))
      BY <3>1, <3>2
    <3>4. QED
      BY <3>2, <3>3, StepEnds
  <2>2. CASE ~is_f
    <3>1. pc = "call" /\ ~o.shy /\ ~uses_fin_acceptance /\ UNCHANGED <<edges, o, result>>
      BY <1>2, <2>2 DEF Check
    <3>2. h = [s \in State |-> 0] /\ root = << >> /\ arc = << >>
      BY <3>1 DEF CheckInv
    <3>3. SearchInv' /\ pc' = "loop"
      BY <1>1, <1>2, <2>2, <3>2, StepFirst
    <3>4. DeadIsClosed'
      <4>1. NoRun(edges', DeadSet(h')) /\ edges' \in SUBSET Edge
        BY <1>1, <3>1, <3>3 DEF SearchInv
      <4>2. QED
        BY <4>1, DeadClosed DEF DeadIsClosed
    <3>5. QED
      BY <3>1, <3>3, <3>4 DEF CheckInv, Answers
  <2>3. QED
    BY <2>1, <2>2
<1>3. ASSUME Loop
      PROVE  /\ pc = "loop" /\ ~o.shy /\ SearchInv /\ ~uses_fin_acceptance
             /\ h \in [State -> Int] /\ todo \in Seq(Todo)
  BY <1>3 DEF Loop, CheckInv, Searching, SearchInv, Orders, SearchPath
<1>4. CASE Backtrack
  <2>1. /\ Loop /\ todo # << >> /\ Last(todo).q = << >> /\ todo' = Front(todo)
        /\ Leave(Last(todo).s, h[Last(todo).s])
        /\ UNCHANGED <<edges, o, num, cycle_seed, pc, result>>
    BY <1>4 DEF Backtrack
  <2>2. Leaving
    BY <1>1, <1>3, <2>1 DEF Leaving
  <2>3. Leave(Last(todo).s, Last(todo).n)
    BY <2>1, <2>2, LeavingFacts
  <2>4. SearchInv'
    BY <2>2, <2>3, StepPop, StepRemove
  <2>5. QED
    BY <1>3, <2>1, <2>4, StepGoesOn
<1>5. ASSUME NEW e \in edges, Skip(e)
      PROVE  CheckInv' /\ Answers
  <2>1. /\ On(e) /\ Loop /\ ~e.cond /\ todo' = Moved
        /\ UNCHANGED <<edges, o, h, root, arc, num, depth, cycle_seed, pc, result>>
    BY <1>5 DEF Skip, On
  <2>2. Took(edges, h, root, todo, e, todo')
    BY <1>1, <1>3, <2>1, MovedTook
  <2>3. SearchInv'
    BY <1>1, <1>3, <2>1, <2>2, StepDead
  <2>4. QED
    BY <1>3, <2>1, <2>3, StepGoesOn
<1>6. ASSUME NEW e \in edges, NewState(e)
      PROVE  CheckInv' /\ Answers
  <2>1. /\ On(e) /\ Loop /\ e.cond /\ h[e.dst] = 0 /\ num' = num + 1
        /\ h' = [h EXCEPT ![e.dst] = num'] /\ root' = Append(root, connected_component(num'))
        /\ arc' = Append(arc, e.acc) /\ UNCHANGED <<edges, o, cycle_seed, pc, result>>
    BY <1>6 DEF NewState, On
  <2>2. PICK q \in SetToSeqs(succ_iter(edges, e.dst)) :
          todo' = Append(Moved, [s |-> e.dst, n |-> num', q |-> q])
    BY <1>6 DEF NewState
  <2>3. Took(edges, h, root, todo, e, Moved)
    BY <1>1, <1>3, <2>1, MovedTook
  <2>4. e.dst \in State
    BY <1>1 DEF Edge
  <2>5. /\ q \in Seq(Edge) /\ IsInjective(q) /\ ToSet(q) = succ_iter(edges, e.dst)
        /\ ToSet(q) \subseteq succ_iter(edges, e.dst)
    BY <1>1, <2>4, NewQueueFacts
  <2>6. \A f \in Live(edges) : f.src = e.dst => f \in ToSet(q)
    BY <2>5 DEF Live, succ_iter
  <2>7. SearchInv'
    BY <1>1, <1>3, <2>1, <2>2, <2>3, <2>5, <2>6, StepNew
  <2>8. QED
    BY <1>3, <2>1, <2>7, StepGoesOn
<1>7. ASSUME NEW e \in edges, Dead(e)
      PROVE  CheckInv' /\ Answers
  <2>1. /\ On(e) /\ Loop /\ h[e.dst] = -1 /\ todo' = Moved
        /\ UNCHANGED <<edges, o, h, root, arc, num, depth, cycle_seed, pc, result>>
    BY <1>7 DEF Dead, On
  <2>2. Took(edges, h, root, todo, e, todo')
    BY <1>1, <1>3, <2>1, MovedTook
  <2>3. SearchInv'
    BY <1>1, <1>3, <2>1, <2>2, StepDead
  <2>4. QED
    BY <1>3, <2>1, <2>3, StepGoesOn
<1>8. ASSUME NEW e \in edges, Merge(e)
      PROVE  CheckInv' /\ Answers
  <2>1. /\ On(e) /\ Loop /\ e.cond /\ h[e.dst] > 0
        /\ root' = Merged(h[e.dst], e.acc) /\ arc' = MergedArc(h[e.dst])
        /\ UNCHANGED <<edges, o, h, num>>
    BY <1>8 DEF Merge, On
  <2>2. Took(edges, h, root, todo, e, Moved)
    BY <1>1, <1>3, <2>1, MovedTook
  <2>3. MergeStep(e, Moved, root', arc')
    BY <1>1, <1>3, <2>1, <2>2, StepMerge
  <2>4. CASE accepting(Last(root').condition)
    <3>1. NonEmpty(edges)
      BY <1>1, <1>3, <2>1, <2>3, <2>4, AnswerRun
    <3>2. pc' = "idle" /\ result' = "run"
      BY <1>8, <2>4 DEF Merge, Return
    <3>3. (result' = "run" <=> NonEmpty(edges))
      BY <3>1, <3>2
    <3>4. QED
      BY <1>3, <2>1, <3>2, <3>3, StepEnds
  <2>5. CASE ~accepting(Last(root').condition)
    <3>1. todo' = Moved /\ UNCHANGED <<depth, cycle_seed, pc, result>>
      BY <1>8, <2>5 DEF Merge
    <3>2. SearchInv'
      BY <1>3, <2>1, <2>3, <2>5, <3>1, StepMerged
    <3>3. QED
      BY <1>3, <2>1, <3>1, <3>2, StepGoesOn
  <2>6. QED
    BY <2>4, <2>5
<1>9. CASE ReturnNull
  <2>1. /\ Loop /\ todo = << >> /\ pc' = "idle" /\ result' = "null"
        /\ UNCHANGED <<edges, o, h>>
    BY <1>9 DEF ReturnNull, Return
  <2>2. ~NonEmpty(edges)
    BY <1>1, <1>3, <2>1, AnswerNull
  <2>3. (result' = "run" <=> NonEmpty(edges))
    BY <2>1, <2>2
  <2>4. QED
    BY <1>3, <2>1, <2>3, StepEnds
<1>10. QED
  BY <1>2, <1>4, <1>5, <1>6, <1>7, <1>8, <1>9 DEF check

(* The actions of couvreur99_check_shy                                     *)
LEMMA ShySteps ==
  ASSUME CheckInv, shy_check
  PROVE  CheckInv' /\ Answers
<1>1. edges \in SUBSET Edge /\ IsFiniteSet(edges)
  BY AutomataFacts
<1>2. CASE ShyCheck
  <2>1. CASE is_f
    <3>1. ~NonEmpty(edges)
      BY <2>1 DEF is_f, NonEmpty, accepting
    <3>2. pc = "call" /\ pc' = "idle" /\ result' = "null" /\ UNCHANGED <<edges, o, h>>
      BY <1>2, <2>1 DEF ShyCheck, Return
    <3>3. (result' = "run" <=> NonEmpty(edges))
      BY <3>1, <3>2
    <3>4. QED
      BY <3>2, <3>3, StepEnds
  <2>2. CASE ~is_f
    <3>1. /\ pc = "call" /\ o.shy /\ ~uses_fin_acceptance /\ pos' = 1 /\ pc' = "loop"
          /\ UNCHANGED <<edges, o, h, root, arc, num, todo, depth, cycle_seed, result>>
      BY <1>2, <2>2 DEF ShyCheck
    <3>2. SearchInv /\ todo # << >>
      BY <3>1 DEF CheckInv, Searching
    <3>3. SearchInv' /\ todo' # << >>
      BY <3>1, <3>2 DEF SearchInv
    <3>4. DeadIsClosed'
      BY <3>1 DEF CheckInv, DeadIsClosed
    <3>5. QED
      BY <3>1, <3>3, <3>4 DEF CheckInv, Answers
  <2>3. QED
    BY <2>1, <2>2
<1>3. ASSUME ShyLoop
      PROVE  /\ pc = "loop" /\ o.shy /\ SearchInv /\ ~uses_fin_acceptance
             /\ h \in [State -> Int] /\ todo \in Seq(Todo) /\ todo # << >> /\ pos \in Nat \ {0}
             /\ num \in Nat /\ Queued(todo) \subseteq Live(edges)
  BY <1>3 DEF ShyLoop, CheckInv, Searching, SearchInv, Orders, SearchPath
<1>4. ASSUME NEW e \in edges, Considered(e)
      PROVE  /\ ShyLoop /\ Took(edges, h, root, todo, e, Erased) /\ e.cond /\ ErasedPos \in Nat \ {0}
             /\ pos + 1 \in Nat \ {0}
  <2>1. ShyLoop /\ queue # << >>
    BY <1>4 DEF Considered
  <2>2. Took(edges, h, root, todo, e, Erased)
    BY <1>1, <1>3, <1>4, <2>1, ErasedTook
  <2>3. e.cond
    BY <1>3, <2>1, <2>2 DEF Took, Live
  <2>4. Len(queue) \in Nat \ {0}
    <3>1. Last(todo) \in Todo
      BY <1>3, <2>1 DEF Last
    <3>2. queue \in Seq(Edge)
      BY <3>1 DEF queue, Todo
    <3>3. QED
      BY <2>1, <3>2
  <2>5. ErasedPos \in Nat \ {0} /\ pos + 1 \in Nat \ {0}
    BY <1>3, <2>1, <2>4 DEF ErasedPos
  <2>6. QED
    BY <2>1, <2>2, <2>3, <2>5
<1>5. CASE ShyReturnNull
  <2>1. /\ ShyLoop /\ Last(todo).q = << >> /\ Len(todo) = 1 /\ pc' = "idle" /\ result' = "null"
        /\ UNCHANGED <<edges, o, h>>
    BY <1>5 DEF ShyReturnNull, Return, queue
  <2>2. ~NonEmpty(edges)
    BY <1>1, <1>3, <2>1, ShyAnswerNull
  <2>3. (result' = "run" <=> NonEmpty(edges))
    BY <2>1, <2>2
  <2>4. QED
    BY <1>3, <2>1, <2>3, StepEnds
<1>6. CASE ShyBacktrack
  <2>1. /\ ShyLoop /\ Last(todo).q = << >> /\ Len(todo) > 1 /\ todo' = Front(todo) /\ pos' = 1
        /\ Leave(Last(todo).s, Last(todo).n)
        /\ UNCHANGED <<edges, o, num, cycle_seed, pc, result>>
    BY <1>6 DEF ShyBacktrack, queue
  <2>2. Leaving
    BY <1>1, <1>3, <2>1 DEF Leaving
  <2>3. SearchInv' /\ todo' # << >>
    BY <1>3, <2>1, <2>2, StepPop, StepRemove
  <2>4. QED
    BY <1>3, <2>1, <2>3, StepGoesOn
<1>7. ASSUME NEW e \in edges, ShySkip(e)
      PROVE  CheckInv' /\ Answers
  <2>1. Considered(e) /\ pos' = pos + 1 /\ UNCHANGED base
    BY <1>7 DEF ShySkip
  <2>2. ShyLoop /\ pos' \in Nat \ {0}
    BY <1>4, <2>1
  <2>3. SearchInv' /\ todo' # << >>
    BY <1>3, <2>1, <2>2 DEF SearchInv, base
  <2>4. QED
    BY <1>3, <2>1, <2>2, <2>3, StepGoesOn DEF base
<1>8. ASSUME NEW e \in edges, ShyNew(e)
      PROVE  CheckInv' /\ Answers
  <2>1. /\ Considered(e) /\ h[e.dst] = 0 /\ num' = num + 1
        /\ h' = [h EXCEPT ![e.dst] = num'] /\ root' = Append(root, connected_component(num'))
        /\ arc' = Append(arc, e.acc) /\ pos' = 1 /\ UNCHANGED <<edges, o, cycle_seed, pc, result>>
    BY <1>8 DEF ShyNew
  <2>2. ShyLoop /\ e.cond /\ Took(edges, h, root, todo, e, Erased)
    BY <1>4, <2>1
  <2>3. PICK t \in todo_items(e.dst, num') : todo' = Append(Erased, t)
    BY <1>8 DEF ShyNew
  <2>4. PICK q \in SetToSeqs(succ_iter(Live(edges), e.dst)) : t = [s |-> e.dst, n |-> num', q |-> q]
    BY <2>3 DEF todo_items
  <2>5. e.dst \in State /\ Live(edges) \subseteq edges
    BY <1>1 DEF Edge, Live
  <2>6. /\ q \in Seq(Edge) /\ IsInjective(q) /\ ToSet(q) = succ_iter(Live(edges), e.dst)
        /\ ToSet(q) \subseteq succ_iter(edges, e.dst)
    BY <1>1, <2>5, NewQueueFacts
  <2>7. /\ \A f \in Live(edges) : f.src = e.dst => f \in ToSet(q)
        /\ ToSet(q) \subseteq Live(edges)
    BY <2>6 DEF succ_iter
  <2>8. todo' = Append(Erased, [s |-> e.dst, n |-> num', q |-> q])
    BY <2>3, <2>4
  <2>9. SearchInv' /\ todo' # << >>
    BY <1>1, <1>3, <2>1, <2>2, <2>6, <2>7, <2>8, StepNew
  <2>10. QED
    BY <1>3, <2>1, <2>2, <2>9, StepGoesOn
<1>9. ASSUME NEW e \in edges, ShyDead(e)
      PROVE  CheckInv' /\ Answers
  <2>1. /\ Considered(e) /\ h[e.dst] = -1 /\ todo' = Erased /\ pos' = ErasedPos
        /\ UNCHANGED <<edges, o, h, root, arc, num, cycle_seed, pc, result>>
    BY <1>9 DEF ShyDead
  <2>2. ShyLoop /\ Took(edges, h, root, todo, e, todo') /\ pos' \in Nat \ {0}
    BY <1>4, <2>1
  <2>3. SearchInv' /\ todo' # << >>
    BY <1>1, <1>3, <2>1, <2>2, StepDead
  <2>4. QED
    BY <1>3, <2>1, <2>2, <2>3, StepGoesOn
<1>10. ASSUME NEW e \in edges, ShyMerge(e)
       PROVE  CheckInv' /\ Answers
  <2> DEFINE r == Merged(h[e.dst], e.acc)
  <2>1. /\ Considered(e) /\ h[e.dst] > 0 /\ arc' = MergedArc(h[e.dst])
        /\ UNCHANGED <<edges, o, h, num>>
    BY <1>10 DEF ShyMerge
  <2>2. ShyLoop /\ e.cond /\ Took(edges, h, root, todo, e, Erased) /\ ErasedPos \in Nat \ {0}
    BY <1>4, <2>1
  <2>3. MergeStep(e, Erased, r, arc')
    BY <1>1, <1>3, <2>1, <2>2, StepMerge
  <2>4. CASE accepting(Last(r).condition)
    <3>1. NonEmpty(edges)
      BY <1>1, <1>3, <2>2, <2>3, <2>4, AnswerRun
    <3>2. pc' = "idle" /\ result' = "run"
      BY <1>10, <2>4 DEF ShyMerge, Return
    <3>3. (result' = "run" <=> NonEmpty(edges))
      BY <3>1, <3>2
    <3>4. QED
      BY <1>3, <2>1, <2>2, <3>2, <3>3, StepEnds
  <2>5. CASE ~accepting(Last(r).condition)
    <3>1. UNCHANGED <<cycle_seed, pc, result>>
      BY <1>10, <2>5 DEF ShyMerge
    <3>2. CASE o.group
      <4>1. Group(Erased, r)
        BY <1>10, <2>5, <3>2 DEF ShyMerge
      <4> HIDE DEF r
      <4>2. SearchInv' /\ todo' # << >> /\ pos' = 1
        BY <1>1, <1>3, <2>1, <2>2, <2>3, <2>5, <4>1, StepGroup DEF Group
      <4>3. QED
        BY <1>3, <2>1, <2>2, <3>1, <4>2, StepGoesOn
    <3>3. CASE ~o.group
      <4>1. root' = r /\ todo' = Erased /\ pos' = ErasedPos
        BY <1>10, <2>5, <3>3 DEF ShyMerge
      <4> HIDE DEF r
      <4>2. SearchInv' /\ todo' # << >>
        BY <1>3, <2>1, <2>2, <2>3, <2>5, <4>1, StepMerged
      <4>3. QED
        BY <1>3, <2>1, <2>2, <3>1, <4>1, <4>2, StepGoesOn
    <3>4. QED
      BY <3>2, <3>3
  <2>6. QED
    BY <2>4, <2>5
<1>11. QED
  BY <1>2, <1>5, <1>6, <1>7, <1>8, <1>9, <1>10 DEF shy_check

(* The computation of the run leaves all that check() knows as it is.      *)
LEMMA ResultSteps ==
  ASSUME CheckInv, accepting_run \/ accepting_cycle \/ ComputePrefix \/ UNCHANGED vars
  PROVE  CheckInv' /\ Answers
<1>1. CASE UNCHANGED vars
  BY <1>1 DEF vars, base, CheckInv, Searching, SearchInv, Answers, DeadIsClosed
<1>2. CASE accepting_run \/ accepting_cycle \/ ComputePrefix
  <2>1. /\ pc \in {"idle", "cycle", "prefix"} /\ pc' \in {"cycle", "prefix", "done"}
        /\ UNCHANGED <<edges, o, h, result>>
    BY <1>2 DEF accepting_run, accepting_cycle, ComputePrefix
  <2>2. result # "none" /\ ~Searching'
    BY <2>1 DEF CheckInv, Searching
  <2>3. DeadIsClosed'
    BY <2>1 DEF CheckInv, DeadIsClosed
  <2>4. QED
    BY <2>1, <2>2, <2>3 DEF CheckInv, Answers
<1>3. QED
  BY <1>1, <1>2

(* The invariant holds when the check has just been built.                 *)
LEMMA CheckInvInitially ==
  ASSUME Init
  PROVE  CheckInv
<1>1. edges \in Automata /\ edges \in SUBSET Edge /\ IsFiniteSet(edges) /\ o \in Options
      /\ pc = "call" /\ result = "none"
  BY CouvreurAssumption DEF Init, couvreur99_check, couvreur99_check_shy
<1>2. CASE couvreur99_check
  <2>1. /\ h = [s \in State |-> 0] /\ root = << >> /\ arc = << >> /\ todo = << >> /\ num = 0
        /\ ~o.shy
    BY <1>2 DEF couvreur99_check
  <2>2. DeadIsClosed
    <3>1. ASSUME NEW e \in Live(edges) PROVE h[e.src] # -1
      <4>1. e.src \in State
        BY <1>1 DEF Live, Edge
      <4>2. QED
        BY <2>1, <4>1
    <3>2. QED
      BY <3>1 DEF DeadIsClosed
  <2>3. QED
    BY <1>1, <2>1, <2>2 DEF CheckInv, Searching
<1>3. CASE couvreur99_check_shy
  <2>1. SearchInv
    BY <1>1, <1>3, ShyFirst
  <2>2. o.shy /\ todo # << >>
    BY <1>3 DEF couvreur99_check_shy
  <2>3. DeadIsClosed
    <3>1. NoRun(edges, DeadSet(h))
      BY <2>1 DEF SearchInv
    <3>2. QED
      BY <1>1, <3>1, DeadClosed DEF DeadIsClosed
  <2>4. QED
    BY <1>1, <2>1, <2>2, <2>3 DEF CheckInv, Searching
<1>4. QED
  BY <1>2, <1>3 DEF Init

(* Every step preserves the invariant, and only answers what is right.     *)
LEMMA StepAnswers ==
  ASSUME CheckInv, [Next]_vars
  PROVE  CheckInv' /\ Answers
<1>1. check \/ shy_check \/ accepting_run \/ accepting_cycle \/ ComputePrefix \/ UNCHANGED vars
  BY DEF Next, Finished
<1>2. QED
  BY <1>1, CheckSteps, ShySteps, ResultSteps

(* The invariant of check(), for both variants of gtec.cc, all their       *)
(* options and every order of the edges: the components on root are those  *)
(* of what was explored, dead states lead to dead ones and take part in no *)
(* accepting run, each edge out of a numbered state was taken or is still  *)
(* queued, and with poprem the components remember what they should.       *)
THEOREM CheckIsRight == Spec => []CheckInv
<1>1. Init => CheckInv
  BY CheckInvInitially
<1>2. CheckInv /\ [Next]_vars => CheckInv'
  BY StepAnswers
<1>3. QED
  BY <1>1, <1>2, PTL DEF Spec

(* The components on root are the strongly connected components of what    *)
(* check() has explored.                                                   *)
LEMMA SearchRoots ==
  ASSUME SearchInv
  PROVE  RootsAreComponents
<1>1. /\ h \in [State -> Int] /\ Roots(h, root)
      /\ Steps(edges, h, root, arc, Queued(todo)) /\ Sccs(edges, h, root, Queued(todo))
  BY DEF SearchInv, Orders
<1>2. Explored = Taken(edges, h, Queued(todo))
  BY DEF Explored, Taken, Pending, Queued
<1>3. \A i : Members(i) = Scc(h, root, i)
  BY DEF Members, Scc
<1>4. Len(root) \in Nat /\ DOMAIN root = 1 .. Len(root)
  BY <1>1, RootFacts
<1>5. \A i \in DOMAIN root :
        LET E == Within(Explored, Members(i))
        IN /\ \A C \in SUBSET Members(i) : C # {} /\ Closed(E, C) => C = Members(i)
           /\ root[i].condition = Marks(E)
  BY <1>1, <1>2, <1>3, <1>4 DEF Sccs, Connects
<1>6. ASSUME NEW i \in DOMAIN root, i > 1
      PROVE  \E e \in Explored : /\ e.src \in Members(i - 1) /\ e.dst \in Members(i)
                                 /\ e.acc = arc[Len(arc) - (Len(root) - i)]
  <2>1. i \in 2 .. Len(root)
    BY <1>4, <1>6
  <2>2. PICK e \in Explored : Link(h, root, arc, i, e)
    BY <1>1, <1>2, <2>1 DEF Steps
  <2>3. QED
    BY <1>3, <2>2 DEF Link, ArcInto
<1>7. ASSUME NEW i \in DOMAIN root, NEW j \in DOMAIN root, NEW e \in Explored,
             e.src \in Members(j), e.dst \in Members(i)
      PROVE  j <= i
  <2>1. e.src \in Scc(h, root, j) /\ e.dst \in Scc(h, root, i) /\ i \in 1 .. Len(root) /\ j \in 1 .. Len(root)
    BY <1>3, <1>4, <1>7
  <2>2. h[e.src] > 0 /\ h[e.dst] > 0
    BY <1>1, <2>1, SccFacts
  <2>3. \/ \E k \in 1 .. Len(root) : e.src \in Scc(h, root, k) /\ e.dst \in Scc(h, root, k)
        \/ \E k \in 2 .. Len(root) : Link(h, root, arc, k, e)
    BY <1>1, <1>2, <2>2 DEF Steps
  <2>4. CASE \E k \in 1 .. Len(root) : e.src \in Scc(h, root, k) /\ e.dst \in Scc(h, root, k)
    <3>1. PICK k \in 1 .. Len(root) : e.src \in Scc(h, root, k) /\ e.dst \in Scc(h, root, k)
      BY <2>4
    <3>2. k = j /\ k = i
      BY <1>1, <2>1, <3>1, SccsAreDisjoint
    <3>3. QED
      BY <1>4, <3>2
  <2>5. CASE \E k \in 2 .. Len(root) : Link(h, root, arc, k, e)
    <3>1. PICK k \in 2 .. Len(root) : e.src \in Scc(h, root, k - 1) /\ e.dst \in Scc(h, root, k)
      BY <2>5 DEF Link
    <3>2. k \in 1 .. Len(root) /\ k - 1 \in 1 .. Len(root) /\ k - 1 <= k
      BY <1>4
    <3>3. k - 1 = j /\ k = i
      BY <1>1, <2>1, <3>1, <3>2, SccsAreDisjoint
    <3>4. QED
      BY <3>2, <3>3
  <2>6. QED
    BY <2>3, <2>4, <2>5
<1>8. QED
  BY <1>5, <1>6, <1>7 DEF RootsAreComponents

(* While check() runs, each component on root is strongly connected by the *)
(* edges taken and has exactly their marks, and the components follow one  *)
(* another on the search path: gtec.cc merges and removes them right,      *)
(* whatever the options and the order of the edges.                        *)
THEOREM ComponentsAreRight == Spec => []RootsAreComponents
<1>1. CheckInv => RootsAreComponents
  <2>1. SearchInv => RootsAreComponents
    BY SearchRoots
  <2>2. pc # "loop" => RootsAreComponents
    BY DEF RootsAreComponents
  <2>3. QED
    BY <2>1, <2>2 DEF CheckInv, Searching
<1>2. QED
  BY <1>1, CheckIsRight, PTL

(* remove_component() leaves no successor of a dead state alive, with a    *)
(* second search or with what the components remember.                     *)
THEOREM DeadStaysDead == Spec => []DeadIsClosed
<1>1. CheckInv => DeadIsClosed
  BY DEF CheckInv
<1>2. QED
  BY <1>1, CheckIsRight, PTL

(* check() answers as an emptiness_check must: a result exactly when the   *)
(* automaton has an accepting run, for any finite automaton, any condition *)
(* without Fin, all options and any order of the edges.                    *)
THEOREM CouvreurIsAnEmptinessCheck == Spec => ImplementsEmptinessCheck
<1>1. Init => EC!Init
  <2> SUFFICES ASSUME Init PROVE EC!Init
    OBVIOUS
  <2>1. edges \in Automata /\ result = "none"
    BY DEF Init, couvreur99_check, couvreur99_check_shy
  <2>2. QED
    BY <2>1, CouvreurAssumption DEF EC!Init, EC!Edge, Edge
<1>2. CheckInv /\ [Next]_vars => [EC!Next]_EC!vars
  <2> SUFFICES ASSUME CheckInv, [Next]_vars PROVE [EC!Next]_EC!vars
    OBVIOUS
  <2>1. NonEmpty(edges) <=> EC!NonEmpty(edges)
    BY DEF NonEmpty, Live, Reach, Closed, StronglyConnected, Touched, Marks, accepting,
           EC!NonEmpty, EC!Live, EC!Reach, EC!Closed, EC!StronglyConnected, EC!Touched,
           EC!Marks, EC!accepting
  <2>2. Answers
    BY StepAnswers
  <2>3. EC!NonEmpty(edges) \in BOOLEAN
    BY DEF EC!NonEmpty
  <2>4. QED
    BY <2>1, <2>2, <2>3 DEF Answers, EC!Next, EC!First, EC!vars
<1>3. QED
  BY <1>1, <1>2, CheckIsRight, PTL DEF Spec, ImplementsEmptinessCheck, EC!Spec

-----------------------------------------------------------------------------
(* What the components remember, and the depth                             *)

(* A sequence that holds nothing twice is as long as what it holds.        *)
LEMMA OnceLength ==
  ASSUME NEW T, NEW q \in Seq(T), IsInjective(q)
  PROVE  IsFiniteSet(ToSet(q)) /\ Cardinality(ToSet(q)) = Len(q)
<1> DEFINE D == 1 .. Len(q)
<1>1. Len(q) \in Nat /\ DOMAIN q = D
  OBVIOUS
<1>2. IsFiniteSet(D) /\ Cardinality(D) = Len(q)
  BY <1>1, FS_Interval
<1>3. q \in [D -> ToSet(q)]
  <2>1. \A i \in D : q[i] \in ToSet(q)
    BY <1>1 DEF ToSet
  <2>2. q = [i \in D |-> q[i]]
    BY <1>1
  <2>3. QED
    BY <2>1, <2>2
<1>4. \A i, j \in D : q[i] = q[j] => i = j
  BY <1>1 DEF IsInjective
<1>5. \A z \in ToSet(q) : \E i \in D : q[i] = z
  BY <1>1 DEF ToSet
<1>6. q \in Bijection(D, ToSet(q))
  BY <1>3, <1>4, <1>5 DEF Bijection, Injection, Surjection, IsInjective
<1>7. ExistsBijection(D, ToSet(q))
  BY <1>6 DEF ExistsBijection
<1>8. QED
  BY <1>2, <1>7, FS_Bijection

(* The length of queues that hold nothing twice, one after the other.      *)
LEMMA FlatLength ==
  ASSUME NEW T, NEW ss \in Seq(Seq(T)), \A i \in 1 .. Len(ss) : IsInjective(ss[i]),
         \A i, j \in 1 .. Len(ss) : i # j => ToSet(ss[i]) \cap ToSet(ss[j]) = {},
         NEW U, \A z : z \in U <=> \E i \in 1 .. Len(ss) : z \in ToSet(ss[i])
  PROVE  /\ FlattenSeq(ss) \in Seq(T) /\ IsInjective(FlattenSeq(ss)) /\ ToSet(FlattenSeq(ss)) = U
         /\ IsFiniteSet(U) /\ Len(FlattenSeq(ss)) = Cardinality(U) /\ Cardinality(U) \in Nat
<1>1. /\ FlattenSeq(ss) \in Seq(T)
      /\ ToSet(FlattenSeq(ss)) = UNION {ToSet(ss[i]) : i \in 1 .. Len(ss)}
      /\ IsInjective(FlattenSeq(ss))
  BY FlatQueues
<1>2. UNION {ToSet(ss[i]) : i \in 1 .. Len(ss)} = U
  OBVIOUS
<1>3. IsFiniteSet(U) /\ Cardinality(U) = Len(FlattenSeq(ss))
  BY ONLY <1>1, <1>2, OnceLength
<1>4. QED
  BY <1>1, <1>2, <1>3, FS_CardinalityType

(* The edges in the queues of todo, of which each holds different ones.    *)
LEMMA QueuedLength ==
  ASSUME NEW t \in Seq(Todo), \A k \in 1 .. Len(t) : IsInjective(t[k].q),
         \A k, l \in 1 .. Len(t) : k # l => ToSet(t[k].q) \cap ToSet(t[l].q) = {}
  PROVE  /\ Len(FlattenSeq([i \in DOMAIN t |-> t[i].q])) = Cardinality(Queued(t))
         /\ IsFiniteSet(Queued(t)) /\ Cardinality(Queued(t)) \in Nat
<1> DEFINE ss == [i \in DOMAIN t |-> t[i].q]
<1>1. Len(t) \in Nat /\ DOMAIN t = 1 .. Len(t) /\ \A i \in 1 .. Len(t) : t[i] \in Todo
  OBVIOUS
<1>2. \A i \in 1 .. Len(t) : t[i].q \in Seq(Edge)
  BY <1>1 DEF Todo
<1>3. ss \in Seq(Seq(Edge)) /\ Len(ss) = Len(t) /\ \A i \in 1 .. Len(t) : ss[i] = t[i].q
  BY <1>1, <1>2
<1>4. \A z : z \in Queued(t) <=> \E i \in 1 .. Len(ss) : z \in ToSet(ss[i])
  BY <1>1, <1>3 DEF Queued
<1>5. FlattenSeq([i \in DOMAIN t |-> t[i].q]) = FlattenSeq(ss)
  OBVIOUS
<1> HIDE DEF ss
<1>6. /\ \A i \in 1 .. Len(ss) : IsInjective(ss[i])
      /\ \A i, j \in 1 .. Len(ss) : i # j => ToSet(ss[i]) \cap ToSet(ss[j]) = {}
  BY <1>3
<1>7. /\ IsFiniteSet(Queued(t)) /\ Len(FlattenSeq(ss)) = Cardinality(Queued(t))
      /\ Cardinality(Queued(t)) \in Nat
  BY ONLY <1>3, <1>4, <1>6, FlatLength
<1>8. QED
  BY <1>5, <1>7

(* The alive states.                                                       *)
Alive(hh) == {s \in State : hh[s] > 0}

(* The states of the path are alive, and as many as the path has entries.  *)
LEMMA PathLength ==
  ASSUME NEW hh \in [State -> Int], NEW r, NEW t, Roots(hh, r), SearchPath(hh, r, t)
  PROVE  OnPath(t) \subseteq Alive(hh) /\ IsFiniteSet(OnPath(t)) /\ Cardinality(OnPath(t)) = Len(t)
<1> DEFINE q == [k \in 1 .. Len(t) |-> t[k].s]
<1>1. /\ Len(t) \in Nat
      /\ \A k \in 1 .. Len(t) : t[k].s \in State /\ hh[t[k].s] = t[k].n /\ t[k].n > 0 /\ t[k].n \in Nat
      /\ \A k, l \in 1 .. Len(t) : k < l => t[k].n < t[l].n
  <2>1. Len(t) \in Nat /\ \A k \in 1 .. Len(t) : t[k].s \in State /\ t[k].n \in Nat \ {0} /\ hh[t[k].s] = t[k].n
    BY PathFacts
  <2>2. \A k, l \in 1 .. Len(t) : k < l => t[k].n < t[l].n
    BY DEF SearchPath
  <2>3. QED
    BY <2>1, <2>2
<1>2. q \in Seq(State) /\ Len(q) = Len(t) /\ \A k \in 1 .. Len(t) : q[k] = t[k].s
  BY <1>1
<1>3. DOMAIN q = 1 .. Len(t)
  OBVIOUS
<1> HIDE DEF q
<1>4. IsInjective(q)
  <2> SUFFICES ASSUME NEW k \in 1 .. Len(t), NEW l \in 1 .. Len(t), q[k] = q[l] PROVE k = l
    BY <1>3 DEF IsInjective
  <2>1. t[k].n = t[l].n
    BY <1>1, <1>2
  <2>2. k \in Nat /\ l \in Nat
    BY <1>1
  <2>3. QED
    BY <1>1, <2>1, <2>2
<1>5. ToSet(q) = OnPath(t)
  BY <1>2, <1>3 DEF ToSet, OnPath
<1>6. IsFiniteSet(OnPath(t)) /\ Cardinality(OnPath(t)) = Len(t)
  BY <1>2, <1>4, <1>5, OnceLength
<1>7. OnPath(t) \subseteq Alive(hh)
  BY <1>1 DEF OnPath, Alive
<1>8. QED
  BY <1>6, <1>7

(* With poprem what a component remembers it remembers once, and without   *)
(* it remembers nothing.                                                   *)
RemOnce(r) ==
  \A i \in 1 .. Len(r) : IF o.poprem THEN IsInjective(r[i].rem) ELSE r[i].rem = << >>

RemLen(r) == Len(FlattenSeq([i \in DOMAIN r |-> r[i].rem]))

(* The number of states remembered.                                        *)
LEMMA RemLength ==
  ASSUME NEW hh \in [State -> Int], NEW r, NEW t, Roots(hh, r), SearchPath(hh, r, t), RemOnce(r),
         o.poprem => Remembered(hh, r, t), IsFiniteSet(State)
  PROVE  /\ o.poprem => RemLen(r) = Cardinality(Alive(hh)) - Len(t)
         /\ ~o.poprem => RemLen(r) = 0
         /\ RemLen(r) \in Nat
<1> DEFINE ss == [i \in DOMAIN r |-> r[i].rem]
<1>1. Len(r) \in Nat /\ DOMAIN r = 1 .. Len(r) /\ \A i \in 1 .. Len(r) : r[i] \in Component
  BY RootFacts
<1>2. \A i \in 1 .. Len(r) : r[i].rem \in Seq(State)
  BY <1>1 DEF Component
<1>3. /\ ss \in Seq(Seq(State)) /\ Len(ss) = Len(r) /\ \A i \in 1 .. Len(r) : ss[i] = r[i].rem
      /\ RemLen(r) = Len(FlattenSeq(ss))
  BY <1>1, <1>2 DEF RemLen
<1> HIDE DEF ss
<1>4. CASE o.poprem
  <2> DEFINE U == Alive(hh) \ OnPath(t)
  <2>1. \A i \in 1 .. Len(ss) : IsInjective(ss[i]) /\ ToSet(ss[i]) = Scc(hh, r, i) \ OnPath(t)
    BY <1>3, <1>4 DEF RemOnce, Remembered
  <2>2. \A i, j \in 1 .. Len(ss) : i # j => ToSet(ss[i]) \cap ToSet(ss[j]) = {}
    <3> SUFFICES ASSUME NEW i \in 1 .. Len(ss), NEW j \in 1 .. Len(ss), i # j,
                        NEW z \in ToSet(ss[i]), z \in ToSet(ss[j])
                 PROVE  FALSE
      OBVIOUS
    <3>1. z \in Scc(hh, r, i) /\ z \in Scc(hh, r, j) /\ i \in 1 .. Len(r) /\ j \in 1 .. Len(r)
      BY <1>3, <2>1
    <3>2. QED
      BY <3>1, SccsAreDisjoint
  <2>3. \A z : z \in U <=> \E i \in 1 .. Len(ss) : z \in ToSet(ss[i])
    <3>1. \A s \in State : hh[s] > 0 => \E i \in 1 .. Len(r) : s \in Scc(hh, r, i)
      BY SccFacts
    <3>2. \A i \in 1 .. Len(r) : \A s \in Scc(hh, r, i) : s \in State /\ hh[s] > 0
      BY SccFacts
    <3>3. QED
      BY <1>3, <2>1, <3>1, <3>2 DEF Alive
  <2> HIDE DEF U
  <2>4. RemLen(r) = Cardinality(U) /\ Cardinality(U) \in Nat
    <3>1. Len(FlattenSeq(ss)) = Cardinality(U) /\ Cardinality(U) \in Nat
      BY ONLY <1>3, <2>1, <2>2, <2>3, FlatLength
    <3>2. QED
      BY <1>3, <3>1
  <2>5. /\ OnPath(t) \subseteq Alive(hh) /\ IsFiniteSet(OnPath(t))
        /\ Cardinality(OnPath(t)) = Len(t)
    BY PathLength
  <2>6. IsFiniteSet(Alive(hh))
    BY FS_Subset DEF Alive
  <2>7. Alive(hh) \cap OnPath(t) = OnPath(t)
    BY <2>5
  <2>8. Cardinality(U) = Cardinality(Alive(hh)) - Len(t)
    <3>1. Cardinality(Alive(hh) \ OnPath(t)) = Cardinality(Alive(hh)) - Cardinality(Alive(hh) \cap OnPath(t))
      BY <2>6, FS_Difference
    <3>2. QED
      BY <2>5, <2>7, <3>1 DEF U
  <2>9. QED
    BY <1>4, <2>4, <2>8
<1>5. CASE ~o.poprem
  <2>1. \A i \in 1 .. Len(ss) : ss[i] = << >>
    BY <1>3, <1>5 DEF RemOnce
  <2>2. IsInjective(<< >>) /\ ToSet(<< >>) = {}
    BY DEF IsInjective, ToSet
  <2>3. \A z : z \in {} <=> \E i \in 1 .. Len(ss) : z \in ToSet(ss[i])
    BY <2>1, <2>2
  <2>4. RemLen(r) = Cardinality({})
    <3>1. /\ \A i \in 1 .. Len(ss) : IsInjective(ss[i])
          /\ \A i, j \in 1 .. Len(ss) : i # j => ToSet(ss[i]) \cap ToSet(ss[j]) = {}
      BY <2>1, <2>2
    <3>2. Len(FlattenSeq(ss)) = Cardinality({})
      BY ONLY <1>3, <2>3, <3>1, FlatLength
    <3>3. QED
      BY <1>3, <3>2
  <2>5. QED
    BY <1>5, <2>4, FS_EmptySet
<1>6. QED
  BY <1>4, <1>5

(* What ec_statistics::depth_ counts: the states of todo and those that    *)
(* are remembered, and the edges in the queues of the variant "shy".       *)
Counted(hh, r, t, d) ==
  /\ RemOnce(r)
  /\ d = (IF o.poprem THEN Cardinality(Alive(hh)) ELSE Len(t))
           + (IF o.shy THEN Cardinality(Queued(t)) ELSE 0)

(* The numbers it is made of are natural numbers.                          *)
LEMMA CountFacts ==
  ASSUME SearchInv
  PROVE  /\ IsFiniteSet(Alive(h)) /\ Cardinality(Alive(h)) \in Nat
         /\ IsFiniteSet(Queued(todo)) /\ Cardinality(Queued(todo)) \in Nat
         /\ Len(todo) \in Nat /\ h \in [State -> Int]
<1>1. h \in [State -> Int] /\ Roots(h, root) /\ SearchPath(h, root, todo) /\ Queues(edges, h, root, todo)
  BY DEF SearchInv, Orders
<1>2. IsFiniteSet(Alive(h)) /\ Cardinality(Alive(h)) \in Nat
  BY CouvreurAssumption, FS_Subset, FS_CardinalityType DEF Alive
<1>3. IsFiniteSet(Queued(todo)) /\ Cardinality(Queued(todo)) \in Nat
  <2>1. /\ todo \in Seq(Todo) /\ \A k \in 1 .. Len(todo) : IsInjective(todo[k].q)
        /\ \A k, l \in 1 .. Len(todo) : k # l => ToSet(todo[k].q) \cap ToSet(todo[l].q) = {}
    BY <1>1 DEF SearchPath, Queues
  <2>2. QED
    BY <2>1, QueuedLength
<1>4. QED
  BY <1>1, <1>2, <1>3, PathFacts

(* An edge leaves the last queue.                                          *)
LEMMA TookCount ==
  ASSUME SearchInv, NEW e, NEW t, Took(edges, h, root, todo, e, t)
  PROVE  /\ Len(t) = Len(todo)
         /\ Cardinality(Queued(t)) = Cardinality(Queued(todo)) - 1
         /\ IsFiniteSet(Queued(t)) /\ Cardinality(Queued(t)) \in Nat
<1>1. h \in [State -> Int] /\ Roots(h, root) /\ SearchPath(h, root, todo)
  BY DEF SearchInv, Orders
<1>2. /\ SearchPath(h, root, t) /\ Queued(t) = Queued(todo) \ {e} /\ e \in Queued(todo)
      /\ OnPath(t) = OnPath(todo)
  BY DEF Took
<1>3. Cardinality(OnPath(t)) = Len(t) /\ Cardinality(OnPath(todo)) = Len(todo)
  BY <1>1, <1>2, PathLength
<1>4. IsFiniteSet(Queued(todo))
  BY CountFacts
<1>5. IsFiniteSet(Queued(t)) /\ Cardinality(Queued(t)) = Cardinality(Queued(todo)) - 1
  BY <1>2, <1>4, FS_RemoveElement
<1>6. QED
  BY <1>2, <1>3, <1>5, FS_CardinalityType

(* It counted only for the variant "shy".                                  *)
LEMMA CountTake ==
  ASSUME SearchInv, NEW e, NEW t, Took(edges, h, root, todo, e, t),
         NEW r2, RemOnce(r2), Counted(h, root, todo, depth)
  PROVE  Counted(h, r2, t, IF o.shy THEN depth - 1 ELSE depth)
<1>1. /\ Len(t) = Len(todo)
      /\ Cardinality(Queued(t)) = Cardinality(Queued(todo)) - 1
  BY TookCount
<1>2. Cardinality(Queued(todo)) \in Nat /\ Cardinality(Alive(h)) \in Nat /\ Len(todo) \in Nat
  BY CountFacts
<1>3. QED
  BY <1>1, <1>2 DEF Counted

(* t2 is t with a state, numbered n and not seen before, whose edges are q. *)
StackedNew(e, t, n, q, t2) ==
  /\ Took(edges, h, root, todo, e, t) /\ h[e.dst] = 0
  /\ q \in Seq(Edge) /\ IsInjective(q) /\ ToSet(q) \subseteq succ_iter(edges, e.dst)
  /\ t2 = Append(t, [s |-> e.dst, n |-> n, q |-> q])

(* The edges in the queues when the ones out of a new state are queued.    *)
LEMMA QueuedStacked ==
  ASSUME SearchInv, edges \in SUBSET Edge, NEW e, NEW t, NEW n, NEW q, NEW t2,
         StackedNew(e, t, n, q, t2)
  PROVE  /\ Len(t2) = Len(todo) + 1
         /\ Cardinality(Queued(t2)) = Cardinality(Queued(todo)) - 1 + Len(q)
<1> DEFINE x == [s |-> e.dst, n |-> n, q |-> q]
<1>0. /\ Took(edges, h, root, todo, e, t) /\ h[e.dst] = 0
      /\ x.q \in Seq(Edge) /\ IsInjective(x.q) /\ ToSet(x.q) \subseteq succ_iter(edges, e.dst)
      /\ t2 = Append(t, x) /\ x.q = q
  BY DEF StackedNew
<1> HIDE DEF x
<1> USE <1>0
<1>1. /\ Len(t) = Len(todo) /\ IsFiniteSet(Queued(t)) /\ Cardinality(Queued(t)) \in Nat
      /\ Cardinality(Queued(t)) = Cardinality(Queued(todo)) - 1
  BY TookCount
<1>2. SearchPath(h, root, t) /\ Queues(edges, h, root, t)
  BY DEF Took
<1>3. t \in Seq(Todo) /\ Len(t) \in Nat /\ DOMAIN t = 1 .. Len(t)
  BY <1>2 DEF SearchPath
<1>4. Len(t2) = Len(todo) + 1 /\ DOMAIN t2 = 1 .. Len(t) + 1
      /\ t2[Len(t) + 1] = x /\ \A k \in 1 .. Len(t) : t2[k] = t[k]
  BY <1>1, <1>3
<1>5. Queued(t2) = Queued(t) \cup ToSet(x.q)
  <2>1. \A k : k \in 1 .. Len(t) + 1 <=> k \in 1 .. Len(t) \/ k = Len(t) + 1
    BY <1>3
  <2>2. \A z : (\E k \in 1 .. Len(t) + 1 : z \in ToSet(t2[k].q))
                 <=> z \in ToSet(x.q) \/ \E k \in 1 .. Len(t) : z \in ToSet(t[k].q)
    BY <1>4, <2>1
  <2>3. QED
    BY <1>3, <1>4, <2>2 DEF Queued
<1>6. Queued(t) \cap ToSet(x.q) = {}
  <2>1. ASSUME NEW f \in Queued(t) PROVE h[f.src] > 0
    BY <1>2, <1>3, <2>1 DEF Queues, Queued
  <2>2. \A f \in ToSet(x.q) : f.src = e.dst
    BY DEF succ_iter
  <2>3. QED
    BY <2>1, <2>2
<1>7. IsFiniteSet(ToSet(x.q)) /\ Cardinality(ToSet(x.q)) = Len(x.q) /\ Len(x.q) \in Nat
  BY OnceLength
<1>8. Cardinality(Queued(t) \cup ToSet(x.q))
        = Cardinality(Queued(t)) + Cardinality(ToSet(x.q)) - Cardinality(Queued(t) \cap ToSet(x.q))
  BY <1>1, <1>7, FS_Union
<1>9. Cardinality(Queued(t) \cap ToSet(x.q)) = 0
  BY <1>6, FS_EmptySet
<1>10. Cardinality(Queued(t2)) = Cardinality(Queued(t) \cup ToSet(x.q))
  BY <1>5
<1>11. Cardinality(Queued(todo)) \in Nat
  BY CountFacts
<1>12. Cardinality(Queued(t2)) = Cardinality(Queued(todo)) - 1 + Len(x.q)
  BY ONLY <1>1, <1>7, <1>8, <1>9, <1>10, <1>11
<1>13. QED
  BY <1>4, <1>12

(* A new state is stacked, with a component that remembers nothing.        *)
LEMMA CountNew ==
  ASSUME SearchInv, edges \in SUBSET Edge, NEW e, NEW t, Took(edges, h, root, todo, e, t),
         h[e.dst] = 0, NEW n \in Nat \ {0}, NEW hh2, hh2 = [h EXCEPT ![e.dst] = n],
         NEW q \in Seq(Edge), IsInjective(q), ToSet(q) \subseteq succ_iter(edges, e.dst),
         NEW r2, r2 = Append(root, connected_component(n)),
         NEW t2, t2 = Append(t, [s |-> e.dst, n |-> n, q |-> q]), Counted(h, root, todo, depth)
  PROVE  Counted(hh2, r2, t2, IF o.shy THEN depth - 1 + Len(q) + 1 ELSE depth + 1)
<1>1. /\ IsFiniteSet(Alive(h)) /\ Cardinality(Alive(h)) \in Nat /\ Len(todo) \in Nat
      /\ Cardinality(Queued(todo)) \in Nat /\ h \in [State -> Int]
  BY CountFacts
<1>2. e \in edges /\ Roots(h, root)
  BY DEF Took, SearchInv
<1>3. e.dst \in State
  BY <1>2 DEF Edge
<1>4. Cardinality(Alive(hh2)) = Cardinality(Alive(h)) + 1
  <2>1. \A s \in State : hh2[s] > 0 <=> h[s] > 0 \/ s = e.dst
    BY <1>1, <1>3
  <2>2. Alive(hh2) = Alive(h) \cup {e.dst} /\ e.dst \notin Alive(h)
    BY <1>3, <2>1 DEF Alive
  <2>3. QED
    BY ONLY <1>1, <2>2, FS_AddElement
<1>5. Len(t2) = Len(todo) + 1 /\ Cardinality(Queued(t2)) = Cardinality(Queued(todo)) - 1 + Len(q)
  <2>1. StackedNew(e, t, n, q, t2)
    BY DEF StackedNew
  <2>2. SearchInv /\ edges \in SUBSET Edge
    OBVIOUS
  <2>3. QED
    BY ONLY <2>1, <2>2, QueuedStacked
<1>6. RemOnce(r2)
  <2>1. root \in Seq(Component) /\ Len(root) \in Nat
    BY <1>2 DEF Roots
  <2>2. /\ Len(r2) = Len(root) + 1 /\ \A i \in 1 .. Len(root) : r2[i] = root[i]
        /\ r2[Len(root) + 1].rem = << >>
    BY <2>1 DEF connected_component
  <2>3. IsInjective(<< >>)
    BY DEF IsInjective
  <2>4. \A i \in 1 .. Len(r2) : i \in 1 .. Len(root) \/ i = Len(root) + 1
    BY <2>1, <2>2
  <2>5. QED
    BY <2>2, <2>3, <2>4 DEF RemOnce, Counted
<1> DEFINE A == Cardinality(Alive(h))
           A2 == Cardinality(Alive(hh2))
           Q == Cardinality(Queued(todo))
           Q2 == Cardinality(Queued(t2))
           n1 == Len(todo)
<1>7. /\ A \in Nat /\ Q \in Nat /\ n1 \in Nat /\ Len(q) \in Nat
      /\ A2 = A + 1 /\ Q2 = Q - 1 + Len(q) /\ Len(t2) = n1 + 1
      /\ depth = (IF o.poprem THEN A ELSE n1) + (IF o.shy THEN Q ELSE 0)
  BY <1>1, <1>4, <1>5 DEF Counted
<1> HIDE DEF A, A2, Q, Q2, n1
<1>8. (IF o.shy THEN depth - 1 + Len(q) + 1 ELSE depth + 1)
        = (IF o.poprem THEN A2 ELSE Len(t2)) + (IF o.shy THEN Q2 ELSE 0)
  <2>1. CASE o.shy /\ o.poprem
    BY ONLY <1>7, <2>1
  <2>2. CASE o.shy /\ ~o.poprem
    BY ONLY <1>7, <2>2
  <2>3. CASE ~o.shy /\ o.poprem
    BY ONLY <1>7, <2>3
  <2>4. CASE ~o.shy /\ ~o.poprem
    BY ONLY <1>7, <2>4
  <2>5. QED
    BY <2>1, <2>2, <2>3, <2>4
<1>9. QED
  BY <1>6, <1>8 DEF Counted, A2, Q2

(* Different components remember different states.                         *)
LEMMA RemApart ==
  ASSUME NEW hh \in [State -> Int], NEW r, NEW t, Roots(hh, r), Remembered(hh, r, t)
  PROVE  \A i, j \in 1 .. Len(r) : i # j => ToSet(r[i].rem) \cap ToSet(r[j].rem) = {}
<1> SUFFICES ASSUME NEW i \in 1 .. Len(r), NEW j \in 1 .. Len(r), i # j,
                    NEW z \in ToSet(r[i].rem), z \in ToSet(r[j].rem)
             PROVE  FALSE
  OBVIOUS
<1>1. z \in Scc(hh, r, i) /\ z \in Scc(hh, r, j)
  BY DEF Remembered
<1>2. QED
  BY <1>1, SccsAreDisjoint

(* What the merged components remember is remembered once.                 *)
LEMMA SplicedOnce ==
  ASSUME root \in Seq(Component), RemOnce(root), NEW k \in 1 .. Len(root),
         \A i, j \in 1 .. Len(root) : i # j => ToSet(root[i].rem) \cap ToSet(root[j].rem) = {}
  PROVE  IF o.poprem
         THEN IsInjective(root[k].rem \o Spliced(k))
         ELSE root[k].rem \o Spliced(k) = << >>
<1> DEFINE N == Len(root)
           ss == [i \in 1 .. N - k |-> root[N + 1 - i].rem]
<1>1. N \in Nat /\ k \in 1 .. N /\ N - k \in Nat /\ k \in Nat
  OBVIOUS
<1>2. \A i \in 1 .. N : root[i].rem \in Seq(State)
  <2> SUFFICES ASSUME NEW i \in 1 .. N PROVE root[i].rem \in Seq(State)
    OBVIOUS
  <2>1. root[i] \in Component
    OBVIOUS
  <2>2. QED
    BY <2>1 DEF Component
<1>3. \A i \in 1 .. N - k : N + 1 - i \in k + 1 .. N /\ N + 1 - i \in 1 .. N
  BY <1>1
<1>4. /\ ss \in Seq(Seq(State)) /\ Len(ss) = N - k
      /\ \A i \in 1 .. N - k : ss[i] = root[N + 1 - i].rem
  BY <1>1, <1>2, <1>3
<1>5. Spliced(k) = FlattenSeq(ss)
  BY DEF Spliced
<1>6. /\ Spliced(k) \in Seq(State)
      /\ ToSet(Spliced(k)) = UNION {ToSet(root[i].rem) : i \in k + 1 .. N}
  BY SplicedFacts
<1>7. \A i \in 1 .. N : IF o.poprem THEN IsInjective(root[i].rem) ELSE root[i].rem = << >>
  BY DEF RemOnce
<1>8. \A i, j \in 1 .. N : i # j => ToSet(root[i].rem) \cap ToSet(root[j].rem) = {}
  OBVIOUS
<1> HIDE DEF N, ss
<1>9. CASE o.poprem
  <2>1. \A i \in 1 .. Len(ss) : IsInjective(ss[i])
    BY <1>3, <1>4, <1>7, <1>9
  <2>2. \A i, j \in 1 .. Len(ss) : i # j => ToSet(ss[i]) \cap ToSet(ss[j]) = {}
    <3> SUFFICES ASSUME NEW i \in 1 .. Len(ss), NEW j \in 1 .. Len(ss), i # j
                 PROVE  ToSet(ss[i]) \cap ToSet(ss[j]) = {}
      OBVIOUS
    <3>1. i \in 1 .. N - k /\ j \in 1 .. N - k
      BY <1>4
    <3>2. N + 1 - i # N + 1 - j
      BY <1>1, <3>1
    <3>3. QED
      BY <1>3, <1>4, <1>8, <3>1, <3>2
  <2>3. IsInjective(FlattenSeq(ss))
    BY <1>4, <2>1, <2>2, FlatQueues
  <2>4. ToSet(root[k].rem) \cap ToSet(Spliced(k)) = {}
    <3> SUFFICES ASSUME NEW z \in ToSet(Spliced(k)), z \in ToSet(root[k].rem) PROVE FALSE
      OBVIOUS
    <3>1. PICK i \in k + 1 .. N : z \in ToSet(root[i].rem)
      BY <1>6
    <3>2. i \in 1 .. N /\ i # k
      BY <1>1
    <3>3. QED
      BY <1>1, <1>8, <3>1, <3>2
  <2>5. IsInjective(root[k].rem) /\ root[k].rem \in Seq(State)
    BY <1>1, <1>2, <1>7, <1>9
  <2>6. IsInjective(root[k].rem \o Spliced(k))
    BY ONLY <1>5, <1>6, <2>3, <2>4, <2>5, JoinQueues
  <2>7. QED
    BY <1>9, <2>6
<1>10. CASE ~o.poprem
  <2>1. \A i \in 1 .. N : root[i].rem = << >>
    BY <1>7, <1>10
  <2>2. ToSet(<< >>) = {}
    BY DEF ToSet
  <2>3. ToSet(Spliced(k)) = {}
    <3>1. \A i \in k + 1 .. N : i \in 1 .. N
      BY <1>1
    <3>2. QED
      BY <1>6, <2>1, <2>2, <3>1
  <2>4. Spliced(k) = << >>
    <3>1. Len(Spliced(k)) \in Nat /\ DOMAIN Spliced(k) = 1 .. Len(Spliced(k))
      BY <1>6
    <3>2. \A i \in 1 .. Len(Spliced(k)) : Spliced(k)[i] \in ToSet(Spliced(k))
      BY <3>1 DEF ToSet
    <3>3. ~(1 \in 1 .. Len(Spliced(k)))
      BY <2>3, <3>2
    <3>4. Len(Spliced(k)) = 0
      BY ONLY <3>1, <3>3
    <3>5. QED
      BY ONLY <1>6, <3>4
  <2>5. QED
    BY <1>1, <1>10, <2>1, <2>4
<1>11. QED
  BY <1>9, <1>10

(* What the components remember after a merge.                             *)
LEMMA MergedOnce ==
  ASSUME SearchInv, RemOnce(root), NEW e, h[e.dst] > 0, e.dst \in State
  PROVE  RemOnce(Merged(h[e.dst], e.acc))
<1> DEFINE N == Len(root)
           k == Stop(h[e.dst])
           r1 == SubSeq(root, 1, k)
           m2 == root[k].rem \o Spliced(k)
           c == r1[k].condition \cup e.acc \cup Gathered(k)
           r2 == Merged(h[e.dst], e.acc)
<1>1. h \in [State -> Int] /\ Roots(h, root) /\ (o.poprem => Remembered(h, root, todo))
  BY DEF SearchInv, Orders
<1>2. root \in Seq(Component) /\ N \in Nat
  BY <1>1 DEF Roots
<1>3. k \in 1 .. N
  BY <1>1, StopFacts
<1>4. r1 \in Seq(Component) /\ Len(r1) = k /\ \A i \in 1 .. k : r1[i] = root[i]
  <2> HIDE DEF k
  <2>1. k \in Int /\ \A i \in 1 .. k : root[i] \in Component
    BY <1>2, <1>3
  <2>2. QED
    BY ONLY <1>3, <2>1, SubSeqProperties
<1>5. r2 = [[r1 EXCEPT ![k].condition = c] EXCEPT ![k].rem = @ \o Spliced(k)]
  BY ONLY DEF Merged
<1>6. IF o.poprem THEN IsInjective(m2) ELSE m2 = << >>
  <2>1. \A i, j \in 1 .. N : i # j => ToSet(root[i].rem) \cap ToSet(root[j].rem) = {}
    <3>1. CASE o.poprem
      BY <1>1, <3>1, RemApart
    <3>2. CASE ~o.poprem
      <4>1. \A i \in 1 .. N : root[i].rem = << >>
        BY <3>2 DEF RemOnce
      <4>2. ToSet(<< >>) = {}
        BY DEF ToSet
      <4>3. QED
        BY <4>1, <4>2
    <3>3. QED
      BY <3>1, <3>2
  <2>2. QED
    BY <1>2, <1>3, <2>1, SplicedOnce
<1>7. k \in 1 .. k /\ DOMAIN r1 = 1 .. k /\ r1[k] = root[k] /\ root[k] \in Component
  BY <1>2, <1>3, <1>4
<1> HIDE DEF k, r1, c, r2, N
<1>8. Len(r2) = k /\ r2[k].rem = m2 /\ \A i \in 1 .. k : i # k => r2[i] = root[i]
  <2> DEFINE y == [r1[k] EXCEPT !.condition = c]
             x == [y EXCEPT !.rem = @ \o Spliced(k)]
  <2>1. r2 = [r1 EXCEPT ![k] = x]
    BY <1>5, <1>7
  <2>2. x.rem = m2
    BY <1>7 DEF Component
  <2> HIDE DEF x, m2
  <2>3. DOMAIN r2 = 1 .. k /\ r2[k] = x /\ \A i \in 1 .. k : i # k => r2[i] = root[i]
    BY <1>4, <1>7, <2>1
  <2>4. Len(r2) = k
    BY <1>3, <1>4, <2>1
  <2>5. QED
    BY <2>2, <2>3, <2>4
<1> HIDE DEF m2
<1>9. \A i \in 1 .. k : i \in 1 .. N
  BY <1>2, <1>3
<1>10. RemOnce(r2)
  BY <1>6, <1>8, <1>9 DEF RemOnce, N
<1>11. QED
  BY <1>10 DEF r2

(* A component that remembers states it did not remember remembers each    *)
(* once.                                                                   *)
LEMMA RemAddedOnce ==
  ASSUME NEW r \in Seq(Component), r # << >>, NEW p \in Seq(State), NEW r2, RemPrepended(r, p, r2),
         o.poprem, RemOnce(r), IsInjective(p), ToSet(p) \cap ToSet(r[Len(r)].rem) = {}
  PROVE  RemOnce(r2) /\ Len(r2) = Len(r)
<1> DEFINE N == Len(r)
           m == p \o r[N].rem
           x == [r[N] EXCEPT !.rem = m]
<1>1. N \in Nat \ {0} /\ N \in 1 .. N /\ DOMAIN r = 1 .. N
  OBVIOUS
<1>2. r[N] \in Component /\ r[N].rem \in Seq(State) /\ IsInjective(r[N].rem)
  <2>1. r[N] \in Component
    BY <1>1
  <2>2. QED
    BY <1>1, <2>1 DEF Component, RemOnce
<1>3. IsInjective(m)
  BY <1>2, JoinQueues
<1>4. x.rem = m
  BY <1>2 DEF Component
<1>5. r2 = [r EXCEPT ![N] = x]
  BY <1>1 DEF RemPrepended
<1>6. \A i \in 1 .. N : IsInjective(r[i].rem)
  BY DEF RemOnce
<1> HIDE DEF x, m
<1>7. Len(r2) = N /\ r2[N] = x /\ \A i \in 1 .. N : i # N => r2[i] = r[i]
  <2> HIDE DEF N
  <2>1. DOMAIN r2 = 1 .. N /\ r2[N] = x /\ \A i \in 1 .. N : i # N => r2[i] = r[i]
    BY ONLY <1>1, <1>5
  <2>2. Len(r2) = N
    BY ONLY <1>1, <2>1
  <2>3. QED
    BY <2>1, <2>2
<1>8. \A i \in 1 .. Len(r2) : IsInjective(r2[i].rem)
  BY <1>3, <1>4, <1>6, <1>7
<1>9. QED
  BY <1>7, <1>8 DEF RemOnce

(* The states above k on the path are different.                           *)
LEMMA StatesAbove ==
  ASSUME NEW hh \in [State -> Int], NEW r, NEW t, Roots(hh, r), SearchPath(hh, r, t),
         NEW k \in 1 .. Len(t), NEW q, q = [i \in 1 .. Len(t) - k |-> t[k + i].s]
  PROVE  /\ q \in Seq(State) /\ Len(q) = Len(t) - k /\ IsInjective(q)
         /\ ToSet(q) \subseteq OnPath(t)
<1>1. /\ Len(t) \in Nat /\ k \in 1 .. Len(t)
      /\ \A i \in 1 .. Len(t) : t[i].s \in State /\ t[i].n \in Nat /\ hh[t[i].s] = t[i].n
  BY PathFacts
<1>2. \A i, j \in 1 .. Len(t) : i < j => t[i].n < t[j].n
  BY DEF SearchPath
<1> DEFINE n == Len(t)
<1> HIDE DEF n
<1>3. n \in Nat /\ k \in 1 .. n /\ n - k \in Nat
  BY <1>1 DEF n
<1>4. \A i \in 1 .. n - k : k + i \in 1 .. n
  BY <1>3
<1>5. q \in Seq(State) /\ Len(q) = n - k /\ DOMAIN q = 1 .. n - k /\ \A i \in 1 .. n - k : q[i] = t[k + i].s
  BY <1>1, <1>3, <1>4 DEF n
<1>6. IsInjective(q)
  <2> DEFINE D == 1 .. n - k
  <2>1. DOMAIN q = D
    BY <1>5
  <2>2. ASSUME NEW i \in D, NEW j \in D, q[i] = q[j] PROVE i = j
    <3>1. k + i \in 1 .. n /\ k + j \in 1 .. n
      BY <1>4
    <3>2. t[k + i].s = t[k + j].s
      BY <1>5, <2>2
    <3>3. t[k + i].n \in Nat /\ t[k + i].n = t[k + j].n
      BY <1>1, <3>1, <3>2 DEF n
    <3>4. ~(k + i < k + j) /\ ~(k + j < k + i)
      <4>1. \A l, m \in 1 .. n : l < m => t[l].n < t[m].n
        BY <1>2 DEF n
      <4>2. QED
        BY ONLY <3>1, <3>3, <4>1
    <3>5. QED
      BY <1>3, <3>4
  <2> HIDE DEF D
  <2>3. QED
    BY ONLY <2>1, <2>2, OnceIf
<1>7. ToSet(q) \subseteq OnPath(t)
  BY <1>4, <1>5 DEF ToSet, OnPath, n
<1>8. QED
  BY <1>5, <1>6, <1>7 DEF n

(* Grouping leaves the same edges in the queues.                           *)
LEMMA GroupedQueues ==
  ASSUME edges \in SUBSET Edge, h \in [State -> Int], NEW e, NEW t, NEW r2, NEW a2,
         MergeStep(e, t, r2, a2), NEW k, k = Kept(t, Last(r2)), NEW t2, t2 = Grouped(t, k)
  PROVE  /\ k \in 1 .. Len(t) /\ t \in Seq(Todo) /\ Len(t) \in Nat
         /\ Queued(t2) = Queued(t) /\ Len(t2) = k
<1>1. r2 # << >> /\ Roots(h, r2) /\ SearchPath(h, r2, t) /\ Queues(edges, h, r2, t)
  BY DEF MergeStep
<1>2. t \in Seq(Todo) /\ Len(t) \in Nat
  BY <1>1 DEF SearchPath
<1>3. k \in 1 .. Len(t) /\ t[k].n = r2[Len(r2)].index
  BY <1>1, KeptFacts
<1>4. GroupedInto(t, k, t2)
  BY <1>1, <1>2, <1>3, GroupedFacts
<1>5. /\ t2 \in Seq(Todo) /\ Len(t2) = k /\ \A l \in 1 .. k - 1 : t2[l] = t[l]
      /\ ToSet(t2[k].q) = UNION {ToSet(t[l].q) : l \in k .. Len(t)}
  BY <1>4 DEF GroupedInto
<1>6. DOMAIN t = 1 .. Len(t) /\ DOMAIN t2 = 1 .. k /\ k \in Nat
  BY <1>2, <1>3, <1>5
<1>7. Queued(t2) = Queued(t)
  <2>1. \A l : l \in 1 .. Len(t) <=> l \in 1 .. k - 1 \/ l \in k .. Len(t)
    BY ONLY <1>2, <1>3
  <2>2. \A l : l \in 1 .. k <=> l \in 1 .. k - 1 \/ l = k
    BY ONLY <1>2, <1>3
  <2>3. \A z : z \in ToSet(t2[k].q) <=> \E l \in k .. Len(t) : z \in ToSet(t[l].q)
    BY ONLY <1>5
  <2>4. \A l \in 1 .. k - 1 : t2[l].q = t[l].q
    BY ONLY <1>5
  <2>5. \A z : (\E l \in 1 .. k : z \in ToSet(t2[l].q))
                 <=> (\E l \in 1 .. k - 1 : z \in ToSet(t[l].q)) \/ z \in ToSet(t2[k].q)
    BY ONLY <2>2, <2>4
  <2>6. \A z : (\E l \in 1 .. Len(t) : z \in ToSet(t[l].q))
                 <=> (\E l \in 1 .. k - 1 : z \in ToSet(t[l].q))
                       \/ (\E l \in k .. Len(t) : z \in ToSet(t[l].q))
    BY ONLY <2>1
  <2>7. \A z : (\E l \in 1 .. k : z \in ToSet(t2[l].q)) <=> (\E l \in 1 .. Len(t) : z \in ToSet(t[l].q))
    BY ONLY <2>3, <2>5, <2>6
  <2>8. DOMAIN t2 = 1 .. k /\ DOMAIN t = 1 .. Len(t)
    BY <1>6
  <2>9. \A z : z \in Queued(t2) <=> z \in Queued(t)
    BY ONLY <2>7, <2>8 DEF Queued
  <2>10. QED
    BY ONLY <2>9
<1>8. QED
  BY <1>2, <1>3, <1>5, <1>7

(* States grouped leave the path to be remembered.                         *)
LEMMA CountGroup ==
  ASSUME edges \in SUBSET Edge, SearchInv, o.shy, NEW e, NEW t, NEW r2, NEW a2, MergeStep(e, t, r2, a2),
         Group(t, r2), Counted(h, r2, t, depth - 1)
  PROVE  Counted(h, root', todo', depth')
<1> DEFINE k == Kept(t, Last(r2))
           N == Len(r2)
           states == [i \in 1 .. Len(t) - k |-> t[k + i].s]
<1>1. /\ r2 # << >> /\ Roots(h, r2) /\ SearchPath(h, r2, t) /\ Queues(edges, h, r2, t)
      /\ (o.poprem => Remembered(h, r2, t))
  BY DEF MergeStep
<1>2. h \in [State -> Int]
  BY DEF SearchInv, Orders
<1>3. r2 \in Seq(Component) /\ N \in Nat \ {0}
  BY <1>1 DEF Roots
<1>4. /\ todo' = Grouped(t, k)
      /\ root' = IF o.poprem THEN [r2 EXCEPT ![N].rem = states \o @] ELSE r2
      /\ depth' = IF o.poprem THEN depth - 1 ELSE depth - 1 - Len(states)
  BY DEF Group
<1>5. /\ k \in 1 .. Len(t) /\ Len(t) \in Nat
      /\ Queued(todo') = Queued(t) /\ Len(todo') = k
  BY <1>2, <1>4, GroupedQueues
<1> HIDE DEF k, N
<1>6. /\ states \in Seq(State) /\ Len(states) = Len(t) - k /\ IsInjective(states)
      /\ ToSet(states) \subseteq OnPath(t)
  BY <1>1, <1>2, <1>5, StatesAbove
<1> HIDE DEF states
<1>7. /\ RemOnce(r2)
      /\ depth - 1 = (IF o.poprem THEN Cardinality(Alive(h)) ELSE Len(t)) + Cardinality(Queued(t))
  BY DEF Counted
<1>8. CASE o.poprem
  <2>1. ToSet(states) \cap ToSet(r2[N].rem) = {}
    <3>1. ToSet(r2[N].rem) \cap OnPath(t) = {}
      BY <1>1, <1>3, <1>8 DEF Remembered, N
    <3>2. QED
      BY <1>6, <3>1
  <2>2. RemPrepended(r2, states, root')
    BY <1>4, <1>8 DEF N, RemPrepended
  <2>3. RemOnce(root')
    BY <1>1, <1>3, <1>6, <1>7, <1>8, <2>1, <2>2, RemAddedOnce DEF N
  <2>4. QED
    BY <1>4, <1>5, <1>7, <1>8, <2>3 DEF Counted
<1>9. CASE ~o.poprem
  <2>1. root' = r2 /\ depth' = depth - 1 - (Len(t) - k) /\ depth - 1 = Len(t) + Cardinality(Queued(t))
    BY <1>4, <1>6, <1>7, <1>9
  <2>2. Cardinality(Queued(t)) \in Nat
    BY <1>1, QueuedLength DEF SearchPath, Queues
  <2>3. depth' = k + Cardinality(Queued(t))
    <3>1. k \in Nat
      BY <1>5
    <3>2. QED
      BY ONLY <1>5, <2>1, <2>2, <3>1
  <2>4. QED
    BY <1>5, <1>7, <1>9, <2>1, <2>3 DEF Counted
<1>10. QED
  BY <1>8, <1>9

(* clear_todo() leaves nothing (assert(depth() == 0)).                     *)
LEMMA CountCleared ==
  ASSUME SearchInv, o.shy, NEW e, NEW t, NEW r2, NEW a2, MergeStep(e, t, r2, a2),
         clear_todo(t, r2, depth - 1), Counted(h, r2, t, depth - 1)
  PROVE  depth' = 0
<1> DEFINE A == Cardinality(Alive(h))
           Q == Cardinality(Queued(t))
           n == Len(t)
           R == RemLen(r2)
<1>1. /\ Roots(h, r2) /\ SearchPath(h, r2, t) /\ Queues(edges, h, r2, t)
      /\ (o.poprem => Remembered(h, r2, t)) /\ h \in [State -> Int]
  BY DEF MergeStep, SearchInv, Orders
<1>2. /\ RemOnce(r2)
      /\ depth - 1 = (IF o.poprem THEN A ELSE n) + Q
  BY DEF Counted
<1>3. /\ o.poprem => R = A - n
      /\ ~o.poprem => R = 0
      /\ R \in Nat
  BY <1>1, <1>2, CouvreurAssumption, RemLength
<1>4. Len(FlattenSeq([i \in DOMAIN t |-> t[i].q])) = Q /\ Q \in Nat
  BY <1>1, QueuedLength DEF SearchPath, Queues
<1>5. depth' = depth - 1 - n - Q - R
  BY <1>4 DEF clear_todo, RemLen
<1>6. A \in Nat /\ n \in Nat
  BY <1>1, CountFacts, PathFacts
<1> HIDE DEF A, Q, n, R
<1>7. CASE o.poprem
  <2>1. R = A - n /\ depth - 1 = A + Q
    BY <1>2, <1>3, <1>7
  <2>2. QED
    BY ONLY <1>4, <1>5, <1>6, <2>1
<1>8. CASE ~o.poprem
  <2>1. R = 0 /\ depth - 1 = n + Q
    BY <1>2, <1>3, <1>8
  <2>2. QED
    BY ONLY <1>4, <1>5, <1>6, <2>1
<1>9. QED
  BY <1>7, <1>8

(* The edges in the queues when a state without edges has left.            *)
LEMMA QueuedPopped ==
  ASSUME NEW t \in Seq(Todo), NEW t2 \in Seq(Todo), Len(t) \in Nat \ {0}, t[Len(t)].q = << >>,
         Popped(t, t2)
  PROVE  Queued(t2) = Queued(t)
<1>1. Len(t2) = Len(t) - 1 /\ \A k \in 1 .. Len(t) - 1 : t2[k] = t[k]
  BY DEF Popped
<1>2. DOMAIN t = 1 .. Len(t) /\ DOMAIN t2 = 1 .. Len(t) - 1
  BY <1>1
<1>3. ToSet(t[Len(t)].q) = {}
  BY DEF ToSet
<1>4. /\ \A k \in 1 .. Len(t) - 1 : k \in 1 .. Len(t)
      /\ \A k \in 1 .. Len(t) : k = Len(t) \/ k \in 1 .. Len(t) - 1
  OBVIOUS
<1>5. \A z : (\E k \in DOMAIN t : z \in ToSet(t[k].q)) <=> (\E k \in DOMAIN t2 : z \in ToSet(t2[k].q))
  BY <1>1, <1>2, <1>3, <1>4
<1>6. QED
  BY <1>5 DEF Queued

(* A state leaves todo: with poprem it is remembered, until its component  *)
(* is removed.                                                             *)
LEMMA CountLeave ==
  ASSUME Leaving, Leave(Last(todo).s, Last(todo).n), Counted(h, root, todo, depth)
  PROVE  Counted(h', root', todo', depth')
<1> DEFINE curr == Last(todo).s
           N == Len(todo)
           M == Len(root)
           r == Remembering(curr)
           Q == IF o.shy THEN Cardinality(Queued(todo)) ELSE 0
<1>1. /\ Roots(h, root) /\ SearchPath(h, root, todo) /\ h \in [State -> Int]
      /\ root \in Seq(Component) /\ root # << >> /\ M \in Nat \ {0}
      /\ todo \in Seq(Todo) /\ N \in Nat \ {0} /\ todo[N].q = << >> /\ todo # << >>
      /\ todo' \in Seq(Todo) /\ Popped(todo, todo')
      /\ curr \in State /\ top = root[M]
  BY LeavingFacts
<1>2. /\ IF top.index = Last(todo).n
         THEN /\ arc' = Front(arc)
              /\ remove_component(curr, Last(r).rem, IF o.poprem THEN depth ELSE depth - 1)
              /\ root' = Front(r)
         ELSE root' = r /\ depth' = (IF o.poprem THEN depth ELSE depth - 1) /\ UNCHANGED <<h, arc>>
      /\ o' = o
  BY DEF Leave, Leaving
<1>3. SearchInv /\ (o.poprem => Remembered(h, root, todo))
  BY DEF Leaving, SearchInv
<1>4. /\ IsFiniteSet(Alive(h)) /\ Cardinality(Alive(h)) \in Nat /\ Q \in Nat
  BY <1>3, CountFacts
<1>5. Queued(todo') = Queued(todo) /\ Len(todo') = N - 1
  BY <1>1, QueuedPopped DEF Popped
<1>6. RemOnce(root) /\ depth = (IF o.poprem THEN Cardinality(Alive(h)) ELSE N) + Q
  BY DEF Counted
<1>7. /\ SameButRem(root, r) /\ \A i \in 1 .. M - 1 : r[i] = root[i]
      /\ o.poprem => ToSet(r[M].rem) = {curr} \cup ToSet(root[M].rem)
  BY <1>1, RememberingFacts
<1>8. r \in Seq(Component) /\ Len(r) = M /\ M \in 1 .. M
  BY <1>1, <1>7 DEF SameButRem
<1>9. curr \in OnPath(todo) /\ curr = todo[N].s /\ h[curr] > 0
  <2>1. curr = todo[N].s /\ N \in 1 .. N
    BY <1>1 DEF Last
  <2>2. h[todo[N].s] > 0
    <3>1. todo[N].n \in Nat \ {0} /\ h[todo[N].s] = todo[N].n
      BY <1>1, <2>1, PathFacts
    <3>2. QED
      BY <3>1
  <2>3. QED
    BY <2>1, <2>2 DEF OnPath
<1>10. RemOnce(r)
  <2>1. CASE o.poprem
    <3>1. RemPrepended(root, <<curr>>, r)
      BY <2>1 DEF Remembering, RemPrepended
    <3>2. <<curr>> \in Seq(State) /\ ToSet(<<curr>>) = {curr} /\ IsInjective(<<curr>>)
      BY <1>1 DEF ToSet, IsInjective
    <3>3. ToSet(root[M].rem) \cap OnPath(todo) = {}
      BY <1>3, <1>8, <2>1 DEF Remembered
    <3>4. ToSet(<<curr>>) \cap ToSet(root[M].rem) = {}
      BY <1>9, <3>2, <3>3
    <3> DEFINE p == <<curr>>
    <3>5. /\ RemPrepended(root, p, r) /\ p \in Seq(State) /\ IsInjective(p)
          /\ ToSet(p) \cap ToSet(root[Len(root)].rem) = {}
      BY <3>1, <3>2, <3>4
    <3> HIDE DEF p
    <3>6. root \in Seq(Component) /\ root # << >> /\ RemOnce(root)
      BY <1>1, <1>6
    <3>7. QED
      BY ONLY <2>1, <3>5, <3>6, RemAddedOnce
  <2>2. CASE ~o.poprem
    BY <1>6, <2>2 DEF Remembering
  <2>3. QED
    BY <2>1, <2>2
<1> HIDE DEF r, curr, M, N, Q
<1>11. CASE top.index # Last(todo).n
  <2>1. root' = r /\ h' = h /\ depth' = (IF o.poprem THEN depth ELSE depth - 1)
    BY <1>2, <1>11
  <2>2. depth' = (IF o.poprem THEN Cardinality(Alive(h)) ELSE N - 1) + Q
    BY <1>1, <1>4, <1>6, <2>1
  <2>3. QED
    BY <1>5, <1>10, <2>1, <2>2 DEF Counted, Q
<1>12. CASE top.index = Last(todo).n
  <2> DEFINE m == r[M].rem
  <2>1. /\ root' = Front(r)
        /\ h' = [s \in State |-> IF s \in Removed(curr, m) THEN -1 ELSE h[s]]
        /\ depth' = IF o.poprem THEN depth - Len(m) ELSE depth - 1
    <3>1. Last(r) = r[M]
      BY <1>8 DEF Last
    <3>2. remove_component(curr, m, IF o.poprem THEN depth ELSE depth - 1) /\ root' = Front(r)
      BY <1>2, <1>12, <3>1
    <3>3. QED
      BY <3>2 DEF remove_component
  <2>2. Popped(r, root')
    BY <1>1, <1>8, <2>1, PoppedFront
  <2>3. RemOnce(root')
    <3>1. \A i \in 1 .. M - 1 : i \in 1 .. M
      BY <1>1
    <3>2. QED
      BY <1>8, <1>10, <2>2, <3>1 DEF RemOnce, Popped
  <2>4. CASE o.poprem
    <3>1. r[M] \in Component
      BY <1>8
    <3>2. m \in Seq(State) /\ IsInjective(m)
      BY <1>8, <1>10, <2>4, <3>1 DEF Component, RemOnce
    <3>3. IsFiniteSet(ToSet(m)) /\ Cardinality(ToSet(m)) = Len(m) /\ Len(m) \in Nat
      BY <3>2, OnceLength
    <3>4. ToSet(m) \subseteq Alive(h)
      <4>1. ToSet(root[M].rem) \subseteq Scc(h, root, M)
        BY <1>3, <1>8, <2>4 DEF Remembered, M
      <4>2. \A s \in Scc(h, root, M) : s \in State /\ h[s] > 0
        BY <1>1, <1>8, SccFacts DEF M
      <4>3. QED
        BY <1>1, <1>7, <1>9, <2>4, <4>1, <4>2 DEF Alive
    <3>5. Alive(h') = Alive(h) \ ToSet(m)
      <4>1. \A s \in State : h'[s] > 0 <=> h[s] > 0 /\ s \notin ToSet(m)
        BY <1>1, <2>1, <2>4 DEF Removed
      <4>2. QED
        BY <4>1 DEF Alive
    <3>6. Cardinality(Alive(h')) = Cardinality(Alive(h)) - Len(m)
      <4>1. Cardinality(Alive(h) \ ToSet(m)) = Cardinality(Alive(h)) - Cardinality(Alive(h) \cap ToSet(m))
        BY <1>4, FS_Difference
      <4>2. Alive(h) \cap ToSet(m) = ToSet(m)
        BY <3>4
      <4>3. QED
        BY <3>3, <3>5, <4>1, <4>2
    <3>7. depth' = Cardinality(Alive(h')) + Q
      <4>1. depth' = depth - Len(m) /\ depth = Cardinality(Alive(h)) + Q
        BY <1>6, <2>1, <2>4
      <4>2. QED
        BY ONLY <1>4, <3>3, <3>6, <4>1
    <3>8. QED
      BY <1>5, <2>3, <2>4, <3>7 DEF Counted, Q
  <2>5. CASE ~o.poprem
    <3>1. depth' = depth - 1 /\ depth = N + Q
      BY <1>6, <2>1, <2>5
    <3>2. depth' = N - 1 + Q
      BY ONLY <1>1, <1>4, <3>1
    <3>3. QED
      BY <1>5, <2>3, <2>5, <3>2 DEF Counted, Q
  <2>6. QED
    BY <2>4, <2>5
<1>13. QED
  BY <1>11, <1>12

(* Only the initial state is numbered, and stacked.                        *)
LEMMA CountFirst ==
  ASSUME NEW n \in Nat \ {0}, NEW hh \in [State -> Int], hh[s0] = n,
         \A s \in State : s # s0 => hh[s] = 0,
         NEW q \in Seq(Edge), IsInjective(q),
         NEW t, t = << [s |-> s0, n |-> n, q |-> q] >>
  PROVE  Counted(hh, <<connected_component(n)>>, t, IF o.shy THEN Len(q) + 1 ELSE 1)
<1> DEFINE r == <<connected_component(n)>>
<1>1. s0 \in State
  BY TwaAssumption
<1>2. Alive(hh) = {s0}
  BY <1>1 DEF Alive
<1>3. Cardinality(Alive(hh)) = 1
  BY <1>2, FS_Singleton
<1>4. Len(t) = 1 /\ DOMAIN t = {1} /\ t[1].q = q
  OBVIOUS
<1>5. Queued(t) = ToSet(q)
  BY <1>4 DEF Queued
<1>6. Cardinality(Queued(t)) = Len(q) /\ Len(q) \in Nat
  BY <1>5, OnceLength
<1>7. RemOnce(r)
  <2>1. \A i \in 1 .. Len(r) : r[i].rem = << >>
    BY DEF connected_component
  <2>2. IsInjective(<< >>)
    BY DEF IsInjective
  <2>3. QED
    BY <2>1, <2>2 DEF RemOnce
<1> HIDE DEF r
<1>8. (IF o.shy THEN Len(q) + 1 ELSE 1)
        = (IF o.poprem THEN Cardinality(Alive(hh)) ELSE Len(t))
            + (IF o.shy THEN Cardinality(Queued(t)) ELSE 0)
  <2> DEFINE a == IF o.poprem THEN Cardinality(Alive(hh)) ELSE Len(t)
  <2>1. a = 1
    BY <1>3, <1>4
  <2> HIDE DEF a
  <2>2. CASE o.shy
    <3>1. Len(q) + 1 = a + Cardinality(Queued(t))
      BY ONLY <1>6, <2>1
    <3>2. QED
      BY <2>2, <3>1 DEF a
  <2>3. CASE ~o.shy
    <3>1. 1 = a + 0
      BY ONLY <2>1
    <3>2. QED
      BY <2>3, <3>1 DEF a
  <2>4. QED
    BY <2>2, <2>3
<1>9. Counted(hh, r, t, IF o.shy THEN Len(q) + 1 ELSE 1)
  BY <1>7, <1>8 DEF Counted
<1>10. QED
  BY <1>9 DEF r

-----------------------------------------------------------------------------
(* The depth                                                               *)

(* depth counts what todo and rem hold, from the first state stacked until *)
(* check() returns, when clear_todo() has left nothing.                    *)
DepthInv ==
  /\ pc = "call" /\ ~o.shy => depth = 0
  /\ Searching => Counted(h, root, todo, depth)
  /\ o.shy /\ (result = "run" \/ (result = "null" /\ ~o.poprem /\ ~is_f)) => depth = 0

(* The depth of a check that was just built.                               *)
LEMMA DepthInitially ==
  ASSUME Init
  PROVE  DepthInv
<1>1. pc = "call" /\ result = "none" /\ edges \in SUBSET Edge /\ IsFiniteSet(edges)
  BY CouvreurAssumption DEF Init, couvreur99_check, couvreur99_check_shy
<1>2. CASE couvreur99_check
  BY <1>1, <1>2 DEF couvreur99_check, DepthInv, Searching
<1>3. CASE couvreur99_check_shy
  <2>1. PICK t \in todo_items(s0, 2) : todo = <<t>> /\ depth = Len(t.q) + 1
    BY <1>3 DEF couvreur99_check_shy
  <2>2. PICK q \in SetToSeqs(succ_iter(Live(edges), s0)) : t = [s |-> s0, n |-> 2, q |-> q]
    BY <2>1 DEF todo_items
  <2>3. s0 \in State /\ Live(edges) \subseteq edges
    BY TwaAssumption DEF Live
  <2>4. q \in Seq(Edge) /\ IsInjective(q)
    BY <1>1, <2>3, NewQueueFacts
  <2>5. /\ h = [s \in State |-> IF s = s0 THEN 2 ELSE 0] /\ root = <<connected_component(2)>> /\ o.shy
    BY <1>3 DEF couvreur99_check_shy
  <2>6. h \in [State -> Int] /\ h[s0] = 2 /\ \A s \in State : s # s0 => h[s] = 0
    BY <2>3, <2>5
  <2>7. todo = << [s |-> s0, n |-> 2, q |-> q] >> /\ depth = Len(q) + 1
    BY <2>1, <2>2
  <2>8. Counted(h, <<connected_component(2)>>, todo, IF o.shy THEN Len(q) + 1 ELSE 1)
    BY <2>4, <2>6, <2>7, CountFirst
  <2>9. Counted(h, root, todo, depth)
    BY <2>5, <2>7, <2>8
  <2>10. QED
    BY <1>1, <2>5, <2>9 DEF DepthInv
<1>4. QED
  BY <1>2, <1>3 DEF Init

(* check() goes on.                                                        *)
LEMMA DepthGoesOn ==
  ASSUME CheckInv, pc = "loop", UNCHANGED <<o, pc, result>>, Counted(h', root', todo', depth')
  PROVE  DepthInv'
<1>1. result' = "none" /\ pc' = "loop"
  BY DEF CheckInv
<1>2. Counted(h, root, todo, depth)'
  BY DEF Counted, RemOnce, Alive, Queued
<1>3. QED
  BY <1>1, <1>2 DEF DepthInv

(* The actions of couvreur99_check.                                        *)
LEMMA CheckDepth ==
  ASSUME CheckInv, DepthInv, check
  PROVE  DepthInv'
<1>1. edges \in SUBSET Edge /\ IsFiniteSet(edges)
  BY AutomataFacts
<1>2. ASSUME Loop
      PROVE  /\ pc = "loop" /\ ~o.shy /\ SearchInv /\ Counted(h, root, todo, depth) /\ RemOnce(root)
             /\ ~uses_fin_acceptance
  BY <1>2 DEF Loop, CheckInv, DepthInv, Searching, Counted
<1>3. CASE Check
  <2>1. CASE is_f
    BY <1>3, <2>1 DEF Check, Return, DepthInv, Searching
  <2>2. CASE ~is_f
    <3>1. /\ pc = "call" /\ ~o.shy /\ pc' = "loop" /\ h' = [h EXCEPT ![s0] = 1]
          /\ root' = Append(root, connected_component(1)) /\ depth' = depth + 1 /\ UNCHANGED <<o, result>>
      BY <1>3, <2>2 DEF Check
    <3>2. PICK q \in SetToSeqs(succ_iter(edges, s0)) : todo' = << [s |-> s0, n |-> 1, q |-> q] >>
      BY <1>3, <2>2 DEF Check
    <3>3. h = [s \in State |-> 0] /\ root = << >> /\ depth = 0
      BY <3>1 DEF CheckInv, DepthInv
    <3>4. s0 \in State
      BY TwaAssumption
    <3>5. q \in Seq(Edge) /\ IsInjective(q)
      BY <1>1, <3>4, NewQueueFacts
    <3>6. h' \in [State -> Int] /\ h'[s0] = 1 /\ \A s \in State : s # s0 => h'[s] = 0
      BY <3>1, <3>3, <3>4
    <3>7. Counted(h', <<connected_component(1)>>, todo', IF o.shy THEN Len(q) + 1 ELSE 1)
      BY <3>2, <3>5, <3>6, CountFirst
    <3>8. root' = <<connected_component(1)>> /\ depth' = 1
      BY <3>1, <3>3
    <3>9. Counted(h', root', todo', depth')
      BY <3>1, <3>7, <3>8
    <3>10. Counted(h, root, todo, depth)'
      BY <3>1, <3>9 DEF Counted, RemOnce, Alive, Queued
    <3>11. result' = "none"
      BY <3>1 DEF CheckInv
    <3>12. QED
      BY <3>1, <3>10, <3>11 DEF DepthInv
  <2>3. QED
    BY <2>1, <2>2
<1>4. CASE Backtrack
  <2>1. /\ Loop /\ todo # << >> /\ Last(todo).q = << >> /\ todo' = Front(todo)
        /\ Leave(Last(todo).s, h[Last(todo).s])
        /\ UNCHANGED <<edges, o, num, cycle_seed, pc, result>>
    BY <1>4 DEF Backtrack
  <2>2. Leaving
    BY <1>1, <1>2, <2>1 DEF Leaving
  <2>3. Leave(Last(todo).s, Last(todo).n)
    BY <2>1, <2>2, LeavingFacts
  <2>4. Counted(h', root', todo', depth')
    BY <1>2, <2>1, <2>2, <2>3, CountLeave
  <2>5. QED
    BY <1>2, <2>1, <2>4, DepthGoesOn
<1>5. ASSUME NEW e \in edges, Skip(e) \/ Dead(e)
      PROVE  DepthInv'
  <2>1. /\ On(e) /\ Loop /\ todo' = Moved
        /\ UNCHANGED <<edges, o, h, root, arc, num, depth, cycle_seed, pc, result>>
    BY <1>5 DEF Skip, Dead, On
  <2>2. Took(edges, h, root, todo, e, Moved)
    BY <1>1, <1>2, <2>1, MovedTook
  <2>3. Counted(h, root, Moved, IF o.shy THEN depth - 1 ELSE depth)
    BY <1>2, <2>1, <2>2, CountTake
  <2>4. Counted(h', root', todo', depth')
    BY <1>2, <2>1, <2>3
  <2>5. QED
    BY <1>2, <2>1, <2>4, DepthGoesOn
<1>6. ASSUME NEW e \in edges, NewState(e)
      PROVE  DepthInv'
  <2>1. /\ On(e) /\ Loop /\ h[e.dst] = 0 /\ num' = num + 1
        /\ h' = [h EXCEPT ![e.dst] = num + 1] /\ root' = Append(root, connected_component(num + 1))
        /\ depth' = depth + 1 /\ UNCHANGED <<o, pc, result>>
    BY <1>6 DEF NewState, On
  <2>2. PICK q \in SetToSeqs(succ_iter(edges, e.dst)) :
          todo' = Append(Moved, [s |-> e.dst, n |-> num + 1, q |-> q])
    BY <1>6, <2>1 DEF NewState
  <2>3. Took(edges, h, root, todo, e, Moved)
    BY <1>1, <1>2, <2>1, MovedTook
  <2>4. e.dst \in State
    BY <1>1 DEF Edge
  <2>5. q \in Seq(Edge) /\ IsInjective(q) /\ ToSet(q) \subseteq succ_iter(edges, e.dst)
    BY <1>1, <2>4, NewQueueFacts
  <2>6. num + 1 \in Nat \ {0}
    BY <1>2, <2>1 DEF SearchInv, Orders
  <2>7. Counted(h', root', todo', IF o.shy THEN depth - 1 + Len(q) + 1 ELSE depth + 1)
    BY <1>1, <1>2, <2>1, <2>2, <2>3, <2>5, <2>6, CountNew
  <2>8. Counted(h', root', todo', depth')
    BY <1>2, <2>1, <2>7
  <2>9. QED
    BY <1>2, <2>1, <2>8, DepthGoesOn
<1>7. ASSUME NEW e \in edges, Merge(e)
      PROVE  DepthInv'
  <2>1. /\ On(e) /\ Loop /\ h[e.dst] > 0 /\ root' = Merged(h[e.dst], e.acc) /\ UNCHANGED <<o, h>>
    BY <1>7 DEF Merge, On
  <2>2. CASE accepting(Last(root').condition)
    BY <1>2, <1>7, <2>1, <2>2 DEF Merge, Return, DepthInv, Searching
  <2>3. CASE ~accepting(Last(root').condition)
    <3>1. todo' = Moved /\ UNCHANGED <<depth, cycle_seed, pc, result>>
      BY <1>7, <2>3 DEF Merge
    <3>2. Took(edges, h, root, todo, e, Moved)
      BY <1>1, <1>2, <2>1, MovedTook
    <3>3. e.dst \in State
      BY <1>1 DEF Edge
    <3>4. RemOnce(Merged(h[e.dst], e.acc))
      BY <1>2, <2>1, <3>3, MergedOnce
    <3>5. Counted(h, Merged(h[e.dst], e.acc), Moved, IF o.shy THEN depth - 1 ELSE depth)
      BY <1>2, <2>1, <3>2, <3>4, CountTake
    <3>6. Counted(h', root', todo', depth')
      BY <1>2, <2>1, <3>1, <3>5
    <3>7. QED
      BY <1>2, <2>1, <3>1, <3>6, DepthGoesOn
  <2>4. QED
    BY <2>2, <2>3
<1>8. CASE ReturnNull
  BY <1>2, <1>8 DEF ReturnNull, Return, DepthInv, Searching
<1>9. QED
  BY <1>3, <1>4, <1>5, <1>6, <1>7, <1>8 DEF check

(* The actions of couvreur99_check_shy.                                    *)
LEMMA ShyDepth ==
  ASSUME CheckInv, DepthInv, shy_check
  PROVE  DepthInv'
<1>1. edges \in SUBSET Edge /\ IsFiniteSet(edges)
  BY AutomataFacts
<1>2. ASSUME ShyLoop
      PROVE  /\ pc = "loop" /\ o.shy /\ SearchInv /\ Counted(h, root, todo, depth) /\ RemOnce(root)
             /\ ~uses_fin_acceptance /\ todo # << >> /\ pos \in Nat \ {0} /\ result = "none"
  BY <1>2 DEF ShyLoop, CheckInv, DepthInv, Searching, Counted
<1>3. ASSUME NEW e \in edges, Considered(e)
      PROVE  ShyLoop /\ e.dst \in State /\ Took(edges, h, root, todo, e, Erased)
  <2>1. ShyLoop
    BY <1>3 DEF Considered
  <2>2. Took(edges, h, root, todo, e, Erased)
    BY <1>1, <1>2, <1>3, <2>1, ErasedTook
  <2>3. e.dst \in State
    BY <1>1 DEF Edge
  <2>4. QED
    BY <2>1, <2>2, <2>3
<1>4. CASE ShyCheck
  <2>1. CASE is_f
    BY <1>4, <2>1 DEF ShyCheck, Return, DepthInv, Searching
  <2>2. CASE ~is_f
    <3>1. pc = "call" /\ o.shy /\ UNCHANGED <<o, h, root, todo, depth, result>> /\ pc' = "loop"
      BY <1>4, <2>2 DEF ShyCheck
    <3>2. Counted(h, root, todo, depth) /\ result = "none"
      BY <3>1 DEF DepthInv, Searching, CheckInv
    <3>3. Counted(h, root, todo, depth)'
      BY <3>1, <3>2 DEF Counted, RemOnce, Alive, Queued
    <3>4. QED
      BY <3>1, <3>2, <3>3 DEF DepthInv
  <2>3. QED
    BY <2>1, <2>2
<1>5. CASE ShyReturnNull
  <2>1. /\ ShyLoop /\ Last(todo).q = << >> /\ Len(todo) = 1 /\ depth' = depth - 1
        /\ pc' = "idle" /\ result' = "null" /\ o' = o
    BY <1>5 DEF ShyReturnNull, Return, queue
  <2>2. ASSUME ~o.poprem PROVE depth' = 0
    <3>1. todo \in Seq(Todo) /\ DOMAIN todo = {1}
      BY <1>2, <2>1 DEF SearchInv, SearchPath
    <3>2. todo[1].q = << >>
      BY <2>1 DEF Last
    <3>3. Queued(todo) = {}
      BY <3>1, <3>2 DEF Queued, ToSet
    <3>4. Cardinality(Queued(todo)) = 0
      BY <3>3, FS_EmptySet
    <3>5. depth = 1
      BY <1>2, <2>1, <2>2, <3>4 DEF Counted
    <3>6. QED
      BY <2>1, <3>5
  <2>3. QED
    BY <2>1, <2>2 DEF DepthInv, Searching
<1>6. CASE ShyBacktrack
  <2>1. /\ ShyLoop /\ Last(todo).q = << >> /\ Len(todo) > 1 /\ todo' = Front(todo)
        /\ Leave(Last(todo).s, Last(todo).n)
        /\ UNCHANGED <<edges, o, num, cycle_seed, pc, result>>
    BY <1>6 DEF ShyBacktrack, queue
  <2>2. Leaving
    BY <1>1, <1>2, <2>1 DEF Leaving
  <2>3. Counted(h', root', todo', depth')
    BY <1>2, <2>1, <2>2, CountLeave
  <2>4. QED
    BY <1>2, <2>1, <2>3, DepthGoesOn
<1>7. ASSUME NEW e \in edges, ShySkip(e)
      PROVE  DepthInv'
  <2>1. Considered(e) /\ UNCHANGED base
    BY <1>7 DEF ShySkip
  <2>2. ShyLoop
    BY <1>3, <2>1
  <2>3. Counted(h', root', todo', depth')
    BY <1>2, <2>1, <2>2 DEF base
  <2>4. QED
    BY <1>2, <2>1, <2>2, <2>3, DepthGoesOn DEF base
<1>8. ASSUME NEW e \in edges, ShyNew(e)
      PROVE  DepthInv'
  <2>1. /\ Considered(e) /\ h[e.dst] = 0 /\ num' = num + 1
        /\ h' = [h EXCEPT ![e.dst] = num + 1] /\ root' = Append(root, connected_component(num + 1))
        /\ UNCHANGED <<o, pc, result>>
    BY <1>8 DEF ShyNew
  <2>2. ShyLoop /\ e.dst \in State /\ Took(edges, h, root, todo, e, Erased)
    BY <1>3, <2>1
  <2>3. PICK t \in todo_items(e.dst, num + 1) :
          todo' = Append(Erased, t) /\ depth' = depth - 1 + Len(t.q) + 1
    BY <1>8, <2>1 DEF ShyNew
  <2>4. PICK q \in SetToSeqs(succ_iter(Live(edges), e.dst)) : t = [s |-> e.dst, n |-> num + 1, q |-> q]
    BY <2>3 DEF todo_items
  <2>5. Live(edges) \subseteq edges
    BY DEF Live
  <2>6. q \in Seq(Edge) /\ IsInjective(q) /\ ToSet(q) \subseteq succ_iter(edges, e.dst)
    BY <1>1, <2>2, <2>5, NewQueueFacts
  <2>7. num + 1 \in Nat \ {0}
    BY <1>2, <2>2 DEF SearchInv, Orders
  <2>8. todo' = Append(Erased, [s |-> e.dst, n |-> num + 1, q |-> q]) /\ depth' = depth - 1 + Len(q) + 1
    BY <2>3, <2>4
  <2>9. Counted(h', root', todo', IF o.shy THEN depth - 1 + Len(q) + 1 ELSE depth + 1)
    BY <1>1, <1>2, <2>1, <2>2, <2>6, <2>7, <2>8, CountNew
  <2>10. Counted(h', root', todo', depth')
    BY <1>2, <2>2, <2>8, <2>9
  <2>11. QED
    BY <1>2, <2>1, <2>2, <2>10, DepthGoesOn
<1>9. ASSUME NEW e \in edges, ShyDead(e)
      PROVE  DepthInv'
  <2>1. /\ Considered(e) /\ todo' = Erased /\ depth' = depth - 1 /\ UNCHANGED <<o, h, root, pc, result>>
    BY <1>9 DEF ShyDead
  <2>2. ShyLoop /\ Took(edges, h, root, todo, e, Erased)
    BY <1>3, <2>1
  <2>3. Counted(h, root, Erased, IF o.shy THEN depth - 1 ELSE depth)
    BY <1>2, <2>2, CountTake
  <2>4. Counted(h', root', todo', depth')
    BY <1>2, <2>1, <2>2, <2>3
  <2>5. QED
    BY <1>2, <2>1, <2>2, <2>4, DepthGoesOn
<1>10. ASSUME NEW e \in edges, ShyMerge(e)
       PROVE  DepthInv'
  <2> DEFINE r == Merged(h[e.dst], e.acc)
  <2>1. /\ Considered(e) /\ h[e.dst] > 0 /\ arc' = MergedArc(h[e.dst]) /\ UNCHANGED <<o, h>>
    BY <1>10 DEF ShyMerge
  <2>2. ShyLoop /\ e.dst \in State /\ Took(edges, h, root, todo, e, Erased)
    BY <1>3, <2>1
  <2>3. e.cond
    <3>1. e \in Queued(todo) /\ Queued(todo) \subseteq Live(edges)
      BY <1>2, <2>2 DEF Took, SearchInv
    <3>2. QED
      BY <3>1 DEF Live
  <2>4. MergeStep(e, Erased, r, MergedArc(h[e.dst]))
    BY <1>1, <1>2, <2>1, <2>2, <2>3, StepMerge
  <2>5. RemOnce(r)
    BY <1>2, <2>1, <2>2, MergedOnce
  <2>6. Counted(h, r, Erased, depth - 1)
    <3>1. Counted(h, r, Erased, IF o.shy THEN depth - 1 ELSE depth)
      BY <1>2, <2>2, <2>5, CountTake
    <3>2. QED
      BY <1>2, <2>2, <3>1
  <2>7. CASE accepting(Last(r).condition)
    <3>1. clear_todo(Erased, r, depth - 1) /\ pc' = "idle" /\ result' = "run"
      BY <1>10, <2>7 DEF ShyMerge, Return
    <3> HIDE DEF r
    <3>2. depth' = 0
      BY <1>2, <2>2, <2>4, <2>6, <3>1, CountCleared
    <3>3. QED
      BY <3>1, <3>2 DEF DepthInv, Searching
  <2>8. CASE ~accepting(Last(r).condition)
    <3>1. /\ UNCHANGED <<cycle_seed, pc, result>>
          /\ IF o.group THEN Group(Erased, r) ELSE todo' = Erased /\ root' = r /\ depth' = depth - 1
      BY <1>10, <2>8 DEF ShyMerge
    <3> HIDE DEF r
    <3>2. Counted(h, root', todo', depth')
      <4>1. CASE o.group
        BY <1>1, <1>2, <2>2, <2>4, <2>6, <3>1, <4>1, CountGroup
      <4>2. CASE ~o.group
        BY <2>6, <3>1, <4>2
      <4>3. QED
        BY <4>1, <4>2
    <3>3. QED
      BY <1>2, <2>1, <2>2, <3>1, <3>2, DepthGoesOn
  <2>9. QED
    BY <2>7, <2>8
<1>11. QED
  BY <1>4, <1>5, <1>6, <1>7, <1>8, <1>9, <1>10 DEF shy_check

(* Every step keeps the count.                                             *)
LEMMA StepDepth ==
  ASSUME CheckInv, DepthInv, [Next]_vars
  PROVE  DepthInv'
<1>1. CASE check
  BY <1>1, CheckDepth
<1>2. CASE shy_check
  BY <1>2, ShyDepth
<1>3. CASE UNCHANGED vars
  BY <1>3 DEF vars, base, DepthInv, Searching, Counted, RemOnce, Alive, Queued, is_f
<1>4. CASE accepting_run \/ accepting_cycle \/ ComputePrefix
  <2>1. /\ pc' \in {"cycle", "prefix", "done"} /\ UNCHANGED <<o, result, depth>>
    BY <1>4 DEF accepting_run, accepting_cycle, ComputePrefix
  <2>2. QED
    BY <2>1 DEF DepthInv, Searching
<1>5. QED
  BY <1>1, <1>2, <1>3, <1>4 DEF Next, Finished

(* What the search knows of rem and the depth.                             *)
LEMMA SearchRem ==
  ASSUME SearchInv, Counted(h, root, todo, depth)
  PROVE  /\ o.poprem => \A i \in DOMAIN root :
              /\ IsInjective(root[i].rem)
              /\ ToSet(root[i].rem) = Members(i) \ {todo[k].s : k \in DOMAIN todo}
         /\ depth = Len(todo) + Len(FlattenSeq([i \in DOMAIN root |-> root[i].rem]))
                      + IF o.shy THEN Len(FlattenSeq([i \in DOMAIN todo |-> todo[i].q])) ELSE 0
<1> DEFINE A == Cardinality(Alive(h))
           Q == Cardinality(Queued(todo))
           n == Len(todo)
           R == RemLen(root)
<1>1. /\ Roots(h, root) /\ SearchPath(h, root, todo) /\ Queues(edges, h, root, todo)
      /\ (o.poprem => Remembered(h, root, todo)) /\ h \in [State -> Int]
  BY DEF SearchInv, Orders
<1>2. RemOnce(root) /\ depth = (IF o.poprem THEN A ELSE n) + (IF o.shy THEN Q ELSE 0)
  BY DEF Counted
<1>3. /\ o.poprem => R = A - n
      /\ ~o.poprem => R = 0
      /\ R \in Nat
  BY <1>1, <1>2, CouvreurAssumption, RemLength
<1>4. Len(FlattenSeq([i \in DOMAIN todo |-> todo[i].q])) = Q /\ Q \in Nat
  BY <1>1, QueuedLength DEF SearchPath, Queues
<1>5. A \in Nat /\ n \in Nat /\ DOMAIN todo = 1 .. n /\ DOMAIN root = 1 .. Len(root)
  BY <1>1, CountFacts, PathFacts, RootFacts
<1>6. ASSUME o.poprem, NEW i \in DOMAIN root
      PROVE  /\ IsInjective(root[i].rem)
             /\ ToSet(root[i].rem) = Members(i) \ {todo[k].s : k \in DOMAIN todo}
  <2>1. Members(i) = Scc(h, root, i)
    BY DEF Members, Scc
  <2>2. {todo[k].s : k \in DOMAIN todo} = OnPath(todo)
    BY <1>5 DEF OnPath
  <2>3. QED
    BY <1>1, <1>2, <1>5, <1>6, <2>1, <2>2 DEF Remembered, RemOnce
<1>7. Len(FlattenSeq([i \in DOMAIN root |-> root[i].rem])) = R
  BY DEF RemLen
<1> HIDE DEF A, Q, n, R
<1>8. depth = n + R + (IF o.shy THEN Q ELSE 0)
  <2> DEFINE s == IF o.shy THEN Q ELSE 0
  <2>1. s \in Nat
    BY <1>4
  <2>2. depth = (IF o.poprem THEN A ELSE n) + s
    BY <1>2
  <2> HIDE DEF s
  <2>3. CASE o.poprem
    <3>1. depth = A + s /\ R = A - n
      BY <1>3, <2>2, <2>3
    <3>2. depth = n + R + s
      BY ONLY <1>5, <2>1, <3>1
    <3>3. QED
      BY <3>2 DEF s
  <2>4. CASE ~o.poprem
    <3>1. depth = n + s /\ R = 0
      BY <1>3, <2>2, <2>4
    <3>2. depth = n + R + s
      BY ONLY <1>5, <2>1, <3>1
    <3>3. QED
      BY <3>2 DEF s
  <2>5. QED
    BY <2>3, <2>4
<1>9. depth = Len(todo) + Len(FlattenSeq([i \in DOMAIN root |-> root[i].rem]))
                + IF o.shy THEN Len(FlattenSeq([i \in DOMAIN todo |-> todo[i].q])) ELSE 0
  BY <1>4, <1>7, <1>8 DEF n
<1>10. QED
  BY <1>6, <1>9

(* With poprem each component remembers exactly its states that have left  *)
(* todo, and ec_statistics::depth() counts todo and rem: it never goes     *)
(* below zero, and it is zero when clear_todo() is done.                   *)
THEOREM RememberedAndCounted == Spec => []RemIsComplete
<1>1. Init => CheckInv /\ DepthInv
  BY CheckInvInitially, DepthInitially
<1>2. CheckInv /\ DepthInv /\ [Next]_vars => CheckInv' /\ DepthInv'
  BY StepAnswers, StepDepth
<1>3. CheckInv /\ DepthInv => RemIsComplete
  <2> SUFFICES ASSUME CheckInv, DepthInv PROVE RemIsComplete
    OBVIOUS
  <2>1. pc = "loop" => SearchInv /\ Counted(h, root, todo, depth)
    BY DEF CheckInv, DepthInv, Searching
  <2>2. o.shy /\ (result = "run" \/ (result = "null" /\ ~o.poprem /\ ~is_f)) => depth = 0
    BY DEF DepthInv
  <2>3. QED
    BY <2>1, <2>2, SearchRem DEF RemIsComplete
<1>4. QED
  BY <1>1, <1>2, <1>3, PTL DEF Spec

-----------------------------------------------------------------------------
(* What is left to do                                                      *)

(* What check() has left to do, by the sizes of sets.                      *)
Unseen(hh) == {e \in edges : hh[e.src] = 0}

Undone(hh, t) == 2 * (Cardinality(Queued(t)) + Cardinality(Unseen(hh))) + Len(t)

(* An edge was taken from the queues, which may have been grouped.         *)
LEMMA TakingCounts ==
  ASSUME SearchInv, IsFiniteSet(edges), NEW e, NEW t, Took(edges, h, root, todo, e, t),
         NEW t2, Queued(t2) = Queued(t), Len(t2) \in Nat, Len(t2) <= Len(t)
  PROVE  Undone(h, t2) < Undone(h, todo)
<1> DEFINE a == Cardinality(Queued(todo))
           b == Cardinality(Queued(t2))
           u == Cardinality(Unseen(h))
<1>1. Len(t) = Len(todo) /\ b = a - 1
  BY TookCount
<1>2. a \in Nat /\ Len(todo) \in Nat
  BY CountFacts
<1>3. u \in Nat
  BY FS_Subset, FS_CardinalityType DEF Unseen
<1> HIDE DEF a, b, u
<1>4. 2 * (b + u) + Len(t2) < 2 * (a + u) + Len(todo)
  BY ONLY <1>1, <1>2, <1>3, Len(t2) \in Nat, Len(t2) <= Len(t)
<1>5. QED
  BY <1>4 DEF Undone, a, b, u

(* A state has left todo.                                                  *)
LEMMA LeavingCounts ==
  ASSUME Leaving, IsFiniteSet(edges), Leave(Last(todo).s, Last(todo).n)
  PROVE  Undone(h', todo') < Undone(h, todo)
<1> DEFINE a == Cardinality(Queued(todo))
           u == Cardinality(Unseen(h))
           v == Cardinality(Unseen(h'))
<1>1. /\ h \in [State -> Int] /\ edges \in SUBSET Edge
      /\ todo \in Seq(Todo) /\ Len(todo) \in Nat \ {0} /\ todo[Len(todo)].q = << >>
      /\ todo' \in Seq(Todo) /\ Popped(todo, todo')
  BY LeavingFacts
<1>2. Queued(todo') = Queued(todo) /\ Len(todo') = Len(todo) - 1
  BY <1>1, QueuedPopped DEF Popped
<1>3. a \in Nat
  BY CountFacts DEF Leaving
<1>4. \A s \in State : h'[s] = 0 => h[s] = 0
  BY <1>1 DEF Leave, remove_component
<1>5. Unseen(h') \subseteq Unseen(h)
  <2>1. \A e \in edges : e.src \in State
    BY <1>1 DEF Edge
  <2>2. QED
    BY <1>4, <2>1 DEF Unseen
<1>6. IsFiniteSet(Unseen(h))
  BY FS_Subset DEF Unseen
<1>7. u \in Nat /\ v \in Nat /\ v <= u
  BY <1>5, <1>6, FS_Subset, FS_CardinalityType
<1> HIDE DEF a, u, v
<1>8. 2 * (a + v) + Len(todo') < 2 * (a + u) + Len(todo)
  BY ONLY <1>1, <1>2, <1>3, <1>7
<1>9. QED
  BY <1>2, <1>8 DEF Undone, a, u, v

(* A state was stacked, and the edges out of it were queued.               *)
LEMMA StackingCounts ==
  ASSUME SearchInv, edges \in SUBSET Edge, IsFiniteSet(edges), NEW e, NEW t,
         Took(edges, h, root, todo, e, t),
         h[e.dst] = 0, NEW n \in Nat \ {0}, NEW hh2, hh2 = [h EXCEPT ![e.dst] = n],
         NEW q \in Seq(Edge), IsInjective(q), ToSet(q) \subseteq succ_iter(edges, e.dst),
         NEW t2, t2 = Append(t, [s |-> e.dst, n |-> n, q |-> q])
  PROVE  Undone(hh2, t2) < Undone(h, todo)
<1> DEFINE a == Cardinality(Queued(todo))
           b == Cardinality(Queued(t2))
           u == Cardinality(Unseen(h))
           v == Cardinality(Unseen(hh2))
<1>1. Len(t2) = Len(todo) + 1 /\ b = a - 1 + Len(q)
  <2>1. StackedNew(e, t, n, q, t2)
    BY DEF StackedNew
  <2>2. SearchInv /\ edges \in SUBSET Edge
    OBVIOUS
  <2>3. QED
    BY ONLY <2>1, <2>2, QueuedStacked
<1>2. a \in Nat /\ Len(todo) \in Nat /\ h \in [State -> Int]
  BY CountFacts
<1>3. IsFiniteSet(Unseen(h)) /\ IsFiniteSet(Unseen(hh2)) /\ u \in Nat /\ v \in Nat
  BY FS_Subset, FS_CardinalityType DEF Unseen
<1>4. IsFiniteSet(ToSet(q)) /\ Cardinality(ToSet(q)) = Len(q) /\ Len(q) \in Nat
  BY OnceLength
<1>5. e.dst \in State /\ \A f \in edges : f.src \in State
  BY DEF Took, Edge
<1>6. ToSet(q) \subseteq Unseen(h) /\ Unseen(hh2) \subseteq Unseen(h) \ ToSet(q)
  <2>1. \A f \in ToSet(q) : f \in edges /\ f.src = e.dst
    BY DEF succ_iter
  <2>2. \A f \in edges : hh2[f.src] = IF f.src = e.dst THEN n ELSE h[f.src]
    BY <1>2, <1>5
  <2>3. QED
    BY <2>1, <2>2 DEF Unseen
<1>7. v <= u - Len(q)
  <2>1. Cardinality(Unseen(h) \ ToSet(q)) = u - Cardinality(Unseen(h) \cap ToSet(q))
    BY <1>3, FS_Difference
  <2>2. Unseen(h) \cap ToSet(q) = ToSet(q)
    BY <1>6
  <2>3. IsFiniteSet(Unseen(h) \ ToSet(q))
    BY <1>3, FS_Difference
  <2>4. v <= Cardinality(Unseen(h) \ ToSet(q))
    BY <1>6, <2>3, FS_Subset
  <2>5. QED
    BY <1>4, <2>1, <2>2, <2>4
<1> HIDE DEF a, b, u, v
<1>8. 2 * (b + v) + Len(t2) < 2 * (a + u) + Len(todo)
  BY ONLY <1>1, <1>2, <1>3, <1>4, <1>7
<1>9. QED
  BY <1>8 DEF Undone, a, b, u, v

(* What a step of the loop leaves to do.                                   *)
Fewer == Undone(h', todo') < Undone(h, todo)

(* A step of the loop of couvreur99_check leaves less to do.               *)
LEMMA CheckCounts ==
  ASSUME CheckInv, check, pc = "loop", pc' = "loop"
  PROVE  Fewer
<1>1. edges \in SUBSET Edge /\ IsFiniteSet(edges)
  BY AutomataFacts
<1>2. SearchInv /\ ~uses_fin_acceptance
  BY DEF CheckInv, Searching
<1>3. CASE Backtrack
  <2>1. /\ Loop /\ todo # << >> /\ Last(todo).q = << >> /\ todo' = Front(todo)
        /\ Leave(Last(todo).s, h[Last(todo).s]) /\ UNCHANGED <<edges, o, num>>
    BY <1>3 DEF Backtrack
  <2>2. Leaving
    BY <1>1, <1>2, <2>1 DEF Leaving, Loop
  <2>3. Leave(Last(todo).s, Last(todo).n)
    BY <2>1, <2>2, LeavingFacts
  <2>4. QED
    BY <1>1, <2>2, <2>3, LeavingCounts DEF Fewer
<1>4. ASSUME NEW e \in edges, Skip(e) \/ Dead(e) \/ Merge(e) PROVE Fewer
  <2>1. On(e) /\ todo' = Moved /\ h' = h
    <3>1. CASE Skip(e) \/ Dead(e)
      BY <3>1 DEF Skip, Dead
    <3>2. CASE Merge(e)
      BY <3>2 DEF Merge, Return
    <3>3. QED
      BY <1>4, <3>1, <3>2
  <2>2. Took(edges, h, root, todo, e, Moved)
    BY <1>1, <1>2, <2>1, MovedTook
  <2>3. Len(Moved) = Len(todo) /\ Len(todo) \in Nat
    BY <1>2, <2>2, TookCount, CountFacts
  <2>4. Undone(h, Moved) < Undone(h, todo)
    BY <1>1, <1>2, <2>2, <2>3, TakingCounts
  <2>5. QED
    BY <2>1, <2>4 DEF Fewer
<1>5. ASSUME NEW e \in edges, NewState(e) PROVE Fewer
  <2>1. On(e) /\ h[e.dst] = 0 /\ num' = num + 1 /\ h' = [h EXCEPT ![e.dst] = num + 1]
    BY <1>5 DEF NewState
  <2>2. PICK q \in SetToSeqs(succ_iter(edges, e.dst)) :
          todo' = Append(Moved, [s |-> e.dst, n |-> num + 1, q |-> q])
    BY <1>5, <2>1 DEF NewState
  <2>3. Took(edges, h, root, todo, e, Moved)
    BY <1>1, <1>2, <2>1, MovedTook
  <2>4. e.dst \in State
    BY <1>1 DEF Edge
  <2>5. q \in Seq(Edge) /\ IsInjective(q) /\ ToSet(q) \subseteq succ_iter(edges, e.dst)
    BY <1>1, <2>4, NewQueueFacts
  <2>6. num + 1 \in Nat \ {0}
    BY <1>2 DEF SearchInv, Orders
  <2>7. Undone(h', todo') < Undone(h, todo)
    BY <1>1, <1>2, <2>1, <2>2, <2>3, <2>5, <2>6, StackingCounts
  <2>8. QED
    BY <2>7 DEF Fewer
<1>6. ~Check /\ ~ReturnNull
  BY DEF Check, ReturnNull, Return
<1>7. QED
  BY <1>3, <1>4, <1>5, <1>6 DEF check

(* So does one of couvreur99_check_shy, unless it skips a new state.       *)
LEMMA ShyCounts ==
  ASSUME CheckInv, shy_check, pc = "loop", pc' = "loop"
  PROVE  Fewer \/ (UNCHANGED base /\ pos' > pos)
<1>1. edges \in SUBSET Edge /\ IsFiniteSet(edges)
  BY AutomataFacts
<1>2. SearchInv /\ ~uses_fin_acceptance
  BY DEF CheckInv, Searching
<1>3. ASSUME NEW e \in edges, Considered(e)
      PROVE  /\ o.shy /\ Took(edges, h, root, todo, e, Erased) /\ e.dst \in State
             /\ Len(Erased) = Len(todo) /\ Len(todo) \in Nat /\ pos \in Nat \ {0}
  <2>1. o.shy /\ todo # << >> /\ pos \in Nat \ {0}
    BY <1>3 DEF Considered, ShyLoop, CheckInv, Searching
  <2>2. Took(edges, h, root, todo, e, Erased)
    BY <1>1, <1>2, <1>3, <2>1, ErasedTook
  <2>3. Len(Erased) = Len(todo) /\ Len(todo) \in Nat
    BY <1>2, <2>2, TookCount, CountFacts
  <2>4. e.dst \in State
    BY <1>1 DEF Edge
  <2>5. QED
    BY <2>1, <2>2, <2>3, <2>4
<1>4. CASE ShyBacktrack
  <2>1. /\ ShyLoop /\ Last(todo).q = << >> /\ Len(todo) > 1 /\ todo' = Front(todo)
        /\ Leave(Last(todo).s, Last(todo).n) /\ UNCHANGED <<edges, o, num>>
    BY <1>4 DEF ShyBacktrack, queue
  <2>2. todo # << >>
    BY <2>1 DEF ShyLoop, CheckInv, Searching
  <2>3. Leaving
    BY <1>1, <1>2, <2>1, <2>2 DEF Leaving
  <2>4. QED
    BY <1>1, <2>1, <2>3, LeavingCounts DEF Fewer
<1>5. ASSUME NEW e \in edges, ShySkip(e) PROVE UNCHANGED base /\ pos' > pos
  <2>1. Considered(e) /\ pos' = pos + 1 /\ UNCHANGED base
    BY <1>5 DEF ShySkip
  <2>2. pos \in Nat
    BY <1>3, <2>1
  <2>3. QED
    BY <2>1, <2>2
<1>6. ASSUME NEW e \in edges, ShyNew(e) PROVE Fewer
  <2>1. Considered(e) /\ h[e.dst] = 0 /\ num' = num + 1 /\ h' = [h EXCEPT ![e.dst] = num + 1]
    BY <1>6 DEF ShyNew
  <2>2. PICK t \in todo_items(e.dst, num + 1) : todo' = Append(Erased, t)
    BY <1>6, <2>1 DEF ShyNew
  <2>3. PICK q \in SetToSeqs(succ_iter(Live(edges), e.dst)) : t = [s |-> e.dst, n |-> num + 1, q |-> q]
    BY <2>2 DEF todo_items
  <2>4. e.dst \in State /\ Took(edges, h, root, todo, e, Erased)
    BY <1>3, <2>1
  <2>5. Live(edges) \subseteq edges
    BY DEF Live
  <2>6. q \in Seq(Edge) /\ IsInjective(q) /\ ToSet(q) \subseteq succ_iter(edges, e.dst)
    BY <1>1, <2>4, <2>5, NewQueueFacts
  <2>7. num + 1 \in Nat \ {0}
    BY <1>2 DEF SearchInv, Orders
  <2>8. todo' = Append(Erased, [s |-> e.dst, n |-> num + 1, q |-> q])
    BY <2>2, <2>3
  <2>9. Undone(h', todo') < Undone(h, todo)
    BY <1>1, <1>2, <2>1, <2>4, <2>6, <2>7, <2>8, StackingCounts
  <2>10. QED
    BY <2>9 DEF Fewer
<1>7. ASSUME NEW e \in edges, ShyDead(e) PROVE Fewer
  <2>1. Considered(e) /\ todo' = Erased /\ h' = h
    BY <1>7 DEF ShyDead
  <2>2. Undone(h, Erased) < Undone(h, todo)
    <3>1. /\ Took(edges, h, root, todo, e, Erased) /\ Len(Erased) \in Nat
          /\ Len(Erased) <= Len(Erased)
      BY <1>3, <2>1
    <3>2. QED
      BY <1>1, <1>2, <3>1, TakingCounts
  <2>3. QED
    BY <2>1, <2>2 DEF Fewer
<1>8. ASSUME NEW e \in edges, ShyMerge(e) PROVE Fewer
  <2> DEFINE r == Merged(h[e.dst], e.acc)
  <2>1. Considered(e) /\ h[e.dst] > 0 /\ h' = h /\ ~accepting(Last(r).condition)
    BY <1>8 DEF ShyMerge, Return
  <2>2. IF o.group THEN todo' = Grouped(Erased, Kept(Erased, Last(r))) ELSE todo' = Erased
    BY <1>8, <2>1 DEF ShyMerge, Group
  <2>3. /\ o.shy /\ Took(edges, h, root, todo, e, Erased) /\ e.dst \in State
        /\ Len(Erased) = Len(todo) /\ Len(todo) \in Nat
    BY <1>3, <2>1
  <2>4. e.cond
    <3>1. e \in Queued(todo) /\ Queued(todo) \subseteq Live(edges)
      BY <1>2, <2>3 DEF Took, SearchInv
    <3>2. QED
      BY <3>1 DEF Live
  <2>5. MergeStep(e, Erased, r, MergedArc(h[e.dst]))
    BY <1>1, <1>2, <2>1, <2>3, <2>4, StepMerge
  <2>6. h \in [State -> Int]
    BY <1>2 DEF SearchInv, Orders
  <2> HIDE DEF r
  <2>7. /\ Queued(todo') = Queued(Erased) /\ Len(todo') \in Nat /\ Len(todo') <= Len(Erased)
    <3>1. CASE o.group
      <4> DEFINE k == Kept(Erased, Last(r))
      <4>1. todo' = Grouped(Erased, k)
        BY <2>2, <3>1
      <4>2. /\ k \in 1 .. Len(Erased) /\ Len(Erased) \in Nat
            /\ Queued(todo') = Queued(Erased) /\ Len(todo') = k
        BY <1>1, <2>5, <2>6, <4>1, GroupedQueues
      <4> HIDE DEF k
      <4>3. QED
        BY <4>2
    <3>2. CASE ~o.group
      BY <2>2, <2>3, <3>2
    <3>3. QED
      BY <3>1, <3>2
  <2>8. Undone(h, todo') < Undone(h, todo)
    BY <1>1, <1>2, <2>3, <2>7, TakingCounts
  <2>9. QED
    BY <2>1, <2>8 DEF Fewer
<1>9. ~ShyCheck /\ ~ShyReturnNull
  BY DEF ShyCheck, ShyReturnNull, Return
<1>10. QED
  BY <1>4, <1>5, <1>6, <1>7, <1>8, <1>9 DEF shy_check

(* Left is what it says.                                                   *)
LEMMA StepLeft ==
  ASSUME CheckInv, CheckInv', edges' = edges, pc = "loop", pc' = "loop"
  PROVE  Left = Undone(h, todo) /\ Left' = Undone(h', todo')
<1>1. SearchInv /\ SearchInv'
  BY DEF CheckInv, Searching
<1>2. Len(FlattenSeq([i \in DOMAIN todo |-> todo[i].q])) = Cardinality(Queued(todo))
  <2>1. SearchPath(h, root, todo) /\ Queues(edges, h, root, todo)
    BY <1>1 DEF SearchInv
  <2>2. QED
    BY <2>1, QueuedLength DEF SearchPath, Queues
<1>3. Len(FlattenSeq([i \in DOMAIN todo' |-> todo'[i].q])) = Cardinality(Queued(todo'))
  <2>1. SearchPath(h', root', todo') /\ Queues(edges', h', root', todo')
    BY <1>1 DEF SearchInv
  <2>2. QED
    BY <2>1, QueuedLength DEF SearchPath, Queues
<1>4. Left = Undone(h, todo)
  BY <1>2 DEF Left, Undone, Unseen
<1>5. Left' = Undone(h', todo')
  BY <1>3 DEF Left, Undone, Unseen
<1>6. QED
  BY <1>4, <1>5

(* Each step of the loop of check() leaves less to do, or brings the pass  *)
(* over the known successors closer to its end: check() returns.           *)
THEOREM LoopProgresses == Spec => EveryStepCounts
<1> DEFINE Step == pc = "loop" /\ pc' = "loop" =>
                     Left' < Left \/ (Left' = Left /\ todo' = todo /\ pos' > pos)
<1>1. CheckInv /\ CheckInv' /\ [Next]_vars => [Step]_vars
  <2> SUFFICES ASSUME CheckInv, CheckInv', Next, pc = "loop", pc' = "loop", ~UNCHANGED vars
               PROVE  Left' < Left \/ (Left' = Left /\ todo' = todo /\ pos' > pos)
    OBVIOUS
  <2>1. Answers
    BY StepAnswers
  <2>2. Left = Undone(h, todo) /\ Left' = Undone(h', todo')
    BY <2>1, StepLeft DEF Answers
  <2>3. CASE check
    BY <2>2, <2>3, CheckCounts DEF Fewer
  <2>4. CASE shy_check
    <3>1. CASE Fewer
      BY <2>2, <3>1 DEF Fewer
    <3>2. CASE UNCHANGED base /\ pos' > pos
      BY <2>2, <3>2 DEF base
    <3>3. QED
      BY <2>4, <3>1, <3>2, ShyCounts
  <2>5. ~accepting_run /\ ~accepting_cycle /\ ~ComputePrefix
    BY DEF accepting_run, accepting_cycle, ComputePrefix
  <2>6. QED
    BY <2>3, <2>4, <2>5 DEF Next, Finished
<1>2. EveryStepCounts <=> [][Step]_vars
  BY DEF EveryStepCounts
<1>3. QED
  BY <1>1, <1>2, CheckIsRight, PTL DEF Spec

=============================================================================
