-------------------------- MODULE StrategySearchProofs --------------------------
(***************************************************************************)
(* Whatever graph, costs and sizes of population: the genetic search       *)
(* labels the graph with the cheapest identity it has sorted, and in every *)
(* mode an op is labelled with a strategy of its own.                      *)
(***************************************************************************)
EXTENDS StrategySearch, SequenceTheorems, TLAPS

---------------------------------------------------------------------------
(***************************************************************************)
(* The inductive invariant.  While populations are bred an identity that   *)
(* is as cheap as all seen leads: the population before it is sorted, the  *)
(* children after.                                                         *)
(***************************************************************************)
Cheapest(id) == \A other \in seen : cost[id] <= cost[other]

(* What the search space may have of an op. *)
Entries ==
  {e \in {[op |-> i, strategies |-> OpStrategies(ops[i], NProcs)] : i \in Nat} : Len(e.strategies) > 0}

SearchInv ==
  /\ visited \in Nat /\ space \in Seq(Entries)
  /\ phase \in {"visit", "init", "sort", "breed", "labelled"}
  /\ phase \in {"visit", "init"} => seen = {}
  /\ phase \in {"sort", "breed"} =>
       /\ cost \in [Identities -> Costs]
       /\ population \in [1 .. PopulationSize -> Identities]
       /\ seen \subseteq Identities
  /\ phase = "sort" => Cheapest(population[1])
  /\ phase = "breed" =>
       /\ children \in Seq(Identities) /\ Len(children) \in 1 .. PopulationSize
       /\ Cheapest(children[1])
  /\ BestKept

---------------------------------------------------------------------------
(* Sorting puts an individual in front that costs no more than any other. *)
LEMMA SortedFirst ==
  ASSUME NEW f \in Orders, Ascending(Ordered(f)),
         population \in [1 .. PopulationSize -> Identities], cost \in [Identities -> Costs]
  PROVE  /\ Ordered(f) \in [1 .. PopulationSize -> Identities]
         /\ \A i \in 1 .. PopulationSize : cost[Ordered(f)[1]] <= cost[population[i]]
<1>1. PopulationSize \in Nat /\ 1 \in 1 .. PopulationSize /\ Costs \subseteq Nat
  BY SearchAssumption
<1>2. f \in [1 .. PopulationSize -> 1 .. PopulationSize]
  BY DEF Orders, Bijection, Injection
<1>3. Ordered(f) \in [1 .. PopulationSize -> Identities]
  BY <1>2 DEF Ordered
<1>4. ASSUME NEW i \in 1 .. PopulationSize
      PROVE  cost[Ordered(f)[1]] <= cost[population[i]]
  <2>1. PICK j \in 1 .. PopulationSize : f[j] = i
    BY DEF Orders, Bijection, Surjection
  <2>2. Ordered(f)[j] = population[i]
    BY <2>1 DEF Ordered
  <2>3. CASE j = 1
    <3>1. cost[population[i]] \in Nat
      BY <1>1
    <3> QED BY <2>2, <2>3, <3>1
  <2>4. CASE j # 1
    <3>1. 1 < j /\ 1 \in DOMAIN Ordered(f) /\ j \in DOMAIN Ordered(f)
      BY <1>1, <1>3, <2>4
    <3> QED BY <2>2, <3>1 DEF Ascending
  <2> QED BY <2>3, <2>4
<1> QED BY <1>3, <1>4

(* A function on an initial segment of the numbers is a sequence. *)
LEMMA Segment ==
  ASSUME NEW S, NEW n \in Nat, NEW s \in [1 .. n -> S]
  PROVE  s \in Seq(S) /\ Len(s) = n
OBVIOUS
---------------------------------------------------------------------------
LEMMA InvInit == Init => SearchInv
BY DEF Init, SearchInv, BestKept

(* The first identity of the search takes the first strategy of each op. *)
LEMMA SeedIsIdentity ==
  ASSUME space \in Seq(Entries)
  PROVE  seed \in Identities
<1>1. \A i \in DOMAIN space : Len(space[i].strategies) > 0
  BY DEF Entries
<1>2. Len(Letters) = 9
  BY DEF Letters
<1> QED BY <1>1, <1>2 DEF seed, Identities

(* While ops are looked at nothing is bred. *)
LEMMA LabelOpKeeps ==
  ASSUME SearchInv, LabelOp
  PROVE  SearchInv'
BY DEF SearchInv, LabelOp, Visit, gaVars, BestKept, Entries

LEMMA AddKeeps ==
  ASSUME SearchInv, addOpStrategyIfExist
  PROVE  SearchInv'
<1> DEFINE e == [op |-> visited + 1, strategies |-> Strategies]
<1>1. e \in Entries
  <2>1. visited + 1 \in Nat /\ Len(e.strategies) > 0
    BY DEF SearchInv, addOpStrategyIfExist
  <2>2. e \in {[op |-> i, strategies |-> OpStrategies(ops[i], NProcs)] : i \in Nat}
    BY <2>1 DEF Strategies
  <2> QED BY <2>1, <2>2 DEF Entries
<1>2. Entries' = Entries /\ space' = Append(space, e)
  BY DEF addOpStrategyIfExist, Visit, Entries
<1>3. space' \in Seq(Entries')
  BY <1>1, <1>2, AppendProperties DEF SearchInv
<1> QED BY <1>3 DEF SearchInv, addOpStrategyIfExist, Visit, gaVars, BestKept

LEMMA SkipOpKeeps ==
  ASSUME SearchInv, SkipOp
  PROVE  SearchInv'
BY DEF SearchInv, SkipOp, Visit, gaVars, BestKept, Entries

LEMMA EndVisitKeeps ==
  ASSUME SearchInv, EndVisit
  PROVE  SearchInv'
BY DEF SearchInv, BestKept, EndVisit, gaVars, Entries

LEMMA InitPopulationKeeps ==
  ASSUME SearchInv, InitPopulation
  PROVE  SearchInv'
<1>1. Identities' = Identities /\ Entries' = Entries
  BY DEF InitPopulation, labelVars, Identities, Entries
<1>2. seed \in Identities /\ seen = {}
  BY SeedIsIdentity DEF SearchInv, InitPopulation
<1>3. population' \in [1 .. PopulationSize -> Identities]
  BY <1>2 DEF InitPopulation
<1> QED BY <1>1, <1>2, <1>3 DEF SearchInv, InitPopulation, labelVars, BestKept, Cheapest

LEMMA SortKeeps ==
  ASSUME SearchInv, Sort
  PROVE  SearchInv'
<1>1. Identities' = Identities /\ Entries' = Entries
      /\ visited' \in Nat /\ space' \in Seq(Entries')
  BY DEF Sort, labelVars, Identities, Entries, SearchInv
<1>2. PICK f \in Orders :
        /\ Ascending(Ordered(f))
        /\ population' = Ordered(f)
        /\ children' = [i \in 1 .. NumberElites |-> Ordered(f)[i]]
  BY DEF Sort
<1>3. /\ phase = "sort" /\ phase' = "breed" /\ cost' = cost
      /\ cost \in [Identities -> Costs]
      /\ population \in [1 .. PopulationSize -> Identities]
      /\ seen \subseteq Identities /\ Cheapest(population[1])
      /\ seen' = seen \cup {population[i] : i \in 1 .. PopulationSize}
  BY DEF Sort, SearchInv
<1>4. /\ NumberElites \in 1 .. PopulationSize /\ PopulationSize \in Nat /\ Costs \subseteq Nat
      /\ 1 \in 1 .. PopulationSize
  BY SearchAssumption
<1>5. /\ population' \in [1 .. PopulationSize -> Identities]
      /\ \A i \in 1 .. PopulationSize : cost[population'[1]] <= cost[population[i]]
  BY <1>2, <1>3, SortedFirst
<1>6. children' \in [1 .. NumberElites -> Identities]
  BY <1>2, <1>4, <1>5
<1>7. children' \in Seq(Identities) /\ Len(children') = NumberElites
  BY <1>4, <1>6, Segment
<1>8. children'[1] = population'[1]
  BY <1>2, <1>4
<1>9. seen' \subseteq Identities
  BY <1>3
<1>10. ASSUME NEW other \in seen' PROVE cost[population'[1]] <= cost[other]
  <2>1. CASE \E i \in 1 .. PopulationSize : other = population[i]
    BY <1>5, <2>1
  <2>2. CASE other \in seen
    <3>1. cost[population[1]] <= cost[other]
      BY <1>3, <2>2 DEF Cheapest
    <3>2. cost[population'[1]] <= cost[population[1]]
      BY <1>4, <1>5
    <3>3. /\ cost[other] \in Nat /\ cost[population[1]] \in Nat
          /\ cost[population'[1]] \in Nat
      BY <1>3, <1>4, <1>5, <2>2
    <3> QED BY <3>1, <3>2, <3>3
  <2> QED BY <1>3, <2>1, <2>2
<1>11. Cheapest(children[1])'
  BY <1>3, <1>8, <1>10 DEF Cheapest
<1>12. BestKept'
  BY <1>3 DEF BestKept
<1> QED BY <1>1, <1>3, <1>4, <1>5, <1>7, <1>9, <1>11, <1>12 DEF SearchInv

LEMMA BreedKeeps ==
  ASSUME SearchInv, Breed
  PROVE  SearchInv'
<1>1. Identities' = Identities /\ Entries' = Entries
  BY DEF Breed, labelVars, Identities, Entries
<1>2. /\ phase = "breed" /\ phase' = "breed" /\ cost' = cost /\ seen' = seen
      /\ population' = population
      /\ children \in Seq(Identities) /\ Len(children) \in 1 .. PopulationSize
      /\ Len(children) < PopulationSize /\ Cheapest(children[1])
  BY DEF Breed, SearchInv
<1>3. PICK c \in Identities : \E m \in mutate(c) : children' = Append(children, m)
  BY DEF Breed, crossover
<1>4. PICK m \in Identities : children' = Append(children, m)
  <2>1. mutate(c) \subseteq Identities
    BY DEF mutate, Identities
  <2> QED BY <1>3, <2>1
<1>5. /\ children' \in Seq(Identities) /\ Len(children') = Len(children) + 1
      /\ children'[1] = children[1]
  BY <1>2, <1>4, AppendProperties
<1>6. Len(children') \in 1 .. PopulationSize
  BY <1>2, <1>5, SearchAssumption
<1>7. Cheapest(children[1])'
  BY <1>2, <1>5 DEF Cheapest
<1> QED BY <1>1, <1>2, <1>5, <1>6, <1>7 DEF SearchInv, Breed, labelVars, BestKept

(* The children are the next population: what led them leads it. *)
LEMMA EndBreedKeeps ==
  ASSUME SearchInv, EndBreed
  PROVE  SearchInv'
<1>1. Identities' = Identities /\ Entries' = Entries
  BY DEF EndBreed, labelVars, Identities, Entries
<1>2. /\ population' = children /\ cost' = cost /\ seen' = seen /\ phase' = "sort"
      /\ children \in Seq(Identities) /\ Len(children) = PopulationSize
      /\ Cheapest(children[1])
  BY DEF EndBreed, SearchInv
<1>3. population' \in [1 .. PopulationSize -> Identities]
  BY <1>2, LenProperties
<1>4. Cheapest(population[1])'
  BY <1>2 DEF Cheapest
<1> QED BY <1>1, <1>2, <1>3, <1>4 DEF SearchInv, EndBreed, labelVars, BestKept

LEMMA EndSearchKeeps ==
  ASSUME SearchInv, EndSearch
  PROVE  SearchInv'
<1>1. /\ Identities' = Identities /\ Entries' = Entries
      /\ \A id : Labels(id)' = Labels(id)
  BY DEF EndSearch, gaVars, Identities, Entries, Labels
<1>2. population[1] \in Identities /\ Cheapest(population[1])
  BY SearchAssumption DEF EndSearch, SearchInv
<1>3. BestKept'
  BY <1>1, <1>2 DEF EndSearch, gaVars, BestKept, Cheapest
<1> QED BY <1>1, <1>3 DEF SearchInv, EndSearch, gaVars

LEMMA StutterKeeps ==
  ASSUME SearchInv, UNCHANGED vars
  PROVE  SearchInv'
<1>1. /\ Identities' = Identities /\ Entries' = Entries
      /\ \A id : Labels(id)' = Labels(id)
  BY DEF vars, labelVars, Identities, Entries, Labels
<1> QED BY <1>1 DEF SearchInv, vars, labelVars, gaVars, BestKept, Cheapest

---------------------------------------------------------------------------
LEMMA InvNext == SearchInv /\ [SearchNext]_vars => SearchInv'
<1> SUFFICES ASSUME SearchInv, [SearchNext]_vars PROVE SearchInv'
  OBVIOUS
<1>1. CASE LabelOp \/ addOpStrategyIfExist \/ SkipOp \/ EndVisit
  BY <1>1, LabelOpKeeps, AddKeeps, SkipOpKeeps, EndVisitKeeps
<1>2. CASE InitPopulation
  BY <1>2, InitPopulationKeeps
<1>3. CASE Sort
  BY <1>3, SortKeeps
<1>4. CASE Breed
  BY <1>4, BreedKeeps
<1>5. CASE EndBreed
  BY <1>5, EndBreedKeeps
<1>6. CASE EndSearch
  BY <1>6, EndSearchKeeps
<1>7. CASE DrawAgain \/ Finished \/ UNCHANGED vars
  BY <1>7, StutterKeeps DEF DrawAgain, Finished
<1> QED BY <1>1, <1>2, <1>3, <1>4, <1>5, <1>6, <1>7 DEF SearchNext

(***************************************************************************)
(* After a genetic search (GeneticSearch::run, getBestIdentity) the labels *)
(* are those of an identity that costs no more than any that was sorted,   *)
(* for every graph, cost function and size of population.                  *)
(***************************************************************************)
THEOREM SearchKeepsBest == Spec => []BestKept
<1>1. SearchInv => BestKept
  BY DEF SearchInv
<1> QED BY <1>1, InvInit, InvNext, PTL DEF Spec

---------------------------------------------------------------------------
(***************************************************************************)
(* Whose the labels are.  The space of the search holds one list for each  *)
(* op passed that has legal strategies, under the op's own number; what    *)
(* runLabeling gives is final.                                             *)
(***************************************************************************)
Searched == {"handcraft", "genetic"}

(* The lists of the space are their ops', and none is missing. *)
Catalogued ==
  /\ \A i \in DOMAIN space :
       /\ space[i].op \in 1 .. visited
       /\ space[i].strategies = OpStrategies(ops[space[i].op], NProcs)
       /\ Len(space[i].strategies) > 0
  /\ \A o \in 1 .. visited :
       Len(OpStrategies(ops[o], NProcs)) = 0 \/ \E i \in DOMAIN space : space[i].op = o

LabelInv ==
  /\ mode \in Modes /\ Len(ops) \in Nat
  /\ DOMAIN ops = 1 .. Len(ops) /\ DOMAIN label = DOMAIN ops
  /\ visited \in 0 .. Len(ops) /\ (phase # "visit" => visited = Len(ops))
  /\ phase \in {"init", "sort", "breed"} => mode = "genetic"
  /\ mode \in Searched => Catalogued
  /\ mode \notin Searched => \A o \in DOMAIN ops : IF o <= visited THEN Own(o) ELSE label[o] = <<>>
  /\ LabelsOwn

LEMMA LabelInit == Init => LabelInv
<1> SUFFICES ASSUME Init PROVE LabelInv
  OBVIOUS
<1>1. PICK s \in Starts : ops = s.ops /\ mode = s.mode
  BY DEF Init
<1>2. mode \in Modes /\ DOMAIN ops = 1 .. Len(ops) /\ Len(ops) \in Nat
  BY <1>1, SearchAssumption
<1>3. visited = 0 /\ space = <<>> /\ label = [o \in DOMAIN ops |-> <<>>] /\ phase = "visit"
  BY DEF Init
<1>4. Catalogued
  BY <1>3 DEF Catalogued
<1> QED BY <1>2, <1>3, <1>4 DEF LabelInv, LabelsOwn

(* The labels of an identity: each op gets the strategy of its own list that the identity names. *)
LEMMA LabelsOfIdentity ==
  ASSUME Catalogued, visited = Len(ops), DOMAIN ops = 1 .. Len(ops),
         NEW id \in Identities, NEW o \in DOMAIN ops
  PROVE  LET legal == OpStrategies(ops[o], NProcs)
         IN  IF Len(legal) = 0 THEN Labels(id)[o] = <<>>
             ELSE \E i \in 1 .. Len(legal) : Labels(id)[o] = legal[i]
<1> DEFINE legal == OpStrategies(ops[o], NProcs)
<1>1. Len(legal) \in Nat
  BY SMT
<1> HIDE DEF legal
<1>2. CASE \E i \in DOMAIN space : space[i].op = o
  <2> DEFINE i == CHOOSE i \in DOMAIN space : space[i].op = o
  <2>1. i \in DOMAIN space /\ space[i].op = o
    BY <1>2
  <2> HIDE DEF i
  <2>2. space[i].strategies = legal /\ Len(legal) > 0
    BY <2>1 DEF Catalogued, legal
  <2>3. Labels(id)[o] = space[i].strategies[id[i] + 1]
    BY <1>2 DEF Labels, i
  <2>4. id[i] \in 0 .. Len(Letters) /\ id[i] < Len(legal)
    BY <2>1, <2>2 DEF Identities
  <2>5. Len(Letters) \in Nat
    BY DEF Letters
  <2>6. id[i] + 1 \in 1 .. Len(legal)
    BY <1>1, <2>4, <2>5
  <2> QED BY <1>1, <2>2, <2>3, <2>6 DEF legal
<1>3. CASE ~ \E i \in DOMAIN space : space[i].op = o
  <2>1. Len(legal) = 0
    BY <1>3 DEF Catalogued, legal
  <2>2. Labels(id)[o] = <<>>
    BY <1>3 DEF Labels
  <2> QED BY <2>1, <2>2 DEF legal
<1> QED BY <1>2, <1>3

(* So a graph that is given them is labelled well. *)
LEMMA LabelsGiven ==
  ASSUME LabelInv, mode \in Searched, visited = Len(ops), NEW id \in Identities,
         label' = Labels(id), UNCHANGED <<ops, mode, visited, space>>,
         phase' \in {"init", "labelled"}, phase' = "init" => mode = "genetic"
  PROVE  LabelInv'
<1>1. \A o \in DOMAIN ops : Own(o)'
  BY LabelsOfIdentity DEF LabelInv, Own, Searched
<1>2. DOMAIN label' = DOMAIN ops
  BY DEF Labels
<1> QED BY <1>1, <1>2 DEF LabelInv, LabelsOwn, Catalogued, Searched

LEMMA LabelOpOwn ==
  ASSUME LabelInv, LabelOp
  PROVE  LabelInv'
<1>1. /\ phase = "visit" /\ phase' = phase /\ visited < Len(ops) /\ visited' = visited + 1
      /\ mode \in {"random", "data_parallel"} /\ mode' = mode /\ ops' = ops /\ Len(Strategies) > 0
  BY DEF LabelOp, Visit
<1>2. PICK i \in 1 .. Len(Strategies) :
        label' = [label EXCEPT ![visited + 1] =
                    IF mode = "data_parallel" THEN Forced(ops[visited + 1]) ELSE Strategies[i]]
  BY DEF LabelOp
<1>3. visited + 1 \in DOMAIN ops /\ visited' \in 0 .. Len(ops) /\ mode \notin Searched
  BY <1>1 DEF LabelInv, Searched
<1>4. /\ DOMAIN label' = DOMAIN ops /\ \A o \in DOMAIN ops \ {visited + 1} : label'[o] = label[o]
      /\ label'[visited + 1] = IF mode = "data_parallel" THEN Forced(ops[visited + 1]) ELSE Strategies[i]
  BY <1>2, <1>3 DEF LabelInv
<1>5. ASSUME NEW o \in DOMAIN ops, o = visited + 1 PROVE Own(o)'
  <2>1. Strategies = OpStrategies(ops[o], NProcs) /\ Len(Strategies) # 0
    BY <1>1, <1>5 DEF Strategies
  <2>2. label'[o] = IF mode = "data_parallel" THEN Forced(ops[o]) ELSE Strategies[i]
    BY <1>4, <1>5
  <2> QED BY <1>1, <2>1, <2>2 DEF Own
<1>6. ASSUME NEW o \in DOMAIN ops PROVE IF o <= visited' THEN Own(o)' ELSE label'[o] = <<>>
  <2>1. CASE o = visited + 1
    BY <1>1, <1>5, <2>1 DEF LabelInv
  <2>2. CASE o # visited + 1
    <3>1. label'[o] = label[o] /\ (o <= visited' <=> o <= visited)
      BY <1>1, <1>3, <1>4, <2>2 DEF LabelInv
    <3>2. IF o <= visited THEN Own(o) ELSE label[o] = <<>>
      BY <1>3 DEF LabelInv
    <3> QED BY <1>1, <3>1, <3>2 DEF Own
  <2> QED BY <2>1, <2>2
<1> QED BY <1>1, <1>3, <1>4, <1>6 DEF LabelInv, LabelsOwn

LEMMA AddCatalogues ==
  ASSUME SearchInv, LabelInv, addOpStrategyIfExist
  PROVE  LabelInv'
<1> DEFINE e == [op |-> visited + 1, strategies |-> Strategies]
<1>1. /\ phase = "visit" /\ phase' = phase /\ visited < Len(ops) /\ visited' = visited + 1
      /\ mode \in Searched /\ mode' = mode /\ ops' = ops /\ label' = label
      /\ Len(Strategies) > 0 /\ space' = Append(space, e)
  BY DEF addOpStrategyIfExist, Visit, Searched
<1>2. visited \in Nat /\ visited' \in 0 .. Len(ops) /\ Catalogued
  BY <1>1 DEF LabelInv
<1>3. space \in Seq(Entries) /\ e \in Entries \cup {e}
  BY DEF SearchInv
<1>4. /\ DOMAIN space = 1 .. Len(space) /\ Len(space) \in Nat
      /\ DOMAIN space' = 1 .. Len(space) + 1 /\ space'[Len(space) + 1] = e
      /\ \A i \in 1 .. Len(space) : space'[i] = space[i]
  <2>1. space \in Seq(Entries \cup {e})
    BY <1>3
  <2> HIDE DEF e
  <2> QED BY <1>1, <2>1, AppendProperties, LenProperties
<1>5. Catalogued'
  <2>1. ASSUME NEW i \in DOMAIN space'
        PROVE  /\ space'[i].op \in 1 .. visited'
               /\ space'[i].strategies = OpStrategies(ops[space'[i].op], NProcs)
               /\ Len(space'[i].strategies) > 0
    <3>1. CASE i = Len(space) + 1
      <4>1. space'[i].op = visited + 1 /\ space'[i].strategies = Strategies
        BY <1>4, <3>1
      <4> QED BY <1>1, <1>2, <4>1 DEF Strategies
    <3>2. CASE i # Len(space) + 1
      <4>1. i \in DOMAIN space /\ space'[i] = space[i]
        BY <1>4, <3>2
      <4> QED BY <1>1, <1>2, <4>1 DEF Catalogued
    <3> QED BY <3>1, <3>2
  <2>2. ASSUME NEW o \in 1 .. visited'
        PROVE  Len(OpStrategies(ops[o], NProcs)) = 0 \/ \E i \in DOMAIN space' : space'[i].op = o
    <3>1. CASE o = visited + 1
      <4>1. Len(space) + 1 \in DOMAIN space' /\ space'[Len(space) + 1].op = visited + 1
        BY <1>4
      <4> QED BY <3>1, <4>1
    <3>2. CASE o # visited + 1
      <4>1. o \in 1 .. visited
        BY <1>1, <1>2, <3>2
      <4>2. CASE \E i \in DOMAIN space : space[i].op = o
        <5>1. PICK i \in DOMAIN space : space[i].op = o
          BY <4>2
        <5>2. i \in DOMAIN space' /\ space'[i].op = o
          BY <1>4, <5>1
        <5> QED BY <5>2
      <4> QED BY <1>2, <4>1, <4>2 DEF Catalogued
    <3> QED BY <3>1, <3>2
  <2> QED BY <1>1, <2>1, <2>2 DEF Catalogued
<1> QED BY <1>1, <1>2, <1>5 DEF LabelInv, LabelsOwn

LEMMA SkipOpOwn ==
  ASSUME LabelInv, SkipOp
  PROVE  LabelInv'
<1>1. /\ phase = "visit" /\ phase' = phase /\ visited < Len(ops) /\ visited' = visited + 1
      /\ mode' = mode /\ ops' = ops /\ label' = label /\ space' = space
      /\ Len(OpStrategies(ops[visited + 1], NProcs)) = 0
  BY DEF SkipOp, Visit, Strategies
<1>2. visited \in Nat /\ visited' \in 0 .. Len(ops)
  BY <1>1 DEF LabelInv
<1>3. \A o \in 1 .. visited' : o \in 1 .. visited \/ o = visited + 1
  BY <1>1, <1>2
<1>4. \A o \in 1 .. visited : o \in 1 .. visited'
  BY <1>1, <1>2
<1>5. Catalogued => Catalogued'
  BY <1>1, <1>3, <1>4 DEF Catalogued
<1>6. ASSUME mode \notin Searched, NEW o \in DOMAIN ops
      PROVE  IF o <= visited' THEN Own(o)' ELSE label'[o] = <<>>
  <2>1. IF o <= visited THEN Own(o) ELSE label[o] = <<>>
    BY <1>6 DEF LabelInv
  <2>2. CASE o = visited + 1
    <3>1. ~ (o <= visited)
      BY <1>2, <2>2
    <3> QED BY <1>1, <2>1, <2>2, <3>1 DEF Own
  <2>3. CASE o # visited + 1
    <3>1. o <= visited' <=> o <= visited
      BY <1>1, <1>2, <2>3 DEF LabelInv
    <3> QED BY <1>1, <2>1, <3>1 DEF Own
  <2> QED BY <2>2, <2>3
<1> QED BY <1>1, <1>2, <1>5, <1>6 DEF LabelInv, LabelsOwn

LEMMA EndVisitOwn ==
  ASSUME SearchInv, LabelInv, EndVisit
  PROVE  LabelInv'
<1>1. /\ phase = "visit" /\ visited = Len(ops) /\ UNCHANGED <<ops, mode, visited, space>>
      /\ phase' = IF mode = "genetic" THEN "init" ELSE "labelled"
      /\ label' = IF mode = "handcraft" THEN Labels(seed) ELSE label
  BY DEF EndVisit
<1>2. CASE mode = "handcraft"
  <2>1. seed \in Identities
    BY SeedIsIdentity DEF SearchInv
  <2> QED BY <1>1, <1>2, <2>1, LabelsGiven DEF Searched
<1>3. CASE mode = "genetic"
  BY <1>1, <1>3 DEF LabelInv, LabelsOwn, Catalogued, Searched
<1>4. CASE mode \notin Searched
  <2>1. \A o \in DOMAIN ops : Own(o)
    BY <1>1, <1>4 DEF LabelInv
  <2>2. label' = label
    BY <1>1, <1>4 DEF Searched
  <2>3. \A o \in DOMAIN ops : Own(o)'
    BY <1>1, <2>1, <2>2 DEF Own
  <2> QED BY <1>1, <1>4, <2>2, <2>3 DEF LabelInv, LabelsOwn, Searched
<1> QED BY <1>2, <1>3, <1>4 DEF Searched

LEMMA EndSearchOwn ==
  ASSUME SearchInv, LabelInv, EndSearch
  PROVE  LabelInv'
<1>1. population[1] \in Identities
  BY SearchAssumption DEF SearchInv, EndSearch
<1>2. mode \in Searched /\ visited = Len(ops)
  BY DEF LabelInv, EndSearch, Searched
<1> QED BY <1>1, <1>2, LabelsGiven DEF EndSearch

(* The search itself changes no label and no list. *)
LEMMA SearchLeavesLabels ==
  ASSUME LabelInv, UNCHANGED <<ops, mode, labelVars>>,
         \/ phase' = phase
         \/ phase \in {"init", "sort", "breed"} /\ phase' \in {"sort", "breed"}
  PROVE  LabelInv'
BY DEF LabelInv, LabelsOwn, Own, Catalogued, labelVars

LEMMA LabelNext == SearchInv /\ LabelInv /\ [SearchNext]_vars => LabelInv'
<1> SUFFICES ASSUME SearchInv, LabelInv, [SearchNext]_vars PROVE LabelInv'
  OBVIOUS
<1>1. CASE LabelOp \/ addOpStrategyIfExist \/ SkipOp \/ EndVisit \/ EndSearch
  BY <1>1, LabelOpOwn, AddCatalogues, SkipOpOwn, EndVisitOwn, EndSearchOwn
<1>2. CASE InitPopulation \/ Sort \/ Breed \/ EndBreed
  BY <1>2, SearchLeavesLabels DEF InitPopulation, Sort, Breed, EndBreed
<1>3. CASE DrawAgain \/ Finished \/ UNCHANGED vars
  BY <1>3, SearchLeavesLabels DEF DrawAgain, Finished, vars
<1> QED BY <1>1, <1>2, <1>3 DEF SearchNext

(***************************************************************************)
(* However a graph is labelled (runLabeling, runHandCraftLabeling or the   *)
(* genetic search): every op that has legal strategies ends with one of    *)
(* its own, or with the forced one under data parallelism, and no other op *)
(* ends with any.                                                          *)
(***************************************************************************)
THEOREM EveryLabelOwn == Spec => []LabelsOwn
<1>1. LabelInv => LabelsOwn
  BY DEF LabelInv
<1> QED BY <1>1, InvInit, InvNext, LabelInit, LabelNext, PTL DEF Spec
=============================================================================
