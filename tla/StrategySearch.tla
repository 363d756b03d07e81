----------------------------- MODULE StrategySearch -----------------------------
(***************************************************************************)
(* ParallelLabelingPass: a strategy for every op that has a legal one: at  *)
(* random, for data parallelism, the first of each op, or found by a       *)
(* genetic search for the identity (an index into the strategies of each   *)
(* op) whose parallel graph communicates least.                            *)
(***************************************************************************)
EXTENDS DividedOps

CONSTANTS
  Starts,          \* graphs, as their ops in topological order, with how they are labelled
  NProcs,          \* Config::mpi_size
  PopulationSize, NumberElites, NumGenerations,
  Costs            \* costs of communication that the search may meet

Modes == {"random", "data_parallel", "handcraft", "genetic"}

ASSUME SearchAssumption ==
  /\ \A s \in Starts : s.mode \in Modes /\ DOMAIN s.ops = 1 .. Len(s.ops)
  /\ PopulationSize \in Nat /\ PopulationSize > 1
  /\ NumGenerations \in Nat
  /\ NumberElites \in 1 .. PopulationSize
  /\ Costs \subseteq Nat

VARIABLES
  ops,         \* the ops in topological order
  mode,        \* how to label them
  visited,     \* ops looked at
  space,       \* _graph_strategies: the ops that have legal strategies, and these
  label,       \* the StrategyLabel of each op, <<>> if it has none
  cost,        \* what the parallel clone of the graph communicates, of each identity
  population,  \* identities
  children,    \* the next population, as far as it is bred
  generation,  \* populations bred
  phase,       \* visit, init, sort, breed or labelled
  seen         \* history: the identities of all populations that were sorted

labelVars == <<visited, space, label>>
gaVars == <<cost, population, children, generation, seen>>
vars == <<ops, mode, phase, labelVars, gaVars>>

(* No op has more strategies than there are letters. *)
Identities ==
  {id \in [DOMAIN space -> 0 .. Len(Letters)] :
     \A i \in DOMAIN space : id[i] < Len(space[i].strategies)}

Init ==
  /\ \E s \in Starts : ops = s.ops /\ mode = s.mode
  /\ visited = 0 /\ space = <<>> /\ label = [o \in DOMAIN ops |-> <<>>]
  /\ cost = <<>> /\ population = <<>> /\ children = <<>> /\ generation = 0 /\ seen = {}
  /\ phase = "visit"

---------------------------------------------------------------------------
(* The ops are looked at in order. *)

Visit(modes) ==
  /\ phase = "visit" /\ visited < Len(ops) /\ mode \in modes
  /\ visited' = visited + 1
  /\ UNCHANGED <<ops, mode, phase, gaVars>>

Strategies == OpStrategies(ops[visited + 1], NProcs)

Forced(op) == generateDataParStgy(op.kind, op.cn)

(* runLabeling; the forced strategy is not asked whether it is legal. *)
LabelOp ==
  /\ Visit({"random", "data_parallel"}) /\ Len(Strategies) > 0
  /\ \E best \in {Strategies[i] : i \in 1 .. Len(Strategies)} :
       label' = [label EXCEPT ![visited + 1] =
                   IF mode = "data_parallel" THEN Forced(ops[visited + 1]) ELSE best]
  /\ UNCHANGED space

addOpStrategyIfExist ==
  /\ Visit({"handcraft", "genetic"}) /\ Len(Strategies) > 0
  /\ space' = Append(space, [op |-> visited + 1, strategies |-> Strategies])
  /\ UNCHANGED label

(* No legal strategy, or not a parallelizable op. *)
SkipOp ==
  /\ Visit(Modes) /\ Len(Strategies) = 0
  /\ UNCHANGED <<space, label>>

(* The labels an identity stands for. *)
Labels(id) ==
  [o \in DOMAIN ops |->
     IF \E i \in DOMAIN space : space[i].op = o
     THEN LET i == CHOOSE i \in DOMAIN space : space[i].op = o
          IN  space[i].strategies[id[i] + 1]
     ELSE <<>>]

seed == [i \in DOMAIN space |-> 0]

EndVisit ==
  /\ phase = "visit" /\ visited = Len(ops)
  /\ phase' = IF mode = "genetic" THEN "init" ELSE "labelled"
  /\ label' = IF mode = "handcraft" THEN Labels(seed) ELSE label
  /\ UNCHANGED <<ops, mode, visited, space, gaVars>>

---------------------------------------------------------------------------
(* GeneticSearch. *)

(* The seed, and random identities. *)
InitPopulation ==
  /\ phase = "init"
  /\ cost' \in [Identities -> Costs]
  /\ \E rest \in [2 .. PopulationSize -> Identities] :
       population' = [i \in 1 .. PopulationSize |-> IF i = 1 THEN seed ELSE rest[i]]
  /\ phase' = "sort"
  /\ UNCHANGED <<ops, mode, labelVars, children, generation, seen>>

(* Mutant: ordered as getNormAccumFitness says. *)
Descending(s) == \A i, j \in DOMAIN s : i < j => cost[s[i]] >= cost[s[j]]

Ascending(s) == \A i, j \in DOMAIN s : i < j => cost[s[i]] <= cost[s[j]]

(* The orders the population can be put in, and the population in the order f. *)
Orders == Bijection(1 .. PopulationSize, 1 .. PopulationSize)

Ordered(f) == [i \in 1 .. PopulationSize |-> population[f[i]]]

(* std::sort, which may put equal elements in any order; the elites are the first children. *)
Sort ==
  /\ phase = "sort" /\ generation < NumGenerations
  /\ \E f \in Orders :
       /\ Ascending(Ordered(f))
       /\ population' = Ordered(f)
       /\ children' = [i \in 1 .. NumberElites |-> Ordered(f)[i]]
  /\ seen' = seen \cup {population[i] : i \in 1 .. PopulationSize}
  /\ phase' = "breed"
  /\ UNCHANGED <<ops, mode, labelVars, cost, generation>>

(* The sum over fit[i]: if one cost is 0 then all the accumulated fitnesses are NaN. *)
Defined == \A i \in 1 .. PopulationSize : cost[population[i]] > 0

(* Mutant: one draw for both parents, which are never two. *)
ParentsOfOneDraw == {ij \in (1 .. PopulationSize) \X (1 .. PopulationSize) : ij[1] = ij[2] /\ ij[1] # ij[2]}

(* Two draws; lower_bound finds the first individual for each if NaN is all there is. *)
Parents ==
  {ij \in (1 .. PopulationSize) \X (1 .. PopulationSize) : Defined /\ ij[1] # ij[2]}

crossover(p0, p1) ==
  {c \in Identities : \A i \in DOMAIN c : c[i] \in {p0[i], p1[i]}}

(* Each gene may be drawn again. *)
mutate(c) ==
  {[i \in DOMAIN c |-> IF i \in redrawn THEN drawn[i] ELSE c[i]] :
     redrawn \in SUBSET DOMAIN c, drawn \in Identities}

Breed ==
  /\ phase = "breed" /\ Len(children) < PopulationSize
  /\ \E ij \in Parents :
       \E c \in crossover(population[ij[1]], population[ij[2]]) :
         \E m \in mutate(c) : children' = Append(children, m)
  /\ UNCHANGED <<ops, mode, phase, labelVars, cost, population, generation, seen>>

(* The same parent twice, or no crossover: the draws are repeated. *)
DrawAgain == phase = "breed" /\ Len(children) < PopulationSize /\ UNCHANGED vars

EndBreed ==
  /\ phase = "breed" /\ Len(children) = PopulationSize
  /\ population' = children /\ children' = <<>>
  /\ generation' = generation + 1
  /\ phase' = "sort"
  /\ UNCHANGED <<ops, mode, labelVars, cost, seen>>

(* getBestIdentity and addStrategyToGraph. *)
EndSearch ==
  /\ phase = "sort" /\ generation = NumGenerations
  /\ label' = Labels(population[1])
  /\ phase' = "labelled"
  /\ UNCHANGED <<ops, mode, visited, space, gaVars>>

(* The graph is labelled. *)
Finished == phase = "labelled" /\ UNCHANGED vars

SearchNext ==
  \/ LabelOp \/ addOpStrategyIfExist \/ SkipOp \/ EndVisit
  \/ InitPopulation \/ Sort \/ Breed \/ DrawAgain \/ EndBreed \/ EndSearch \/ Finished

Spec == Init /\ [][SearchNext]_vars /\ WF_vars(SearchNext)

---------------------------------------------------------------------------
(* Properties. *)

(***************************************************************************)
(* No label is one of another op: an op that has legal strategies gets one *)
(* of its own, or under data parallelism the forced one, and any other op  *)
(* gets none.  The search names a strategy by an index into the list of an *)
(* entry of its space, and entries and ops are counted differently.        *)
(***************************************************************************)
Own(o) ==
  LET legal == OpStrategies(ops[o], NProcs)
  IN  IF Len(legal) = 0 THEN label[o] = <<>>
      ELSE IF mode = "data_parallel" THEN label[o] = Forced(ops[o])
      ELSE \E i \in 1 .. Len(legal) : label[o] = legal[i]

LabelsOwn == phase = "labelled" => \A o \in DOMAIN ops : Own(o)

(***************************************************************************)
(* Every label is one of its own op's, and processes that run the op on    *)
(* their parts compute what the whole op computes, except for the listed   *)
(* strategies, and for them they never do.  (Of an op that no code is      *)
(* generated for there is nothing to compare.)  A label divides the axes   *)
(* it cuts, but a forced one need not: runLabeling only asks that some     *)
(* strategy of the op is legal.                                            *)
(***************************************************************************)
StrategiesSound ==
  /\ LabelsOwn
  /\ phase = "labelled" =>
       \A o \in DOMAIN ops : label[o] # <<>> =>
         LET op == ops[o]
             legal == Legal(label[o], op.dims, NProcs)
         IN  /\ mode # "data_parallel" => legal
             /\ (legal /\ op.kind \in KernelKinds) =>
                  (Exact(op, label[o], NProcs)
                     <=> \A u \in Inexact : u[1] = op.kind => label[o] # Cut(u[1], u[2]))

(***************************************************************************)
(* The labels are those of the cheapest identity of all populations that   *)
(* were sorted.  (That leaves out the last: getBestIdentity takes its      *)
(* first element, an elite, before it is sorted.)                          *)
(***************************************************************************)
BestKept ==
  (phase = "labelled" /\ mode = "genetic") =>
    \E id \in Identities :
      label = Labels(id) /\ \A other \in seen : cost[id] <= cost[other]

(***************************************************************************)
(* Kernels of gradient ops compute the gradients of their forward kernels, *)
(* save the gradient of the bias of a convolution with padding.            *)
(***************************************************************************)
GradientsAdjoint == \A o \in DOMAIN ops : GradientsRight(ops[o])

(***************************************************************************)
(* The gradient of the bias of a product is the sum of the gradients of    *)
(* the output rows it is added to: dB = reduceadd dy                       *)
(* (src/src/op/dlOp/dlOpEinsum.cpp:311), of as many elements as a row has  *)
(* (src/src/codegen/Codegen.cpp:1528, which asserts it).                   *)
(***************************************************************************)
BiasGradients == \A o \in DOMAIN ops : ReductionRight(ops[o])

(* The labelling ends, unless a graph of cost 0 has made the roulette wheel undefined. *)
SearchEnds == <>(phase = "labelled" \/ (phase = "breed" /\ ~Defined))
=============================================================================
