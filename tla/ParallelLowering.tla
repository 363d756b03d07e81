---------------------------- MODULE ParallelLowering ----------------------------
(***************************************************************************)
(* The parallel lowering pass: a dataflow graph whose ops were labelled    *)
(* with parallel strategies is rewritten so that every labelled op reads   *)
(* and writes parallel tensors, and communication ops (Scatter, Transform, *)
(* Gather/Reduce) convert between an original tensor and its layouts.      *)
(*                                                                         *)
(* Both lowerings that run() selects are here: MEM_SAVING, which remembers *)
(* only the current layout of a tensor, and COMM_SAVING, which remembers   *)
(* every layout it ever made.  One action is one iteration of one of their *)
(* loops.  The graph and the configuration are chosen in Init.             *)
(***************************************************************************)
EXTENDS Integers, Sequences

CONSTANTS
  Graphs,    \* the labelled graphs, each with its configuration (IsGraph)
  MaxAxis    \* the largest axis a strategy cuts

(***************************************************************************)
(* Strategies of one tensor: -2 a partial sum to be reduced, -1 replicated,*)
(* i >= 0 cut along axis i.                                                *)
(***************************************************************************)
Strategy == -2 .. MaxAxis

(***************************************************************************)
(* An op has its operands, its results and one strategy per operand and    *)
(* result (<<>>: no StrategyLabel).  An operand is never a partial sum and *)
(* a result never replicated: that is what generateStgy and                *)
(* generateDataParStgy produce.  An SGD op reads <<weight, gradient,       *)
(* momentum>> and carries no label of its own (its einOp is 0); autoDiff   *)
(* makes its gradient and momentum new Tensors, which are not trained.     *)
(***************************************************************************)
IsOp(G, o) ==
  /\ o.ins \in Seq(1 .. G.nt)
  /\ o.outs \in Seq(1 .. G.nt)
  /\ o.sgd \in BOOLEAN
  /\ o.stgy \in Seq(Strategy)
  /\ o.stgy # <<>> =>
       /\ Len(o.stgy) = Len(o.ins) + Len(o.outs)
       /\ \A p \in 1 .. Len(o.ins) : o.stgy[p] # -2
       /\ \A q \in 1 .. Len(o.outs) : o.stgy[Len(o.ins) + q] # -1
  /\ o.sgd => /\ Len(o.ins) = 3 /\ Len(o.outs) = 1 /\ o.stgy = <<>>
               /\ o.ins[1] \in G.training
               /\ o.ins[2] \notin G.training /\ o.ins[3] \notin G.training

(***************************************************************************)
(* The ops are listed in topological order: a tensor is a result of one op *)
(* only, no op at or before that one reads it, and no op trains it.        *)
(***************************************************************************)
TopoOrdered(G) ==
  \A b \in 1 .. Len(G.ops) : \A q \in 1 .. Len(G.ops[b].outs) :
    LET t == G.ops[b].outs[q]
    IN  /\ t \notin G.training
        /\ \A a \in 1 .. b : \A p \in 1 .. Len(G.ops[a].ins) : G.ops[a].ins[p] # t
        /\ \A a \in 1 .. b : \A p \in 1 .. Len(G.ops[a].outs) :
             G.ops[a].outs[p] = t => a = b /\ p = q

IsGraph(G) ==
  /\ G.nt \in Nat
  /\ G.ops \in Seq([ins : Seq(1 .. G.nt), outs : Seq(1 .. G.nt),
                    stgy : Seq(Strategy), sgd : BOOLEAN])
  /\ \A a \in 1 .. Len(G.ops) : IsOp(G, G.ops[a])
  /\ G.training \subseteq 1 .. G.nt   \* tensors whose getTraining() is set
  /\ TopoOrdered(G)
  /\ G.comm \in BOOLEAN               \* parallel_preference = COMM_SAVING
  /\ G.decentralized \in BOOLEAN      \* decentralized_optimizer
  /\ G.benchmark \in BOOLEAN          \* benchmark

ASSUME AxisAssumption == MaxAxis \in Nat

ASSUME GraphAssumption == \A G \in Graphs : IsGraph(G)

VARIABLES
  g,       \* the graph being lowered; never changes
  pc,      \* which loop of the pass is running
  k,       \* the op of topoOpNodes being lowered
  i,       \* the operand or result of op k being lowered
  lab,     \* lab[a]: the StrategyLabel of op a
  par,     \* par[a][p]: the parallel node operand p is linked to, 0: the original tensor
  chi,     \* chi[a][q]: the node whose storage result q is written to, 0: the original's
  tl,      \* tl[t]: the TilingLabel of original tensor t
  nodes,   \* the tensor nodes created, each with the op that fills it
  cut      \* the scattered nodes that elimRedundantScatter unlinked from their Scatter

vars == <<g, pc, k, i, lab, par, chi, tl, nodes, cut>>

Tensor == 1 .. g.nt
Ops == 1 .. Len(g.ops)
Ins(a) == g.ops[a].ins
Outs(a) == g.ops[a].outs
Node == 1 .. Len(nodes)

(***************************************************************************)
(* TilingLabel.  hist is _strategy_parnode_map (0: no entry), cur and node *)
(* are _currentstrategy and _currentnode.  cur and node are not            *)
(* initialised by the constructor; nothing reads them before setApplied.   *)
(***************************************************************************)
NoTiling == [applied |-> FALSE, cur |-> -1, node |-> 0,
             hist |-> [s \in Strategy |-> 0]]

History(t) == {s \in Strategy : tl[t].hist[s] # 0}

MinOf(S) == CHOOSE s \in S : \A r \in S : s <= r

selectTransPreStrategy(t) == MinOf({tl[t].cur} \cup History(t))

(***************************************************************************)
(* The two lowerings ask the same four questions of a tensor's label.      *)
(***************************************************************************)
Seen(t) == IF g.comm THEN History(t) # {} ELSE tl[t].applied

Has(t, s) == IF g.comm THEN tl[t].hist[s] # 0 ELSE tl[t].cur = s

(* Mutant: a reader in a known layout is given the newest node. *)
LayoutNodeNewest(t, s) == tl[t].node

LayoutNode(t, s) == IF g.comm THEN tl[t].hist[s] ELSE tl[t].node

Pre(t) == IF g.comm THEN selectTransPreStrategy(t) ELSE tl[t].cur

(***************************************************************************)
(* The patterns.  Each creates a tensor node and the op beside it, and     *)
(* makes the new node the current one of t; COMM_SAVING also enters it in  *)
(* the map (insertStrategy).  In a node, of is the original tensor, lay    *)
(* its layout, and kind, pre and src say how it is filled: by a Scatter of *)
(* the original, by a Transform of node src whose layout is pre, by the op *)
(* whose result is joined into the original, or (Tile) by an SGD op that   *)
(* updates the storage of node src.                                        *)
(***************************************************************************)
Create(n) == nodes' = Append(nodes, n)

NewNode == Len(nodes) + 1

(* Mutant: insertStrategy forgotten. *)
ApplyUnrecorded(t, s) ==
  tl' = [tl EXCEPT ![t] =
           [applied |-> TRUE, cur |-> s, node |-> NewNode, hist |-> @.hist]]

Apply(t, s) ==
  tl' = [tl EXCEPT ![t] =
           [applied |-> TRUE, cur |-> s, node |-> NewNode,
            hist |-> IF g.comm THEN [@.hist EXCEPT ![s] = NewNode] ELSE @.hist]]

ForkPattern(t, s) ==
  /\ Create([kind |-> "Scatter", of |-> t, pre |-> s, lay |-> s, src |-> 0])
  /\ Apply(t, s)

(* Mutant: the newest node is converted, whatever its layout. *)
TransformPatternNewest(t, pre, s) ==
  /\ Create([kind |-> "Transform", of |-> t, pre |-> pre, lay |-> s, src |-> tl[t].node])
  /\ Apply(t, s)

TransformPattern(t, pre, s) ==
  LET from == IF tl[t].hist[pre] = 0 THEN tl[t].node ELSE tl[t].hist[pre]
  IN  /\ Create([kind |-> "Transform", of |-> t, pre |-> pre, lay |-> s, src |-> from])
      /\ Apply(t, s)

(* Mutant: the new node is not pushed to the graph. *)
JoinPatternUnpushed(t, s) ==
  /\ UNCHANGED nodes
  /\ Apply(t, s)

JoinPattern(t, s) ==
  /\ Create([kind |-> "Join", of |-> t, pre |-> s, lay |-> s, src |-> 0])
  /\ Apply(t, s)

-----------------------------------------------------------------------------
Init ==
  /\ g \in Graphs
  /\ pc = IF g.comm THEN "weights" ELSE "label"
  /\ k = 1
  /\ i = 1
  /\ lab = [a \in Ops |-> g.ops[a].stgy]
  /\ par = [a \in Ops |-> [p \in 1 .. Len(Ins(a)) |-> 0]]
  /\ chi = [a \in Ops |-> [q \in 1 .. Len(Outs(a)) |-> 0]]
  /\ tl = [t \in Tensor |-> NoTiling]
  /\ nodes = <<>>
  /\ cut = {}

(***************************************************************************)
(* COMM_SAVING, steps 2 and 3: the layouts the labelled ops want of each   *)
(* training tensor are made before any op is lowered, in ascending order   *)
(* (a std::set), weight after weight (a std::map keyed by address: in any  *)
(* order, but one weight is completed before the next is begun).           *)
(***************************************************************************)
Plans(t) ==
  {s \in Strategy : \E a \in Ops : \E p \in 1 .. Len(Ins(a)) :
      g.ops[a].stgy # <<>> /\ Ins(a)[p] = t /\ g.ops[a].stgy[p] = s}

NextPlan(t, s) ==
  /\ \A u \in g.training \ {t} : Plans(u) \subseteq History(u) \/ History(u) = {}
  /\ s \in Plans(t) \ History(t)
  /\ \A r \in Plans(t) : r < s => r \in History(t)

(* Mutant: the getTraining() test is dropped. *)
ForkAnything ==
  /\ pc = "weights"
  /\ \E t \in Tensor : \E s \in Strategy :
       /\ NextPlan(t, s)
       /\ ~Seen(t)
       /\ ForkPattern(t, s)
  /\ UNCHANGED <<g, pc, k, i, lab, par, chi, cut>>

ForkWeight ==
  /\ pc = "weights"
  /\ \E t \in g.training : \E s \in Strategy :
       /\ NextPlan(t, s)
       /\ ~Seen(t)
       /\ ForkPattern(t, s)
  /\ UNCHANGED <<g, pc, k, i, lab, par, chi, cut>>

TransformWeight ==
  /\ pc = "weights"
  /\ \E t \in g.training : \E s \in Strategy :
       /\ NextPlan(t, s)
       /\ Seen(t)
       /\ TransformPattern(t, selectTransPreStrategy(t), s)
  /\ UNCHANGED <<g, pc, k, i, lab, par, chi, cut>>

WeightsDone ==
  /\ pc = "weights"
  /\ \A t \in g.training : Plans(t) \subseteq History(t)
  /\ pc' = "label"
  /\ UNCHANGED <<g, k, i, lab, par, chi, tl, nodes, cut>>

(***************************************************************************)
(* Step 4, the head of the loop over the ops.  An op without a label stays *)
(* serial, unless it is an SGD op and the optimizer is decentralized: then *)
(* it takes the smallest layout of its weight, after three assertions.     *)
(***************************************************************************)
Optimizer(a) == g.comm /\ g.decentralized /\ g.ops[a].sgd

(* Mutant: the assertion on the gradient excludes partial sums. *)
SgdAssertionsStrict(a) ==
  /\ History(Ins(a)[1]) # {}
  /\ History(Ins(a)[2]) # {}
  /\ selectTransPreStrategy(Ins(a)[2]) >= 0

SgdAssertions(a) ==
  /\ History(Ins(a)[1]) # {}
  /\ History(Ins(a)[2]) # {}
  /\ selectTransPreStrategy(Ins(a)[2]) # -1

SkipOp ==
  /\ pc = "label" /\ k \in Ops
  /\ lab[k] = <<>> /\ ~Optimizer(k)
  /\ k' = k + 1
  /\ UNCHANGED <<g, pc, i, lab, par, chi, tl, nodes, cut>>

StartOp ==
  /\ pc = "label" /\ k \in Ops
  /\ lab[k] # <<>>
  /\ pc' = "inputs"
  /\ i' = 1
  /\ UNCHANGED <<g, k, lab, par, chi, tl, nodes, cut>>

LabelSgd ==
  /\ pc = "label" /\ k \in Ops
  /\ lab[k] = <<>> /\ Optimizer(k)
  /\ SgdAssertions(k)
  /\ LET w == selectTransPreStrategy(Ins(k)[1])
     IN  lab' = [lab EXCEPT ![k] = <<w, w, w, w>>]
  /\ pc' = "inputs"
  /\ i' = 1
  /\ UNCHANGED <<g, k, par, chi, tl, nodes, cut>>

SgdAssertFails ==
  /\ pc = "label" /\ k \in Ops
  /\ lab[k] = <<>> /\ Optimizer(k)
  /\ ~SgdAssertions(k)
  /\ pc' = "assert_failed"
  /\ UNCHANGED <<g, k, i, lab, par, chi, tl, nodes, cut>>

(***************************************************************************)
(* One operand.  COMM_SAVING relinks every operand of op k that is this    *)
(* tensor (replaceUseKeepOrder); MEM_SAVING takes one occurrence away and  *)
(* appends the new one, which after all operands leaves them in order.     *)
(***************************************************************************)
AtInput == pc = "inputs" /\ k \in Ops /\ i \in 1 .. Len(Ins(k))

Operand == Ins(k)[i]
Want == lab[k][i]

Link(n) ==
  par' = [par EXCEPT ![k] =
            [p \in 1 .. Len(Ins(k)) |->
               IF p = i \/ (g.comm /\ Ins(k)[p] = Operand /\ @[p] = 0) THEN n ELSE @[p]]]

(* Mutant: a cut tensor that is wanted whole is converted, not scattered. *)
NeedsForkReduced(t, s) == Pre(t) = -2

NeedsFork(t, s) == Pre(t) = -2 \/ (Pre(t) >= 0 /\ s = -1)

ForkOperand ==
  /\ AtInput /\ par[k][i] = 0
  /\ IF Seen(Operand) THEN ~Has(Operand, Want) /\ NeedsFork(Operand, Want) ELSE TRUE
  /\ ForkPattern(Operand, Want)
  /\ Link(NewNode)
  /\ i' = i + 1
  /\ UNCHANGED <<g, pc, k, lab, chi, cut>>

ReuseOperand ==
  /\ AtInput /\ par[k][i] = 0
  /\ Seen(Operand) /\ Has(Operand, Want)
  /\ Link(LayoutNode(Operand, Want))
  /\ i' = i + 1
  /\ UNCHANGED <<g, pc, k, lab, chi, tl, nodes, cut>>

TransformOperand ==
  /\ AtInput /\ par[k][i] = 0
  /\ Seen(Operand) /\ ~Has(Operand, Want) /\ ~NeedsFork(Operand, Want)
  /\ TransformPattern(Operand, Pre(Operand), Want)
  /\ Link(NewNode)
  /\ i' = i + 1
  /\ UNCHANGED <<g, pc, k, lab, chi, cut>>

(***************************************************************************)
(* The operand is a node this pass created: its TilingLabel is null and    *)
(* strategySize() is called on it.                                         *)
(***************************************************************************)
NullTilingLabel ==
  /\ AtInput /\ par[k][i] # 0
  /\ pc' = "null_label"
  /\ UNCHANGED <<g, k, i, lab, par, chi, tl, nodes, cut>>

InputsDone ==
  /\ pc = "inputs" /\ k \in Ops /\ i = Len(Ins(k)) + 1
  /\ pc' = IF g.ops[k].sgd THEN "sgd" ELSE "outputs"
  /\ i' = 1
  /\ UNCHANGED <<g, k, lab, par, chi, tl, nodes, cut>>

(***************************************************************************)
(* The result of an SGD op.  Replicated: the result node is given the      *)
(* tensor of the weight's parallel node.  Cut: a new node with that tensor *)
(* takes the place of the result, which is left without a producer.        *)
(***************************************************************************)
SgdResult ==
  /\ pc = "sgd" /\ k \in Ops
  /\ LET s == lab[k][4]
     IN  IF s = -1
         THEN /\ chi' = [chi EXCEPT ![k] = <<par[k][1]>>]
              /\ UNCHANGED nodes
         ELSE /\ Create([kind |-> "Tile", of |-> Outs(k)[1], pre |-> s, lay |-> s,
                         src |-> par[k][1]])
              /\ chi' = [chi EXCEPT ![k] = <<NewNode>>]
  /\ pc' = "label"
  /\ k' = k + 1
  /\ UNCHANGED <<g, i, lab, par, tl, cut>>

(***************************************************************************)
(* One result: op k now writes a parallel node, joined into the original.  *)
(***************************************************************************)
JoinResult ==
  /\ pc = "outputs" /\ k \in Ops /\ i \in 1 .. Len(Outs(k))
  /\ JoinPattern(Outs(k)[i], lab[k][Len(Ins(k)) + i])
  /\ chi' = [chi EXCEPT ![k][i] = NewNode]
  /\ i' = i + 1
  /\ UNCHANGED <<g, pc, k, lab, par, cut>>

OutputsDone ==
  /\ pc = "outputs" /\ k \in Ops /\ i = Len(Outs(k)) + 1
  /\ pc' = "label"
  /\ k' = k + 1
  /\ UNCHANGED <<g, i, lab, par, chi, tl, nodes, cut>>

(***************************************************************************)
(* After the loop, in benchmark mode: a Scatter of a graph input that is   *)
(* the only reader of it is unlinked from its result.                      *)
(***************************************************************************)
Produced(t) ==
  \E a \in Ops : \E q \in 1 .. Len(Outs(a)) :
    Outs(a)[q] = t /\ (chi[a][q] # 0 => nodes[chi[a][q]].kind # "Tile")

Scatters(t) == {n \in Node : nodes[n].kind = "Scatter" /\ nodes[n].of = t}

SerialReads(t) ==
  UNION {{<<a, p>> : p \in {q \in 1 .. Len(Ins(a)) : Ins(a)[q] = t /\ par[a][q] = 0}} :
           a \in Ops}

(* Mutant: the other readers of the original are not counted. *)
elimAnyInputScatter ==
  {n \in Node : nodes[n].kind = "Scatter" /\ ~Produced(nodes[n].of)}

elimRedundantScatter ==
  {n \in Node : /\ nodes[n].kind = "Scatter"
                /\ ~Produced(nodes[n].of)
                /\ Scatters(nodes[n].of) = {n} /\ SerialReads(nodes[n].of) = {}}

Finish ==
  /\ pc = "label" /\ k \notin Ops
  /\ pc' = "done"
  /\ cut' = IF g.benchmark THEN elimRedundantScatter ELSE {}
  /\ UNCHANGED <<g, k, i, lab, par, chi, tl, nodes>>

Next ==
  \/ ForkWeight \/ TransformWeight \/ WeightsDone
  \/ SkipOp \/ StartOp \/ LabelSgd \/ SgdAssertFails
  \/ ForkOperand \/ ReuseOperand \/ TransformOperand \/ NullTilingLabel \/ InputsDone
  \/ SgdResult \/ JoinResult \/ OutputsDone
  \/ Finish

Spec == Init /\ [][Next]_vars

FairSpec == Spec /\ WF_vars(Next)

-----------------------------------------------------------------------------
NodeRecord ==
  [kind : {"Scatter", "Transform", "Join", "Tile"}, of : Tensor,
   pre : Strategy, lay : Strategy, src : Nat]

Label == [applied : BOOLEAN, cur : Strategy, node : Nat, hist : [Strategy -> Nat]]

(* Every variable has its type; links and labels name nodes that exist. *)
TypeOK ==
  /\ g \in Graphs
  /\ pc \in {"weights", "label", "inputs", "outputs", "sgd", "done",
             "assert_failed", "null_label"}
  /\ k \in 1 .. Len(g.ops) + 1
  /\ i \in Nat \ {0}
  /\ nodes \in Seq(NodeRecord)
  /\ tl \in [Tensor -> Label]
  /\ lab \in [Ops -> Seq(Strategy)]
  /\ par = [a \in Ops |-> par[a]]
  /\ chi = [a \in Ops |-> chi[a]]
  /\ \A a \in Ops : /\ par[a] \in [1 .. Len(Ins(a)) -> 0 .. Len(nodes)]
                    /\ chi[a] \in [1 .. Len(Outs(a)) -> 0 .. Len(nodes)]
  /\ cut \subseteq Node

(***************************************************************************)
(* Once the loops have passed an operand or result of a labelled op, the   *)
(* op no longer reads or writes the original tensor there but a node of    *)
(* that tensor in the layout its strategy asks for, whatever the tensor's  *)
(* other readers made of its label in between.                             *)
(***************************************************************************)
PassedOperand(a, p) ==
  \/ a < k
  \/ a = k /\ pc \in {"inputs", "null_label"} /\ p < i
  \/ a = k /\ pc \in {"outputs", "sgd"}

PassedResult(a, q) == a < k \/ (a = k /\ pc = "outputs" /\ q < i)

OperandSound(a, p) ==
  lab[a] # <<>> /\ PassedOperand(a, p) =>
    par[a][p] # 0 /\ nodes[par[a][p]].of = Ins(a)[p] /\ nodes[par[a][p]].lay = lab[a][p]

ResultSound(a, q) ==
  lab[a] # <<>> /\ PassedResult(a, q) =>
    /\ chi[a][q] # 0
    /\ nodes[chi[a][q]].lay = lab[a][Len(Ins(a)) + q]
    /\ ~g.ops[a].sgd => nodes[chi[a][q]].of = Outs(a)[q]

LayoutsSound ==
  \A a \in Ops : /\ \A p \in 1 .. Len(Ins(a)) : OperandSound(a, p)
                 /\ \A q \in 1 .. Len(Outs(a)) : ResultSound(a, q)

(***************************************************************************)
(* A Transform converts what it says it converts: its source is an earlier *)
(* node of the same tensor that has the layout pre, so the generated       *)
(* exchange cuts along the axis the data is really cut along; and the      *)
(* layout is a new one.  (TransformPattern falls back on the current node, *)
(* whatever its layout, when the map has no entry for pre.)                *)
(***************************************************************************)
SourcesSound ==
  \A n \in Node :
    nodes[n].kind = "Transform" =>
      /\ nodes[n].src \in 1 .. n - 1
      /\ nodes[nodes[n].src].of = nodes[n].of
      /\ nodes[nodes[n].src].lay = nodes[n].pre

(***************************************************************************)
(* The pass asks for no Transform that transformOpDispatcher cannot        *)
(* generate ("error, unimplemented transform"), nor for one from a partial *)
(* sum: the source is replicated or cut, the target is another cut.        *)
(***************************************************************************)
TransformsImplemented ==
  \A n \in Node :
    nodes[n].kind = "Transform" =>
      nodes[n].pre >= -1 /\ nodes[n].lay >= 0 /\ nodes[n].pre # nodes[n].lay

(***************************************************************************)
(* COMM_SAVING pays for a layout of a tensor once: however the readers are *)
(* interleaved, one node per tensor and layout.                            *)
(***************************************************************************)
SharedLayouts ==
  g.comm =>
    \A m, n \in Node :
      /\ nodes[m].of = nodes[n].of /\ nodes[m].lay = nodes[n].lay
      /\ nodes[m].kind # "Tile" /\ nodes[n].kind # "Tile"
      => m = n

(***************************************************************************)
(* When an op's results are joined none of them has a parallel node yet:   *)
(* the assertion "out tensornodes shouldn't be parallelized before me" of  *)
(* one lowering and the branches that "should not occur" of the other.     *)
(***************************************************************************)
OutputsFresh ==
  pc = "outputs" =>
    \A q \in i .. Len(Outs(k)) : ~Seen(Outs(k)[q])

(***************************************************************************)
(* Where a training step leaves the new weight, and who reads it in the    *)
(* next one.  A node is refilled every iteration by the op beside it,      *)
(* unless its Scatter was unlinked; Fills(n) is where n's contents come    *)
(* from, 0 standing for the original tensor.                               *)
(***************************************************************************)
Fills(n) ==
  LET F[m \in 0 .. Len(nodes)] ==
        IF m = 0 \/ m \in cut THEN m
        ELSE IF nodes[m].kind = "Transform" THEN F[nodes[m].src]
        ELSE IF nodes[m].kind = "Scatter" THEN 0 ELSE m
  IN  F[n]

Updates(a) == IF lab[a] = <<>> THEN 0 ELSE par[a][1]

SeesUpdate(a) ==
  \A b \in Ops : \A p \in 1 .. Len(Ins(b)) :
    Ins(b)[p] = Ins(a)[1] => Fills(par[b][p]) = Updates(a)

(***************************************************************************)
(* Every op that reads a weight reads, in the next iteration, what its SGD *)
(* op left: the serial op on the original tensor, or (decentralized, in    *)
(* benchmark mode, no serial reader) each process on its own part.         *)
(***************************************************************************)
UpdateReachesReaders ==
  pc = "done" =>
    \A a \in Ops :
      /\ g.ops[a].sgd
      /\ Optimizer(a) => g.benchmark /\ SerialReads(Ins(a)[1]) = {}
      => SeesUpdate(a)

(***************************************************************************)
(* A graph in which no op reads a tensor twice, and in which the weight of *)
(* each SGD op is read and its gradient written by labelled ops, nothing   *)
(* else reading the gradient, is lowered to the end.                       *)
(***************************************************************************)
ReadsOnce(a) == \A p, q \in 1 .. Len(Ins(a)) : Ins(a)[p] = Ins(a)[q] => p = q

GradientReady(a) ==
  /\ Plans(Ins(a)[1]) # {}
  /\ \E b \in Ops : g.ops[b].stgy # <<>> /\ \E q \in 1 .. Len(Outs(b)) : Outs(b)[q] = Ins(a)[2]
  /\ \A b \in Ops \ {a} : \A p \in 1 .. Len(Ins(b)) : Ins(b)[p] # Ins(a)[2]

Lowerable ==
  \A a \in Ops : ReadsOnce(a) /\ (Optimizer(a) => GradientReady(a))

LoweringCompletes == Lowerable ~> pc = "done"
=============================================================================
