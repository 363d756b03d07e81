------------------------- MODULE ParallelLoweringProofs -------------------------
(***************************************************************************)
(* What ParallelLowering guarantees for every set of labelled graphs: the  *)
(* rewritten graph is well typed, every operand and result has the layout  *)
(* its op asked for, and every Transform converts what it says and can be  *)
(* generated.                                                              *)
(***************************************************************************)
EXTENDS ParallelLowering, TLAPS, WellFoundedInduction, SequenceTheorems

-----------------------------------------------------------------------------
(***************************************************************************)
(* The least element that selectTransPreStrategy looks for exists.         *)
(***************************************************************************)
LessThan == OpToRel(<, Nat)

(* A set of naturals that is not empty has a least element. *)
LEMMA LeastNatural ==
  ASSUME NEW T, T \subseteq Nat, T # {}
  PROVE  \E x \in T : \A y \in T : x <= y
<1>1. IsWellFoundedOn(LessThan, Nat)
  BY NatLessThanWellFounded DEF LessThan
<1>2. PICK x \in T : \A y \in T : ~ (<<y, x>> \in LessThan)
  BY <1>1, WFMin
<1>3. \A y \in Nat : y < x => <<y, x>> \in LessThan
  BY DEF LessThan, OpToRel
<1>4. \A y \in T : ~(y < x)
  BY <1>2, <1>3
<1>5. \A y \in T : x <= y
  BY <1>4
<1> QED BY <1>5

(* So has a set of strategies: selectTransPreStrategy picks a member. *)
LEMMA MinOfStrategies ==
  ASSUME NEW S, S \subseteq Strategy, S # {}
  PROVE  MinOf(S) \in S /\ \A r \in S : MinOf(S) <= r
<1> USE AxisAssumption DEF Strategy
<1> DEFINE T == {n \in Nat : n - 2 \in S}
<1>1. PICK s0 \in S : TRUE
  OBVIOUS
<1>2. s0 + 2 \in T
  BY <1>1
<1>3. PICK x \in T : \A y \in T : x <= y
  <2>1. T \subseteq Nat /\ T # {}
    BY <1>2
  <2> HIDE DEF T
  <2> QED BY <2>1, LeastNatural
<1>4. x - 2 \in S
  BY <1>3
<1>5. \A r \in S : x - 2 <= r
  <2> TAKE r \in S
  <2>1. r + 2 \in T
    OBVIOUS
  <2>2. x <= r + 2
    BY <2>1, <1>3
  <2> QED BY <2>2, <1>3
<1> QED BY <1>4, <1>5 DEF MinOf

-----------------------------------------------------------------------------
(***************************************************************************)
(* What GraphAssumption says of the graph being lowered.                   *)
(***************************************************************************)
GraphOK ==
  /\ Len(g.ops) \in Nat
  /\ g.nt \in Nat
  /\ g.comm \in BOOLEAN
  /\ g.training \subseteq Tensor
  /\ \A a \in Ops : /\ Ins(a) \in Seq(Tensor) /\ Outs(a) \in Seq(Tensor)
                    /\ g.ops[a].stgy \in Seq(Strategy) /\ g.ops[a].sgd \in BOOLEAN
                    /\ IsOp(g, g.ops[a])
  /\ TopoOrdered(g)

(* The constants' assumption, of the graph at hand. *)
LEMMA GraphIsOK == ASSUME g \in Graphs PROVE GraphOK
<1>1. IsGraph(g)
  BY GraphAssumption
<1>2. g.ops \in Seq([ins : Seq(1 .. g.nt), outs : Seq(1 .. g.nt),
                     stgy : Seq(Strategy), sgd : BOOLEAN])
  BY <1>1 DEF IsGraph
<1>3. Len(g.ops) \in Nat
  BY <1>2
<1>4. \A a \in Ops : g.ops[a] \in [ins : Seq(1 .. g.nt), outs : Seq(1 .. g.nt),
                                   stgy : Seq(Strategy), sgd : BOOLEAN]
  BY <1>2, ElementOfSeq DEF Ops
<1>5. \A a \in Ops : /\ Ins(a) \in Seq(Tensor) /\ Outs(a) \in Seq(Tensor)
                     /\ g.ops[a].stgy \in Seq(Strategy) /\ g.ops[a].sgd \in BOOLEAN
  BY <1>4 DEF Ins, Outs, Tensor
<1>6. \A a \in Ops : IsOp(g, g.ops[a])
  BY <1>1 DEF IsGraph, Ops
<1> QED BY <1>1, <1>3, <1>5, <1>6 DEF GraphOK, IsGraph, Tensor

-----------------------------------------------------------------------------
(***************************************************************************)
(* The strengthening.  A label that was applied has its current node, and  *)
(* an entry of the map its node, of this tensor and in this layout; under  *)
(* COMM_SAVING the current layout is in the map, so that the least layout  *)
(* known is one the map can be asked for; a training tensor, which no op   *)
(* produces, is never a partial sum.                                       *)
(***************************************************************************)
NodeIs(n, t, s) == n \in Node /\ nodes[n].of = t /\ nodes[n].lay = s

LabelOK(t) ==
  /\ tl[t].applied => NodeIs(tl[t].node, t, tl[t].cur)
  /\ \A s \in Strategy :
       tl[t].hist[s] # 0 =>
         NodeIs(tl[t].hist[s], t, s) /\ tl[t].applied /\ tl[t].hist[tl[t].cur] # 0
  /\ g.comm /\ tl[t].applied => tl[t].hist[tl[t].cur] # 0
  /\ ~g.comm => \A s \in Strategy : tl[t].hist[s] = 0
  /\ t \in g.training => tl[t].hist[-2] = 0

LabelsOK == \A t \in Tensor : LabelOK(t)

(* Under COMM_SAVING the map finds every node the patterns made. *)
AllRecorded ==
  g.comm =>
    \A n \in Node :
      nodes[n].kind # "Tile" => tl[nodes[n].of].hist[nodes[n].lay] = n

(* The results still to be joined have no parallel node. *)
Unjoined ==
  \A b \in Ops : \A q \in 1 .. Len(Outs(b)) :
    b > k \/ (b = k /\ (pc = "outputs" => q >= i)) => ~tl[Outs(b)[q]].applied

(* The weights' layouts are made in ascending order. *)
Ascending ==
  pc = "weights" =>
    \A t \in g.training : \A r \in History(t) : \A s \in Plans(t) \ History(t) : r < s

(* A label has one strategy per operand and result, none of an operand a sum; *)
(* the new weight has the layout of the old one.                              *)
StrategyOK(a) ==
  lab[a] # <<>> =>
    /\ Len(lab[a]) = Len(Ins(a)) + Len(Outs(a))
    /\ \A p \in 1 .. Len(Ins(a)) : lab[a][p] # -2
    /\ g.ops[a].sgd => lab[a][4] = lab[a][1]

(* Which loop runs on which op, and how far it has come. *)
Phase ==
  /\ pc = "weights" => g.comm
  /\ pc \in {"inputs", "outputs", "sgd"} => k \in Ops /\ lab[k] # <<>>
  /\ pc = "sgd" => g.ops[k].sgd
  /\ pc = "outputs" => ~g.ops[k].sgd
  /\ pc = "inputs" => i <= Len(Ins(k)) + 1
  /\ pc = "outputs" => i <= Len(Outs(k)) + 1

(* An op that has not been reached is linked to the originals. *)
Untouched ==
  \A a \in Ops :
    a > k \/ (a = k /\ pc \in {"weights", "label"}) =>
      /\ \A p \in 1 .. Len(Ins(a)) : par[a][p] = 0
      /\ \A q \in 1 .. Len(Outs(a)) : chi[a][q] = 0

Links ==
  /\ \A a \in Ops : StrategyOK(a)
  /\ Phase
  /\ Untouched
  /\ LayoutsSound

Labels ==
  /\ LabelsOK
  /\ AllRecorded
  /\ Unjoined
  /\ Ascending
  /\ SourcesSound
  /\ TransformsImplemented

IInv == TypeOK /\ Labels /\ Links

-----------------------------------------------------------------------------
(***************************************************************************)
(* A new node n of tensor t in a layout s it has not: what Create and      *)
(* Apply, the two halves of every pattern, preserve.                       *)
(***************************************************************************)
LEMMA AppendNode ==
  ASSUME TypeOK, NEW n \in NodeRecord, Create(n), g' = g
  PROVE  /\ nodes' \in Seq(NodeRecord)'
         /\ Len(nodes') = Len(nodes) + 1
         /\ Node' = Node \cup {NewNode}
         /\ NewNode \notin Node
         /\ nodes'[NewNode] = n
         /\ \A m \in Node : nodes'[m] = nodes[m]
<1>1. nodes \in Seq(NodeRecord) /\ Len(nodes) \in Nat
  BY DEF TypeOK
<1>2. /\ nodes' \in Seq(NodeRecord)
      /\ Len(nodes') = Len(nodes) + 1
      /\ nodes'[Len(nodes) + 1] = n
      /\ \A m \in 1 .. Len(nodes) : nodes'[m] = nodes[m]
  BY <1>1, AppendProperties DEF Create
<1>3. NodeRecord' = NodeRecord
  BY DEF NodeRecord, Tensor
<1> QED BY <1>1, <1>2, <1>3 DEF Node, NewNode

(* What setApplied and insertStrategy do to the label of t, and to no other. *)
LEMMA ApplyLabel ==
  ASSUME TypeOK, NEW t \in Tensor, NEW s \in Strategy, Apply(t, s), g' = g
  PROVE  /\ tl' \in [Tensor -> Label]
         /\ \A u \in Tensor \ {t} : tl'[u] = tl[u]
         /\ tl'[t].applied /\ tl'[t].cur = s /\ tl'[t].node = NewNode
         /\ g.comm => tl'[t].hist[s] = NewNode
         /\ ~g.comm => tl'[t].hist = tl[t].hist
         /\ \A r \in Strategy \ {s} : tl'[t].hist[r] = tl[t].hist[r]
<1>1. tl \in [Tensor -> Label] /\ tl[t] \in Label /\ tl[t].hist \in [Strategy -> Nat]
  BY DEF TypeOK, Label
<1>2. NewNode \in Nat
  BY DEF TypeOK, NewNode
<1> DEFINE l == [applied |-> TRUE, cur |-> s, node |-> NewNode,
                 hist |-> IF g.comm THEN [tl[t].hist EXCEPT ![s] = NewNode] ELSE tl[t].hist]
<1>3. tl' = [tl EXCEPT ![t] = l]
  BY DEF Apply
<1>4. l \in Label
  BY <1>1, <1>2 DEF Label
<1>5. /\ l.applied /\ l.cur = s /\ l.node = NewNode
      /\ g.comm => l.hist[s] = NewNode
      /\ ~g.comm => l.hist = tl[t].hist
      /\ \A r \in Strategy \ {s} : l.hist[r] = tl[t].hist[r]
  BY <1>1
<1> HIDE DEF l
<1>6. tl'[t] = l /\ \A u \in Tensor \ {t} : tl'[u] = tl[u]
  BY <1>1, <1>3
<1> QED BY <1>1, <1>3, <1>4, <1>5, <1>6

(* Labels stay sound when a pattern makes a layout that was not recorded. *)
LEMMA NewLayout ==
  ASSUME TypeOK, LabelsOK, AllRecorded, g' = g,
         NEW n \in NodeRecord, n.kind # "Tile",
         Create(n), Apply(n.of, n.lay),
         g.comm => tl[n.of].hist[n.lay] = 0,
         n.of \in g.training => n.lay # -2
  PROVE  LabelsOK' /\ AllRecorded'
<1> DEFINE t == n.of
           s == n.lay
<1>1. t \in Tensor /\ s \in Strategy
  BY DEF NodeRecord
<1>2. /\ Node' = Node \cup {NewNode}
      /\ NewNode \notin Node
      /\ nodes'[NewNode] = n
      /\ \A m \in Node : nodes'[m] = nodes[m]
  BY AppendNode
<1>3. /\ \A u \in Tensor \ {t} : tl'[u] = tl[u]
      /\ tl'[t].applied /\ tl'[t].cur = s /\ tl'[t].node = NewNode
      /\ g.comm => tl'[t].hist[s] = NewNode
      /\ ~g.comm => tl'[t].hist = tl[t].hist
      /\ \A r \in Strategy \ {s} : tl'[t].hist[r] = tl[t].hist[r]
  BY <1>1, ApplyLabel
<1>4. Tensor' = Tensor
  BY DEF Tensor
<1>5. NewNode \in Nat \ {0}
  BY DEF TypeOK, NewNode
<1>6. LabelsOK'
  <2> SUFFICES ASSUME NEW u \in Tensor PROVE LabelOK(u)'
    BY <1>4 DEF LabelsOK
  <2>1. LabelOK(u)
    BY DEF LabelsOK
  <2> DEFINE Is(m, r) == m \in Node' /\ nodes'[m].of = u /\ nodes'[m].lay = r
  <2>2. \A m \in Node, r \in Strategy : NodeIs(m, u, r) => Is(m, r)
    BY <1>2 DEF NodeIs
  <2>3. \A r \in Strategy : tl[u].hist[r] # 0 =>
          Is(tl[u].hist[r], r) /\ tl[u].applied /\ tl[u].hist[tl[u].cur] # 0
    BY <2>1, <2>2 DEF LabelOK, NodeIs
  <2>4. tl[u] \in Label
    BY DEF TypeOK
  <2>5. tl[u].applied => Is(tl[u].node, tl[u].cur)
    BY <2>1, <2>2, <2>4 DEF LabelOK, NodeIs, Label
  <2>6. CASE u # t
    <3>1. tl'[u] = tl[u]
      BY <2>6, <1>3
    <3> QED BY <1>2, <2>1, <2>3, <2>5, <3>1 DEF LabelOK, NodeIs
  <2>7. CASE u = t
    <3>1. Is(NewNode, s)
      BY <1>2, <2>7
    <3> HIDE DEF Is
    <3>2. \A r \in Strategy : tl'[t].hist[r] # 0 => Is(tl'[t].hist[r], r)
      <4> TAKE r \in Strategy
      <4>1. CASE r = s /\ g.comm
        BY <4>1, <1>3, <3>1
      <4>2. CASE r # s \/ ~g.comm
        BY <4>2, <1>3, <2>3, <2>7
      <4> QED BY <4>1, <4>2
    <3>3. t \in g.training => tl'[t].hist[-2] = 0
      <4>1. -2 \in Strategy
        BY AxisAssumption DEF Strategy
      <4> QED BY <4>1, <1>3, <2>1, <2>7 DEF LabelOK
    <3>4. \A r \in Strategy : tl'[t].hist[r] # 0 => tl'[t].hist[s] # 0
      <4>1. CASE g.comm
        BY <4>1, <1>3, <1>5
      <4>2. CASE ~g.comm
        BY <4>2, <1>1, <1>3, <2>1, <2>7 DEF LabelOK
      <4> QED BY <4>1, <4>2
    <3>5. tl'[u].applied => Is(tl'[u].node, tl'[u].cur)
      BY <1>3, <2>7, <3>1
    <3>6. \A r \in Strategy : tl'[u].hist[r] # 0 =>
            Is(tl'[u].hist[r], r) /\ tl'[u].applied /\ tl'[u].hist[tl'[u].cur] # 0
      BY <1>3, <2>7, <3>2, <3>4
    <3>7. g'.comm /\ tl'[u].applied => tl'[u].hist[tl'[u].cur] # 0
      BY <1>3, <1>5, <2>7
    <3>8. ~g'.comm => \A r \in Strategy : tl'[u].hist[r] = 0
      BY <1>3, <2>1, <2>7 DEF LabelOK
    <3>9. u \in g'.training => tl'[u].hist[-2] = 0
      BY <3>3, <2>7
    <3> USE DEF Is
    <3> QED BY <3>5, <3>6, <3>7, <3>8, <3>9 DEF LabelOK, NodeIs, Strategy
  <2> QED BY <2>6, <2>7
<1>7. AllRecorded'
  <2> SUFFICES ASSUME g.comm, NEW m \in Node', nodes'[m].kind # "Tile"
               PROVE  tl'[nodes'[m].of].hist[nodes'[m].lay] = m
    BY DEF AllRecorded
  <2>1. CASE m = NewNode
    BY <2>1, <1>2, <1>3
  <2>2. CASE m \in Node
    <3>1. nodes[m] \in NodeRecord
      BY <2>2 DEF TypeOK, Node
    <3>2. tl[nodes[m].of].hist[nodes[m].lay] = m /\ m # 0
      BY <2>2, <1>2 DEF AllRecorded, Node
    <3>3. CASE nodes[m].of = t
      BY <2>2, <3>1, <3>2, <3>3, <1>2, <1>3 DEF NodeRecord
    <3>4. CASE nodes[m].of # t
      BY <2>2, <3>1, <3>2, <3>4, <1>2, <1>3 DEF NodeRecord
    <3> QED BY <3>3, <3>4
  <2> QED BY <2>1, <2>2, <1>2
<1> QED BY <1>6, <1>7

(***************************************************************************)
(* A Transform node as TransformOperand and TransformWeight make it.       *)
(***************************************************************************)
LEMMA KnownLayout ==
  ASSUME TypeOK, LabelsOK, NEW t \in Tensor, Seen(t)
  PROVE  /\ tl[t].applied
         /\ Pre(t) \in Strategy
         /\ g.comm => Pre(t) \in History(t)
         /\ ~g.comm => Pre(t) = tl[t].cur
<1>1. LabelOK(t) /\ tl[t] \in Label
  BY DEF LabelsOK, TypeOK
<1>2. CASE ~g.comm
  BY <1>1, <1>2 DEF Seen, Pre, Label
<1>3. CASE g.comm
  <2>1. tl[t].applied
    BY <1>1, <1>3 DEF Seen, History, LabelOK
  <2>2. tl[t].cur \in History(t)
    BY <1>1, <1>3, <2>1 DEF LabelOK, History, Label
  <2>3. {tl[t].cur} \cup History(t) = History(t) /\ History(t) \subseteq Strategy
    BY <2>2 DEF History
  <2>4. MinOf(History(t)) \in History(t)
    BY <2>2, <2>3, MinOfStrategies
  <2> QED BY <1>3, <2>1, <2>3, <2>4 DEF Pre, selectTransPreStrategy
<1> QED BY <1>2, <1>3

(* The node a Transform is made from has the layout the pass takes it to have. *)
LEMMA KnownSource ==
  ASSUME TypeOK, LabelsOK, NEW t \in Tensor, Seen(t)
  PROVE  LET from == IF tl[t].hist[Pre(t)] = 0 THEN tl[t].node ELSE tl[t].hist[Pre(t)]
         IN  NodeIs(from, t, Pre(t))
<1>1. LabelOK(t) /\ tl[t] \in Label
  BY DEF LabelsOK, TypeOK
<1>2. CASE ~g.comm
  <2>1. tl[t].hist[Pre(t)] = 0
    BY <1>1, <1>2, KnownLayout DEF LabelOK
  <2> QED BY <1>1, <1>2, <2>1, KnownLayout DEF LabelOK
<1>3. CASE g.comm
  BY <1>1, <1>3, KnownLayout DEF LabelOK, History
<1> QED BY <1>2, <1>3

(***************************************************************************)
(* Nodes are only ever appended: what is said of the old ones stays true.  *)
(***************************************************************************)
LEMMA MoreNodes ==
  ASSUME TypeOK, SourcesSound, TransformsImplemented, g' = g,
         NEW n \in NodeRecord, Create(n),
         n.kind = "Transform" =>
           /\ NodeIs(n.src, n.of, n.pre)
           /\ n.pre >= -1 /\ n.lay >= 0 /\ n.pre # n.lay
  PROVE  SourcesSound' /\ TransformsImplemented'
<1>1. /\ Node' = Node \cup {NewNode}
      /\ nodes'[NewNode] = n
      /\ \A m \in Node : nodes'[m] = nodes[m]
  BY AppendNode
<1>2. Len(nodes) \in Nat /\ Node \subseteq Nat /\ NewNode = Len(nodes) + 1
  BY DEF TypeOK, Node, NewNode
<1>3. TransformsImplemented'
  BY <1>1 DEF TransformsImplemented
<1>4. SourcesSound'
  <2> SUFFICES ASSUME NEW m \in Node', nodes'[m].kind = "Transform"
               PROVE  /\ nodes'[m].src \in 1 .. m - 1
                      /\ nodes'[nodes'[m].src].of = nodes'[m].of
                      /\ nodes'[nodes'[m].src].lay = nodes'[m].pre
    BY DEF SourcesSound
  <2>1. CASE m = NewNode
    <3>1. n.src \in Node /\ nodes[n.src].of = n.of /\ nodes[n.src].lay = n.pre
      BY <1>1, <2>1 DEF NodeIs
    <3>2. n.src \in 1 .. m - 1
      BY <1>2, <2>1, <3>1 DEF Node
    <3> QED BY <1>1, <2>1, <3>1, <3>2
  <2>2. CASE m \in Node
    <3>1. /\ nodes[m].src \in 1 .. m - 1
          /\ nodes[nodes[m].src].of = nodes[m].of
          /\ nodes[nodes[m].src].lay = nodes[m].pre
      BY <1>1, <2>2 DEF SourcesSound
    <3>2. nodes[m].src \in Node
      BY <1>2, <2>2, <3>1 DEF Node
    <3> QED BY <1>1, <2>2, <3>1, <3>2
  <2> QED BY <1>1, <2>1, <2>2
<1> QED BY <1>3, <1>4

(***************************************************************************)
(* The initial states.                                                     *)
(***************************************************************************)
LEMMA InitIInv == Init => IInv
<1> SUFFICES ASSUME Init PROVE IInv
  OBVIOUS
<1>1. GraphOK
  BY GraphIsOK DEF Init
<1>2. NoTiling \in Label /\ ~NoTiling.applied /\ \A s \in Strategy : NoTiling.hist[s] = 0
  BY AxisAssumption DEF NoTiling, Label, Strategy
<1>3. \A t \in Tensor : tl[t] = NoTiling
  BY DEF Init
<1>4. \A a \in Ops : /\ lab[a] = g.ops[a].stgy
                     /\ par[a] = [p \in 1 .. Len(Ins(a)) |-> 0]
                     /\ chi[a] = [q \in 1 .. Len(Outs(a)) |-> 0]
  BY DEF Init
<1>5. nodes = <<>> /\ Len(nodes) = 0 /\ Node = {}
  BY DEF Init, Node
<1>6. k = 1 /\ i = 1 /\ pc \in {"weights", "label"} /\ (pc = "weights" => g.comm)
  BY <1>1 DEF Init, GraphOK
<1>7. TypeOK
  <2>1. nodes \in Seq(NodeRecord)
    BY <1>5
  <2>2. tl \in [Tensor -> Label]
    BY <1>2 DEF Init
  <2>3. lab \in [Ops -> Seq(Strategy)]
    BY <1>1 DEF Init, GraphOK
  <2>4. par = [a \in Ops |-> par[a]] /\ chi = [a \in Ops |-> chi[a]]
    BY DEF Init
  <2>5. \A a \in Ops : /\ par[a] \in [1 .. Len(Ins(a)) -> 0 .. Len(nodes)]
                       /\ chi[a] \in [1 .. Len(Outs(a)) -> 0 .. Len(nodes)]
    <3>1. 0 \in 0 .. Len(nodes)
      BY <1>5
    <3> HIDE DEF Init
    <3> QED BY <1>4, <3>1
  <2>6. k \in 1 .. Len(g.ops) + 1
    BY <1>1, <1>6 DEF GraphOK
  <2> QED BY <1>6, <2>1, <2>2, <2>3, <2>4, <2>5, <2>6 DEF TypeOK, Init
<1>8. Labels
  <2>1. LabelsOK
    BY <1>2, <1>3, AxisAssumption DEF LabelsOK, LabelOK, Strategy
  <2>2. Unjoined
    <3>1. \A b \in Ops : \A q \in 1 .. Len(Outs(b)) : Outs(b)[q] \in Tensor
      BY <1>1, ElementOfSeq DEF GraphOK
    <3> QED BY <1>2, <1>3, <3>1 DEF Unjoined
  <2>3. Ascending
    <3>1. \A t \in g.training : History(t) = {}
      BY <1>1, <1>2, <1>3 DEF History, GraphOK
    <3> QED BY <3>1 DEF Ascending
  <2> QED BY <1>5, <2>1, <2>2, <2>3
          DEF Labels, AllRecorded, SourcesSound, TransformsImplemented
<1>9. Links
  <2>1. \A a \in Ops : StrategyOK(a)
    BY <1>1, <1>4 DEF StrategyOK, GraphOK, IsOp, Ins, Outs
  <2>2. Phase
    BY <1>6 DEF Phase
  <2>3. Untouched
    BY <1>4 DEF Untouched
  <2>4. LayoutsSound
    <3>1. \A a \in Ops : ~(a < k)
      BY <1>1, <1>6 DEF GraphOK, Ops
    <3> QED BY <1>6, <3>1 DEF LayoutsSound, OperandSound, ResultSound,
                              PassedOperand, PassedResult
  <2> QED BY <2>1, <2>2, <2>3, <2>4 DEF Links
<1> QED BY <1>7, <1>8, <1>9 DEF IInv

-----------------------------------------------------------------------------
(***************************************************************************)
(* The steps that move a cursor and leave nodes and labels alone.          *)
(***************************************************************************)
LEMMA SameLabels ==
  ASSUME Labels, g' = g, tl' = tl, nodes' = nodes, pc' # "weights", Unjoined'
  PROVE  Labels'
<1>1. Tensor' = Tensor /\ Node' = Node
  BY DEF Tensor, Node
<1>2. LabelsOK'
  BY <1>1 DEF Labels, LabelsOK, LabelOK, NodeIs
<1>3. AllRecorded' /\ SourcesSound' /\ TransformsImplemented'
  BY <1>1 DEF Labels, AllRecorded, SourcesSound, TransformsImplemented
<1>4. Ascending'
  BY DEF Ascending
<1> QED BY <1>2, <1>3, <1>4 DEF Labels

(* A step that only moves the cursor keeps every type. *)
LEMMA SameTypes ==
  ASSUME TypeOK, g' = g, lab' = lab, par' = par, chi' = chi, tl' = tl, nodes' = nodes,
         cut' \subseteq Node, i' \in Nat \ {0}, k' \in 1 .. Len(g.ops) + 1,
         pc' \in {"weights", "label", "inputs", "outputs", "sgd", "done",
                 "assert_failed", "null_label"}
  PROVE  TypeOK'
<1>1. /\ Tensor' = Tensor /\ Ops' = Ops /\ Node' = Node /\ NodeRecord' = NodeRecord
      /\ \A a : Ins(a)' = Ins(a) /\ Outs(a)' = Outs(a)
  BY DEF Tensor, Ops, Node, NodeRecord, Ins, Outs
<1> QED BY <1>1 DEF TypeOK

(* The actions that only move the cursor, and the last one. *)
LEMMA CursorStep ==
  ASSUME IInv,
         WeightsDone \/ SkipOp \/ StartOp \/ SgdAssertFails \/ NullTilingLabel
           \/ InputsDone \/ OutputsDone \/ Finish
  PROVE  IInv'
<1>1. GraphOK
  BY GraphIsOK DEF IInv, TypeOK
<1>2. k \in 1 .. Len(g.ops) + 1 /\ Len(g.ops) \in Nat /\ i \in Nat \ {0}
  BY <1>1 DEF IInv, TypeOK, GraphOK
<1>3. /\ g' = g /\ lab' = lab /\ par' = par /\ chi' = chi /\ tl' = tl /\ nodes' = nodes
      /\ pc' # "weights"
  BY DEF WeightsDone, SkipOp, StartOp, SgdAssertFails, NullTilingLabel, InputsDone,
         OutputsDone, Finish
<1>4. Ops' = Ops /\ \A a : Ins(a)' = Ins(a) /\ Outs(a)' = Outs(a)
  BY <1>3 DEF Ops, Ins, Outs
<1>5. TypeOK'
  <2>1. i' \in Nat \ {0} /\ k' \in 1 .. Len(g.ops) + 1
    BY <1>2 DEF WeightsDone, SkipOp, StartOp, SgdAssertFails, NullTilingLabel, InputsDone,
                OutputsDone, Finish, Ops
  <2>2. cut' \subseteq Node
    BY DEF IInv, TypeOK, WeightsDone, SkipOp, StartOp, SgdAssertFails, NullTilingLabel,
           InputsDone, OutputsDone, Finish, elimRedundantScatter
  <2>3. pc' \in {"weights", "label", "inputs", "outputs", "sgd", "done",
                "assert_failed", "null_label"}
    BY DEF WeightsDone, SkipOp, StartOp, SgdAssertFails, NullTilingLabel,
           InputsDone, OutputsDone, Finish
  <2> QED BY <1>3, <2>1, <2>2, <2>3, SameTypes DEF IInv
<1>6. Labels'
  <2>1. Unjoined'
    <3> SUFFICES ASSUME NEW b \in Ops, NEW q \in 1 .. Len(Outs(b)),
                        b > k' \/ (b = k' /\ (pc' = "outputs" => q >= i'))
                 PROVE  b > k \/ (b = k /\ (pc = "outputs" => q >= i))
      BY <1>3, <1>4 DEF IInv, Labels, Unjoined
    <3>1. q \in Int /\ b \in Int
      BY DEF Ops
    <3> QED BY <1>2, <3>1 DEF WeightsDone, SkipOp, StartOp, SgdAssertFails, NullTilingLabel,
                InputsDone, OutputsDone, Finish, AtInput
  <2> QED BY <1>3, <2>1, SameLabels DEF IInv
<1>7. Links'
  <2>1. \A a \in Ops' : StrategyOK(a)'
    BY <1>3, <1>4 DEF IInv, Links, StrategyOK
  <2>2. Phase'
    BY <1>2, <1>3, <1>4 DEF IInv, Links, Phase, WeightsDone, SkipOp, StartOp, SgdAssertFails,
       NullTilingLabel, InputsDone, OutputsDone, Finish
  <2>3. Untouched'
    <3> SUFFICES ASSUME NEW a \in Ops, a > k' \/ (a = k' /\ pc' \in {"weights", "label"})
                 PROVE  a > k \/ (a = k /\ pc \in {"weights", "label"})
      BY <1>3, <1>4 DEF IInv, Links, Untouched
    <3> QED BY <1>2 DEF WeightsDone, SkipOp, StartOp, SgdAssertFails, NullTilingLabel,
                InputsDone, OutputsDone, Finish, Ops
  <2>4. LayoutsSound'
    <3> SUFFICES ASSUME NEW a \in Ops, lab[a] # <<>>
                 PROVE  /\ \A p \in 1 .. Len(Ins(a)) :
                             PassedOperand(a, p)' => PassedOperand(a, p)
                        /\ \A q \in 1 .. Len(Outs(a)) :
                             PassedResult(a, q)' => PassedResult(a, q)
      BY <1>3, <1>4 DEF IInv, Links, LayoutsSound, OperandSound, ResultSound
    <3>1. Len(Ins(a)) \in Nat /\ Len(Outs(a)) \in Nat
      BY <1>1 DEF GraphOK
    <3>2. ASSUME NEW p \in 1 .. Len(Ins(a)), PassedOperand(a, p)' PROVE PassedOperand(a, p)
      BY <1>2, <3>1, <3>2 DEF PassedOperand, AtInput, WeightsDone, SkipOp, StartOp,
                SgdAssertFails, NullTilingLabel, InputsDone, OutputsDone, Finish, Ops
    <3>3. ASSUME NEW q \in 1 .. Len(Outs(a)), PassedResult(a, q)' PROVE PassedResult(a, q)
      BY <1>2, <3>1, <3>3 DEF PassedResult, WeightsDone, SkipOp, StartOp,
                SgdAssertFails, NullTilingLabel, InputsDone, OutputsDone, Finish, Ops
    <3> QED BY <3>2, <3>3
  <2> QED BY <2>1, <2>2, <2>3, <2>4 DEF Links
<1> QED BY <1>5, <1>6, <1>7 DEF IInv

(***************************************************************************)
(* An op whose own links and label a step leaves alone stays sound.        *)
(***************************************************************************)
LEMMA OtherOp ==
  ASSUME TypeOK, LayoutsSound, NEW a \in Ops, g' = g,
         lab'[a] = lab[a], par'[a] = par[a], chi'[a] = chi[a],
         \A m \in Node : nodes'[m] = nodes[m],
         \A p \in 1 .. Len(Ins(a)) : PassedOperand(a, p)' => PassedOperand(a, p),
         \A q \in 1 .. Len(Outs(a)) : PassedResult(a, q)' => PassedResult(a, q)
  PROVE  /\ \A p \in 1 .. Len(Ins(a)) : OperandSound(a, p)'
         /\ \A q \in 1 .. Len(Outs(a)) : ResultSound(a, q)'
<1>1. Ins(a)' = Ins(a) /\ Outs(a)' = Outs(a)
  BY DEF Ins, Outs
<1>2. ASSUME NEW p \in 1 .. Len(Ins(a)), lab[a] # <<>>, PassedOperand(a, p)'
      PROVE  OperandSound(a, p)'
  <2>1. par[a][p] # 0 /\ nodes[par[a][p]].of = Ins(a)[p] /\ nodes[par[a][p]].lay = lab[a][p]
    BY <1>2 DEF LayoutsSound, OperandSound
  <2>2. par[a][p] \in Node
    BY <2>1 DEF TypeOK, Node
  <2> QED BY <1>1, <2>1, <2>2 DEF OperandSound
<1>3. ASSUME NEW q \in 1 .. Len(Outs(a)), lab[a] # <<>>, PassedResult(a, q)'
      PROVE  ResultSound(a, q)'
  <2>1. /\ chi[a][q] # 0
        /\ nodes[chi[a][q]].lay = lab[a][Len(Ins(a)) + q]
        /\ ~g.ops[a].sgd => nodes[chi[a][q]].of = Outs(a)[q]
    BY <1>3 DEF LayoutsSound, ResultSound
  <2>2. chi[a][q] \in Node
    BY <2>1 DEF TypeOK, Node
  <2> QED BY <1>1, <2>1, <2>2 DEF ResultSound
<1> QED BY <1>2, <1>3 DEF OperandSound, ResultSound

(***************************************************************************)
(* An SGD op takes the least layout of its weight: one that exists, and    *)
(* not a partial sum, since no op produces a weight.                       *)
(***************************************************************************)
LEMMA LabelSgdStep == ASSUME IInv, LabelSgd PROVE IInv'
<1> USE DEF LabelSgd
<1>1. GraphOK
  BY GraphIsOK DEF IInv, TypeOK
<1> DEFINE t == Ins(k)[1]
           w == selectTransPreStrategy(t)
<1>2. /\ k \in Ops /\ g.ops[k].sgd /\ g.comm
      /\ Len(Ins(k)) = 3 /\ Len(Outs(k)) = 1
      /\ t \in Tensor /\ t \in g.training
  BY <1>1, ElementOfSeq DEF GraphOK, IsOp, Optimizer, Ins, Outs
<1>3. w \in Strategy /\ w # -2
  <2>1. Seen(t)
    BY <1>2 DEF SgdAssertions, Seen
  <2>2. w \in History(t)
    BY <1>2, <2>1, KnownLayout DEF IInv, Labels, Pre
  <2> QED BY <1>2, <2>2 DEF IInv, Labels, LabelsOK, LabelOK, History
<1> HIDE DEF w
<1>4. /\ g' = g /\ par' = par /\ chi' = chi /\ tl' = tl /\ nodes' = nodes /\ cut' = cut
      /\ k' = k /\ i' = 1 /\ pc = "label" /\ pc' = "inputs"
      /\ lab' = [lab EXCEPT ![k] = <<w, w, w, w>>]
  BY DEF w
<1> HIDE DEF LabelSgd
<1>5. /\ Ops' = Ops /\ Tensor' = Tensor /\ Node' = Node /\ NodeRecord' = NodeRecord
      /\ \A a : Ins(a)' = Ins(a) /\ Outs(a)' = Outs(a)
  BY <1>4 DEF Ops, Ins, Outs, Tensor, Node, NodeRecord
<1>6. /\ lab' \in [Ops -> Seq(Strategy)]
      /\ lab'[k] = <<w, w, w, w>>
      /\ \A a \in Ops \ {k} : lab'[a] = lab[a]
  <2>1. lab \in [Ops -> Seq(Strategy)]
    BY DEF IInv, TypeOK
  <2>2. <<w, w, w, w>> \in Seq(Strategy)
    BY <1>3
  <2> QED BY <1>2, <1>4, <2>1, <2>2
<1>7. TypeOK'
  BY <1>4, <1>5, <1>6 DEF IInv, TypeOK
<1>8. Labels'
  <2>1. Unjoined'
    BY <1>4, <1>5 DEF IInv, Labels, Unjoined
  <2> QED BY <1>4, <2>1, SameLabels DEF IInv
<1>9. Links'
  <2>1. \A a \in Ops : StrategyOK(a)'
    <3> TAKE a \in Ops
    <3>1. CASE a = k
      <4> DEFINE v == <<w, w, w, w>>
      <4>1. Len(v) = 4 /\ \A p \in 1 .. 3 : v[p] = w
        OBVIOUS
      <4>5. v[1] = v[4]
        OBVIOUS
      <4>2. lab'[k] = v
        BY <1>6
      <4> HIDE DEF v
      <4>3. Len(lab'[k]) = Len(Ins(k)) + Len(Outs(k))
        BY <1>2, <4>1, <4>2
      <4>4. \A p \in 1 .. Len(Ins(k)) : lab'[k][p] # -2
        BY <1>2, <1>3, <4>1, <4>2
      <4> QED BY <1>4, <1>5, <3>1, <4>2, <4>3, <4>4, <4>5 DEF StrategyOK
    <3>2. CASE a # k
      BY <1>4, <1>5, <1>6, <3>2 DEF IInv, Links, StrategyOK
    <3> QED BY <3>1, <3>2
  <2>2. Phase'
    BY <1>2, <1>4, <1>5, <1>6 DEF Phase
  <2>3. Untouched'
    BY <1>4, <1>5 DEF IInv, Links, Untouched
  <2>4. LayoutsSound'
    <3> SUFFICES ASSUME NEW a \in Ops
                 PROVE  /\ \A p \in 1 .. Len(Ins(a)) : OperandSound(a, p)'
                        /\ \A q \in 1 .. Len(Outs(a)) : ResultSound(a, q)'
      BY <1>5 DEF LayoutsSound
    <3>1. CASE a = k
      <4>1. k \in Nat /\ \A p \in 1 .. Len(Ins(a)) : ~(p < 1)
        BY <1>2 DEF Ops
      <4> QED BY <1>4, <1>5, <3>1, <4>1
              DEF OperandSound, ResultSound, PassedOperand, PassedResult
    <3>2. CASE a # k
      <4>1. /\ \A p : PassedOperand(a, p)' => PassedOperand(a, p)
            /\ \A q : PassedResult(a, q)' => PassedResult(a, q)
        BY <1>4, <3>2 DEF PassedOperand, PassedResult
      <4>2. lab'[a] = lab[a]
        BY <1>6, <3>2
      <4> QED BY <1>4, <4>1, <4>2, OtherOp DEF IInv, Links
    <3> QED BY <3>1, <3>2
  <2> QED BY <1>5, <2>1, <2>2, <2>3, <2>4 DEF Links
<1> QED BY <1>7, <1>8, <1>9 DEF IInv

(***************************************************************************)
(* Links under a step of op k that appends nodes, or none, and moves on.   *)
(***************************************************************************)
LEMMA LinkStep ==
  ASSUME IInv, AtInput, par[k][i] = 0, NEW n \in Node', Link(n), i' = i + 1,
         g' = g, k' = k, pc' = pc, lab' = lab, chi' = chi, cut' = cut,
         nodes' \in Seq(NodeRecord), Node \subseteq Node',
         \A m \in Node : nodes'[m] = nodes[m],
         nodes'[n].of = Operand, nodes'[n].lay = Want,
         tl' \in [Tensor -> Label]
  PROVE  TypeOK' /\ Links'
<1>1. GraphOK
  BY GraphIsOK DEF IInv, TypeOK
<1>2. /\ Ops' = Ops /\ Tensor' = Tensor /\ NodeRecord' = NodeRecord
      /\ \A a : Ins(a)' = Ins(a) /\ Outs(a)' = Outs(a)
  BY DEF Ops, Ins, Outs, Tensor, NodeRecord
<1>3. /\ pc = "inputs" /\ k \in Ops /\ i \in 1 .. Len(Ins(k)) /\ k \in Nat
      /\ \A a \in Ops : Len(Ins(a)) \in Nat /\ Len(Outs(a)) \in Nat
  BY <1>1 DEF AtInput, GraphOK, Ops
<1>4. /\ Len(nodes) \in Nat /\ Len(nodes') \in Nat /\ Len(nodes) <= Len(nodes')
      /\ n # 0 /\ n \in 0 .. Len(nodes')
  <2>1. Len(nodes) \in Nat /\ Len(nodes') \in Nat
    BY DEF IInv, TypeOK
  <2>2. CASE Len(nodes) = 0
    BY <2>1, <2>2 DEF Node
  <2>3. CASE Len(nodes) # 0
    <3>1. Len(nodes) \in Node
      BY <2>1, <2>3 DEF Node
    <3> QED BY <2>1, <3>1 DEF Node
  <2> QED BY <2>1, <2>2, <2>3 DEF Node
<1> DEFINE new == [p \in 1 .. Len(Ins(k)) |->
                     IF p = i \/ (g.comm /\ Ins(k)[p] = Operand /\ par[k][p] = 0)
                     THEN n ELSE par[k][p]]
<1>5. par' = [par EXCEPT ![k] = new]
  BY DEF Link
<1>6. /\ new \in [1 .. Len(Ins(k)) -> 0 .. Len(nodes')]
      /\ new[i] = n
      /\ \A p \in 1 .. Len(Ins(k)) : p # i /\ par[k][p] # 0 => new[p] = par[k][p]
  <2>1. par[k] \in [1 .. Len(Ins(k)) -> 0 .. Len(nodes)]
    BY <1>3 DEF IInv, TypeOK
  <2> QED BY <1>3, <1>4, <2>1
<1> HIDE DEF new
<1>7. /\ par' = [a \in Ops |-> par'[a]]
      /\ par'[k] = new
      /\ \A a \in Ops \ {k} : par'[a] = par[a]
  BY <1>3, <1>5 DEF IInv, TypeOK
<1>8. TypeOK'
  <2>1. \A a \in Ops : /\ par'[a] \in [1 .. Len(Ins(a)) -> 0 .. Len(nodes')]
                       /\ chi'[a] \in [1 .. Len(Outs(a)) -> 0 .. Len(nodes')]
    <3> TAKE a \in Ops
    <3>1. \A x \in 0 .. Len(nodes) : x \in 0 .. Len(nodes')
      BY <1>4
    <3>2. /\ par[a] \in [1 .. Len(Ins(a)) -> 0 .. Len(nodes)]
          /\ chi[a] \in [1 .. Len(Outs(a)) -> 0 .. Len(nodes)]
      BY DEF IInv, TypeOK
    <3> QED BY <1>6, <1>7, <3>1, <3>2
  <2>2. i' \in Nat \ {0}
    BY <1>3
  <2> QED BY <1>2, <1>7, <2>1, <2>2 DEF IInv, TypeOK
<1>9. Links'
  <2>1. \A a \in Ops : StrategyOK(a)'
    BY <1>2 DEF IInv, Links, StrategyOK
  <2>2. Phase'
    BY <1>2, <1>3 DEF IInv, Links, Phase
  <2>3. Untouched'
    BY <1>2, <1>3, <1>7 DEF IInv, Links, Untouched, Ops
  <2>4. LayoutsSound'
    <3> SUFFICES ASSUME NEW a \in Ops, lab[a] # <<>>
                 PROVE  /\ \A p \in 1 .. Len(Ins(a)) : OperandSound(a, p)'
                        /\ \A q \in 1 .. Len(Outs(a)) : ResultSound(a, q)'
      BY <1>2 DEF LayoutsSound, OperandSound, ResultSound
    <3>1. ASSUME NEW p \in 1 .. Len(Ins(a)), PassedOperand(a, p)'
          PROVE  OperandSound(a, p)'
      <4>1. CASE a = k /\ p = i
        BY <1>2, <1>4, <1>6, <1>7, <4>1 DEF OperandSound, Operand, Want
      <4>2. CASE ~(a = k /\ p = i)
        <5>1. PassedOperand(a, p)
          BY <1>3, <3>1, <4>2 DEF PassedOperand
        <5>2. par[a][p] # 0 /\ nodes[par[a][p]].of = Ins(a)[p]
                /\ nodes[par[a][p]].lay = lab[a][p]
          BY <5>1 DEF IInv, Links, LayoutsSound, OperandSound
        <5>3. par'[a][p] = par[a][p]
          BY <1>6, <1>7, <4>2, <5>2
        <5>4. par[a][p] \in Node
          BY <5>2 DEF IInv, TypeOK, Node
        <5> QED BY <1>2, <5>2, <5>3, <5>4 DEF OperandSound
      <4> QED BY <4>1, <4>2
    <3>2. ASSUME NEW q \in 1 .. Len(Outs(a)), PassedResult(a, q)'
          PROVE  ResultSound(a, q)'
      <4>1. PassedResult(a, q)
        BY <1>3, <3>2 DEF PassedResult
      <4>2. /\ chi[a][q] # 0
            /\ nodes[chi[a][q]].lay = lab[a][Len(Ins(a)) + q]
            /\ ~g.ops[a].sgd => nodes[chi[a][q]].of = Outs(a)[q]
        BY <4>1 DEF IInv, Links, LayoutsSound, ResultSound
      <4>3. chi[a][q] \in Node
        BY <4>2 DEF IInv, TypeOK, Node
      <4> QED BY <1>2, <4>2, <4>3 DEF ResultSound
    <3> QED BY <3>1, <3>2 DEF OperandSound, ResultSound
  <2> QED BY <1>2, <2>1, <2>2, <2>3, <2>4 DEF Links
<1> QED BY <1>8, <1>9

(***************************************************************************)
(* The operand a step of the loop is at.                                   *)
(***************************************************************************)
LEMMA OperandFacts ==
  ASSUME IInv, AtInput
  PROVE  /\ GraphOK /\ k \in Ops /\ k \in Nat /\ i \in 1 .. Len(Ins(k)) /\ pc = "inputs"
         /\ Operand \in Tensor
         /\ Want \in Strategy /\ Want # -2
         /\ \A b \in Ops : \A q \in 1 .. Len(Outs(b)) : b >= k => Outs(b)[q] # Operand
<1>1. GraphOK
  BY GraphIsOK DEF IInv, TypeOK
<1>2. /\ k \in Ops /\ k \in Nat /\ i \in 1 .. Len(Ins(k)) /\ pc = "inputs"
      /\ Len(Ins(k)) \in Nat /\ Len(Outs(k)) \in Nat
  BY <1>1 DEF AtInput, GraphOK, Ops
<1>3. Operand \in Tensor
  BY <1>1, <1>2, ElementOfSeq DEF Operand, GraphOK
<1>4. lab[k] # <<>> /\ lab[k] \in Seq(Strategy) /\ Len(lab[k]) = Len(Ins(k)) + Len(Outs(k))
        /\ Want # -2
  BY <1>2 DEF IInv, Links, Phase, StrategyOK, TypeOK, Want
<1>5. Want \in Strategy
  <2>1. i \in 1 .. Len(lab[k])
    BY <1>2, <1>4
  <2> QED BY <1>4, <2>1, ElementOfSeq DEF Want
<1>6. ASSUME NEW b \in Ops, NEW q \in 1 .. Len(Outs(b)), b >= k
      PROVE  Outs(b)[q] # Operand
  <2>1. k \in 1 .. b
    BY <1>2, <1>6 DEF Ops
  <2>2. TopoOrdered(g)
    BY <1>1 DEF GraphOK
  <2>3. \A a \in 1 .. b : \A p \in 1 .. Len(g.ops[a].ins) : g.ops[a].ins[p] # g.ops[b].outs[q]
    BY <2>2 DEF TopoOrdered, Ops, Outs
  <2>4. Ins(k)[i] # Outs(b)[q]
    BY <1>2, <2>1, <2>3 DEF Ins, Outs
  <2> QED BY <2>4 DEF Operand
<1> QED BY <1>1, <1>2, <1>3, <1>4, <1>5, <1>6

(* An operand linked to a layout that exists. *)
LEMMA ReuseStep == ASSUME IInv, ReuseOperand PROVE IInv'
<1> DEFINE n == LayoutNode(Operand, Want)
<1>1. /\ AtInput /\ par[k][i] = 0 /\ Seen(Operand) /\ Has(Operand, Want)
      /\ Link(n) /\ i' = i + 1
      /\ g' = g /\ k' = k /\ pc' = pc /\ lab' = lab /\ chi' = chi /\ cut' = cut
      /\ tl' = tl /\ nodes' = nodes
  BY DEF ReuseOperand
<1>2. NodeIs(n, Operand, Want)
  <2>1. LabelOK(Operand) /\ Want \in Strategy
    BY <1>1, OperandFacts DEF IInv, Labels, LabelsOK
  <2>2. CASE g.comm
    BY <1>1, <2>1, <2>2 DEF LabelOK, Has, LayoutNode
  <2>3. CASE ~g.comm
    BY <1>1, <2>1, <2>3 DEF LabelOK, Has, LayoutNode, Seen
  <2> QED BY <2>2, <2>3
<1> HIDE DEF n
<1>3. /\ Node' = Node /\ n \in Node' /\ nodes'[n].of = Operand /\ nodes'[n].lay = Want
      /\ nodes' \in Seq(NodeRecord) /\ tl' \in [Tensor -> Label]
  BY <1>1, <1>2 DEF Node, NodeIs, IInv, TypeOK
<1>4. TypeOK' /\ Links'
  BY <1>1, <1>3, LinkStep
<1>5. Unjoined'
  BY <1>1 DEF IInv, Labels, Unjoined, AtInput, Ops, Outs
<1>6. Labels'
  BY <1>1, <1>5, SameLabels DEF IInv, AtInput
<1> QED BY <1>4, <1>6 DEF IInv

(***************************************************************************)
(* A new node for an operand, scattered or converted.                      *)
(***************************************************************************)
LEMMA OperandNode ==
  ASSUME IInv, AtInput, par[k][i] = 0, NEW n \in NodeRecord,
         n.of = Operand, n.lay = Want, n.kind # "Tile", Create(n), Apply(Operand, Want),
         Link(NewNode), i' = i + 1,
         g' = g, k' = k, pc' = pc, lab' = lab, chi' = chi, cut' = cut,
         g.comm => tl[Operand].hist[Want] = 0,
         n.kind = "Transform" => /\ NodeIs(n.src, n.of, n.pre)
                                 /\ n.pre >= -1 /\ n.lay >= 0 /\ n.pre # n.lay
  PROVE  IInv'
<1>1. TypeOK /\ Labels
  BY DEF IInv
<1>2. /\ GraphOK /\ k \in Ops /\ k \in Nat /\ pc = "inputs"
      /\ Operand \in Tensor /\ Want \in Strategy /\ Want # -2
      /\ \A b \in Ops : \A q \in 1 .. Len(Outs(b)) : b >= k => Outs(b)[q] # Operand
  BY OperandFacts
<1>3. /\ nodes' \in Seq(NodeRecord)
      /\ Node' = Node \cup {NewNode}
      /\ nodes'[NewNode] = n
      /\ \A m \in Node : nodes'[m] = nodes[m]
  <2>1. NodeRecord' = NodeRecord
    BY DEF NodeRecord, Tensor
  <2> QED BY <1>1, <2>1, AppendNode
<1>4. /\ tl' \in [Tensor -> Label]
      /\ \A u \in Tensor \ {Operand} : tl'[u] = tl[u]
  BY <1>1, <1>2, ApplyLabel
<1>5. TypeOK' /\ Links'
  BY <1>3, <1>4, LinkStep
<1>6. LabelsOK' /\ AllRecorded'
  BY <1>1, <1>2, NewLayout DEF Labels
<1>7. SourcesSound' /\ TransformsImplemented'
  BY <1>1, MoreNodes DEF Labels
<1>8. Unjoined'
  <2>1. \A b \in Ops : \A q \in 1 .. Len(Outs(b)) : Outs(b)[q] \in Tensor
    BY <1>2, ElementOfSeq DEF GraphOK
  <2>2. Ops' = Ops /\ \A a : Outs(a)' = Outs(a)
    BY DEF Ops, Outs
  <2> SUFFICES ASSUME NEW b \in Ops, NEW q \in 1 .. Len(Outs(b)), b > k \/ b = k
               PROVE  ~tl'[Outs(b)[q]].applied
    BY <2>2 DEF Unjoined
  <2>3. Outs(b)[q] # Operand
    BY <1>2 DEF Ops
  <2>4. ~tl[Outs(b)[q]].applied
    BY <1>1, <1>2 DEF Labels, Unjoined
  <2> QED BY <1>4, <2>1, <2>3, <2>4
<1>9. Ascending'
  BY <1>2 DEF Ascending
<1> QED BY <1>5, <1>6, <1>7, <1>8, <1>9 DEF IInv, Labels

(* What Seen and Has do not find is not in the map. *)
LEMMA NotRecorded ==
  ASSUME TypeOK, NEW t \in Tensor, NEW s \in Strategy, Seen(t) => ~Has(t, s)
  PROVE  g.comm => tl[t].hist[s] = 0
BY DEF Seen, Has, History

(* An operand scattered from the original. *)
LEMMA ForkOperandStep == ASSUME IInv, ForkOperand PROVE IInv'
<1> DEFINE n == [kind |-> "Scatter", of |-> Operand, pre |-> Want, lay |-> Want, src |-> 0]
<1>1. Operand \in Tensor /\ Want \in Strategy
  BY OperandFacts DEF ForkOperand
<1>2. n \in NodeRecord
  BY <1>1 DEF NodeRecord
<1>3. Create(n) /\ Apply(Operand, Want)
  BY DEF ForkOperand, ForkPattern
<1>4. n.of = Operand /\ n.lay = Want /\ n.kind = "Scatter"
  OBVIOUS
<1> HIDE DEF n
<1>5. Seen(Operand) => ~Has(Operand, Want)
  BY DEF ForkOperand
<1>6. g.comm => tl[Operand].hist[Want] = 0
  BY <1>1, <1>5, NotRecorded DEF IInv
<1> QED BY <1>2, <1>3, <1>4, <1>6, OperandNode DEF ForkOperand

(* An operand converted from another layout. *)
LEMMA TransformOperandStep == ASSUME IInv, TransformOperand PROVE IInv'
<1> DEFINE t == Operand
           s == Want
           from == IF tl[t].hist[Pre(t)] = 0 THEN tl[t].node ELSE tl[t].hist[Pre(t)]
           n == [kind |-> "Transform", of |-> t, pre |-> Pre(t), lay |-> s, src |-> from]
<1>1. t \in Tensor /\ s \in Strategy /\ s # -2
  BY OperandFacts DEF TransformOperand
<1>2. Seen(t) /\ ~Has(t, s) /\ ~NeedsFork(t, s)
  BY DEF TransformOperand
<1>3. NodeIs(from, t, Pre(t)) /\ Pre(t) \in Strategy /\ from \in Nat
  <2>1. NodeIs(from, t, Pre(t)) /\ Pre(t) \in Strategy
    BY <1>1, <1>2, KnownSource, KnownLayout DEF IInv, Labels
  <2> QED BY <2>1 DEF NodeIs, Node, IInv, TypeOK
<1>4. Pre(t) >= -1 /\ s >= 0 /\ Pre(t) # s
  <2>1. Pre(t) # s
    BY <1>1, <1>2, KnownLayout DEF Has, History, IInv, Labels
  <2> QED BY <1>1, <1>2, <1>3, <2>1, AxisAssumption DEF NeedsFork, Strategy
<1>5. n \in NodeRecord
  BY <1>1, <1>3 DEF NodeRecord
<1>6. Create(n) /\ Apply(t, s)
  BY DEF TransformOperand, TransformPattern
<1>7. g.comm => tl[t].hist[s] = 0
  BY <1>1, <1>2, NotRecorded DEF IInv
<1>8. n.of = t /\ n.lay = s /\ n.pre = Pre(t) /\ n.src = from /\ n.kind = "Transform"
  OBVIOUS
<1> HIDE DEF n, from
<1>9. /\ AtInput /\ par[k][i] = 0 /\ Link(NewNode) /\ i' = i + 1
      /\ g' = g /\ k' = k /\ pc' = pc /\ lab' = lab /\ chi' = chi /\ cut' = cut
  BY DEF TransformOperand
<1> QED BY <1>3, <1>4, <1>5, <1>6, <1>7, <1>8, <1>9, OperandNode

(***************************************************************************)
(* A new layout of a weight, before any op is lowered.                     *)
(***************************************************************************)
LEMMA PlanFacts ==
  ASSUME IInv, pc = "weights", NEW t \in g.training, NEW s \in Strategy, NextPlan(t, s)
  PROVE  /\ GraphOK /\ g.comm /\ t \in Tensor
         /\ s # -2 /\ tl[t].hist[s] = 0
         /\ \A b \in Ops : \A q \in 1 .. Len(Outs(b)) : Outs(b)[q] # t
<1>1. GraphOK
  BY GraphIsOK DEF IInv, TypeOK
<1>2. g.comm /\ t \in Tensor
  BY <1>1 DEF IInv, Links, Phase, GraphOK
<1>3. s \in Plans(t) /\ tl[t].hist[s] = 0
  BY DEF NextPlan, History
<1>4. s # -2
  <2>1. PICK a \in Ops : \E p \in 1 .. Len(Ins(a)) :
                            g.ops[a].stgy # <<>> /\ g.ops[a].stgy[p] = s
    BY <1>3 DEF Plans
  <2> QED BY <1>1, <2>1 DEF GraphOK, IsOp, Ins
<1>5. \A b \in Ops : \A q \in 1 .. Len(Outs(b)) : Outs(b)[q] # t
  BY <1>1 DEF GraphOK, TopoOrdered, Ops, Outs
<1> QED BY <1>1, <1>2, <1>3, <1>4, <1>5

(* A new node for a weight, scattered or converted. *)
LEMMA WeightNode ==
  ASSUME IInv, pc = "weights", NEW t \in g.training, NEW s \in Strategy, NextPlan(t, s),
         NEW n \in NodeRecord, n.of = t, n.lay = s, n.kind # "Tile",
         Create(n), Apply(t, s),
         g' = g, k' = k, i' = i, pc' = pc, lab' = lab, par' = par, chi' = chi, cut' = cut,
         n.kind = "Transform" => /\ NodeIs(n.src, n.of, n.pre)
                                 /\ n.pre >= -1 /\ n.lay >= 0 /\ n.pre # n.lay
  PROVE  IInv'
<1>1. TypeOK /\ Labels /\ Links
  BY DEF IInv
<1>2. /\ GraphOK /\ g.comm /\ t \in Tensor
      /\ s # -2 /\ tl[t].hist[s] = 0
      /\ \A b \in Ops : \A q \in 1 .. Len(Outs(b)) : Outs(b)[q] # t
  BY PlanFacts
<1>3. /\ nodes' \in Seq(NodeRecord)
      /\ Len(nodes') = Len(nodes) + 1
      /\ Node' = Node \cup {NewNode}
      /\ \A m \in Node : nodes'[m] = nodes[m]
  <2>1. NodeRecord' = NodeRecord
    BY DEF NodeRecord, Tensor
  <2> QED BY <1>1, <2>1, AppendNode
<1>4. /\ tl' \in [Tensor -> Label]
      /\ \A u \in Tensor \ {t} : tl'[u] = tl[u]
      /\ tl'[t].hist[s] = NewNode
      /\ \A r \in Strategy \ {s} : tl'[t].hist[r] = tl[t].hist[r]
  BY <1>1, <1>2, ApplyLabel
<1>5. /\ Ops' = Ops /\ Tensor' = Tensor /\ NodeRecord' = NodeRecord
      /\ \A a : Ins(a)' = Ins(a) /\ Outs(a)' = Outs(a)
  BY DEF Ops, Ins, Outs, Tensor, NodeRecord
<1>6. TypeOK'
  <2>1. \A x \in 0 .. Len(nodes) : x \in 0 .. Len(nodes')
    BY <1>1, <1>3 DEF TypeOK
  <2>2. \A a \in Ops : /\ par[a] \in [1 .. Len(Ins(a)) -> 0 .. Len(nodes')]
                       /\ chi[a] \in [1 .. Len(Outs(a)) -> 0 .. Len(nodes')]
    BY <1>1, <2>1 DEF TypeOK
  <2> QED BY <1>1, <1>3, <1>4, <1>5, <2>2 DEF TypeOK
<1>7. Links'
  <2>1. (\A a \in Ops : StrategyOK(a))' /\ Phase' /\ Untouched'
    BY <1>1, <1>5 DEF Links, StrategyOK, Phase, Untouched
  <2>2. ASSUME NEW a \in Ops
        PROVE  /\ \A p \in 1 .. Len(Ins(a)) : OperandSound(a, p)'
               /\ \A q \in 1 .. Len(Outs(a)) : ResultSound(a, q)'
    <3>1. /\ \A p : PassedOperand(a, p)' => PassedOperand(a, p)
          /\ \A q : PassedResult(a, q)' => PassedResult(a, q)
      BY DEF PassedOperand, PassedResult
    <3> QED BY <1>1, <1>3, <3>1, OtherOp DEF Links
  <2> QED BY <1>5, <2>1, <2>2 DEF Links, LayoutsSound
<1>8. LabelsOK' /\ AllRecorded'
  BY <1>1, <1>2, NewLayout DEF Labels
<1>9. SourcesSound' /\ TransformsImplemented'
  BY <1>1, MoreNodes DEF Labels
<1>10. Unjoined'
  <2>1. \A b \in Ops : \A q \in 1 .. Len(Outs(b)) : Outs(b)[q] \in Tensor
    BY <1>2, ElementOfSeq DEF GraphOK
  <2> QED BY <1>1, <1>2, <1>4, <1>5, <2>1 DEF Unjoined, Labels
<1>11. Ascending'
  <2> SUFFICES ASSUME NEW u \in g.training,
                      NEW r \in Strategy, tl'[u].hist[r] # 0,
                      NEW x \in Plans(u), tl'[u].hist[x] = 0
               PROVE  r < x
    BY <1>5 DEF Ascending, History, Plans
  <2>1. u \in Tensor /\ x \in Strategy
    BY <1>2 DEF GraphOK, Plans
  <2>2. CASE u # t
    BY <1>1, <1>4, <2>1, <2>2 DEF Labels, Ascending, History
  <2>3. CASE u = t
    <3>1. x # s /\ x \in Plans(t) \ History(t)
      BY <1>1, <1>2, <1>4, <2>1, <2>3 DEF History, NewNode, TypeOK
    <3>2. CASE r = s
      BY <2>1, <3>1, <3>2, AxisAssumption DEF NextPlan, Strategy
    <3>3. CASE r # s
      BY <1>1, <1>4, <2>1, <2>3, <3>1, <3>3 DEF Labels, Ascending, History
    <3> QED BY <3>2, <3>3
  <2> QED BY <2>2, <2>3
<1> QED BY <1>6, <1>7, <1>8, <1>9, <1>10, <1>11 DEF IInv, Labels

(* The first layout of a weight. *)
LEMMA ForkWeightStep == ASSUME IInv, ForkWeight PROVE IInv'
<1>1. PICK t \in g.training, s \in Strategy : NextPlan(t, s) /\ ForkPattern(t, s)
  BY DEF ForkWeight
<1> DEFINE n == [kind |-> "Scatter", of |-> t, pre |-> s, lay |-> s, src |-> 0]
<1>2. pc = "weights"
  BY DEF ForkWeight
<1>3. n \in NodeRecord
  BY <1>1, <1>2, PlanFacts DEF NodeRecord
<1>4. Create(n) /\ Apply(t, s)
  BY <1>1 DEF ForkPattern
<1>5. n.of = t /\ n.lay = s /\ n.kind = "Scatter"
  OBVIOUS
<1> HIDE DEF n
<1> QED BY <1>1, <1>2, <1>3, <1>4, <1>5, WeightNode DEF ForkWeight

(* Each further layout of a weight. *)
LEMMA TransformWeightStep == ASSUME IInv, TransformWeight PROVE IInv'
<1>1. PICK t \in g.training, s \in Strategy :
        NextPlan(t, s) /\ Seen(t) /\ TransformPattern(t, selectTransPreStrategy(t), s)
  BY DEF TransformWeight
<1> DEFINE from == IF tl[t].hist[Pre(t)] = 0 THEN tl[t].node ELSE tl[t].hist[Pre(t)]
           n == [kind |-> "Transform", of |-> t, pre |-> Pre(t), lay |-> s, src |-> from]
<1>2. pc = "weights" /\ g.comm /\ t \in Tensor /\ s # -2 /\ Pre(t) = selectTransPreStrategy(t)
  BY <1>1, PlanFacts DEF TransformWeight, Pre
<1>3. NodeIs(from, t, Pre(t)) /\ Pre(t) \in History(t) /\ from \in Nat
  <2>1. NodeIs(from, t, Pre(t)) /\ Pre(t) \in History(t)
    BY <1>1, <1>2, KnownSource, KnownLayout DEF IInv, Labels
  <2> QED BY <2>1 DEF NodeIs, Node, IInv, TypeOK
<1>4. Pre(t) >= -1 /\ s >= 0 /\ Pre(t) # s /\ Pre(t) \in Strategy
  <2>1. Pre(t) < s
    BY <1>1, <1>2, <1>3 DEF IInv, Labels, Ascending, NextPlan
  <2>2. Pre(t) # -2
    BY <1>2, <1>3 DEF IInv, Labels, LabelsOK, LabelOK, History
  <2> QED BY <1>3, <2>1, <2>2, AxisAssumption DEF History, Strategy
<1>5. n \in NodeRecord
  BY <1>2, <1>3, <1>4 DEF NodeRecord
<1>6. Create(n) /\ Apply(t, s)
  BY <1>1, <1>2 DEF TransformPattern
<1>7. n.of = t /\ n.lay = s /\ n.pre = Pre(t) /\ n.src = from /\ n.kind = "Transform"
  OBVIOUS
<1> HIDE DEF n, from
<1>8. /\ g' = g /\ k' = k /\ i' = i /\ pc' = pc /\ lab' = lab /\ par' = par /\ chi' = chi
      /\ cut' = cut
  BY DEF TransformWeight
<1> QED BY <1>1, <1>2, <1>3, <1>4, <1>5, <1>6, <1>7, <1>8, WeightNode

(***************************************************************************)
(* The results: an SGD op's, and the others', which are joined.            *)
(***************************************************************************)
LEMMA ResultLinks ==
  ASSUME IInv, NEW b \in Ops, b = k, NEW chik \in [1 .. Len(Outs(k)) -> 0 .. Len(nodes')],
         chi' = [chi EXCEPT ![k] = chik],
         g' = g, lab' = lab, par' = par, tl' \in [Tensor -> Label], cut' = cut,
         nodes' \in Seq(NodeRecord), Node \subseteq Node', Len(nodes) <= Len(nodes'),
         \A m \in Node : nodes'[m] = nodes[m],
         \/ k' = k /\ pc = "outputs" /\ pc' = "outputs" /\ i' = i + 1 /\ i <= Len(Outs(k))
         \/ k' = k + 1 /\ pc = "sgd" /\ pc' = "label" /\ i' = i,
         \A q \in 1 .. Len(Outs(b)) : ResultSound(b, q)'
  PROVE  TypeOK' /\ Links'
<1>1. TypeOK /\ Links /\ GraphOK
  BY GraphIsOK DEF IInv, TypeOK
<1>2. /\ Ops' = Ops /\ Tensor' = Tensor /\ NodeRecord' = NodeRecord
      /\ \A a : Ins(a)' = Ins(a) /\ Outs(a)' = Outs(a)
  BY DEF Ops, Ins, Outs, Tensor, NodeRecord
<1>3. /\ chi' = [a \in Ops |-> chi'[a]]
      /\ chi'[k] = chik
      /\ \A a \in Ops \ {k} : chi'[a] = chi[a]
  BY <1>1 DEF TypeOK
<1>4. /\ k \in Nat /\ k' \in 1 .. Len(g.ops) + 1 /\ i \in Nat \ {0} /\ i' \in Nat \ {0}
      /\ \A a \in Ops : Len(Ins(a)) \in Nat /\ Len(Outs(a)) \in Nat
  BY <1>1 DEF TypeOK, Ops, GraphOK
<1>5. TypeOK'
  <2>1. \A x \in 0 .. Len(nodes) : x \in 0 .. Len(nodes')
    BY <1>1 DEF TypeOK
  <2>2. \A a \in Ops : /\ par[a] \in [1 .. Len(Ins(a)) -> 0 .. Len(nodes')]
                       /\ chi'[a] \in [1 .. Len(Outs(a)) -> 0 .. Len(nodes')]
    BY <1>1, <1>3, <2>1 DEF TypeOK
  <2>3. cut' \subseteq Node'
    BY <1>1 DEF TypeOK
  <2> QED BY <1>1, <1>2, <1>3, <1>4, <2>2, <2>3 DEF TypeOK
<1>6. Links'
  <2>1. (\A a \in Ops : StrategyOK(a))'
    BY <1>1, <1>2 DEF Links, StrategyOK
  <2>2. Phase'
    BY <1>1, <1>2, <1>4 DEF Links, Phase
  <2>3. Untouched'
    <3> SUFFICES ASSUME NEW a \in Ops, a > k' \/ (a = k' /\ pc' \in {"weights", "label"})
                 PROVE  a > k /\ a # k
      BY <1>1, <1>2, <1>3 DEF Links, Untouched
    <3> QED BY <1>4 DEF Ops
  <2>4. ASSUME NEW a \in Ops
        PROVE  /\ \A p \in 1 .. Len(Ins(a)) : OperandSound(a, p)'
               /\ \A q \in 1 .. Len(Outs(a)) : ResultSound(a, q)'
    <3>1. \A p \in 1 .. Len(Ins(a)) : PassedOperand(a, p)' => PassedOperand(a, p)
      BY <1>4 DEF PassedOperand, Ops
    <3>2. CASE a # k
      <4>1. \A q \in 1 .. Len(Outs(a)) : PassedResult(a, q)' => PassedResult(a, q)
        BY <1>4, <3>2 DEF PassedResult, Ops
      <4> QED BY <1>1, <1>3, <3>1, <3>2, <4>1, OtherOp DEF Links
    <3>3. CASE a = b
      <4>1. ASSUME NEW p \in 1 .. Len(Ins(b)), lab[b] # <<>>
            PROVE  OperandSound(b, p)'
        <5>1. par[b][p] # 0 /\ nodes[par[b][p]].of = Ins(b)[p]
                /\ nodes[par[b][p]].lay = lab[b][p]
          BY <1>1, <4>1 DEF Links, LayoutsSound, OperandSound, PassedOperand
        <5>2. par[b][p] \in Node
          BY <1>1, <5>1 DEF TypeOK, Node
        <5> QED BY <1>2, <5>1, <5>2 DEF OperandSound
      <4> QED BY <1>1, <3>3, <4>1 DEF Links, Phase
    <3> QED BY <3>2, <3>3
  <2> QED BY <1>2, <2>1, <2>2, <2>3, <2>4 DEF Links, LayoutsSound
<1> QED BY <1>5, <1>6

(* The result of an SGD op, aliased to the weight or put in its place. *)
LEMMA SgdResultStep == ASSUME IInv, SgdResult PROVE IInv'
<1>1. TypeOK /\ Labels /\ Links /\ GraphOK
  BY GraphIsOK DEF IInv, TypeOK
<1> DEFINE s == lab[k][4]
           n == [kind |-> "Tile", of |-> Outs(k)[1], pre |-> s, lay |-> s, src |-> par[k][1]]
<1>2. PICK b \in Ops : b = k
  BY DEF SgdResult
<1>3. /\ pc = "sgd" /\ pc' = "label" /\ k' = k + 1 /\ g' = g /\ i' = i /\ lab' = lab
      /\ par' = par /\ tl' = tl /\ cut' = cut
  BY DEF SgdResult
<1>4. /\ g.ops[b].sgd /\ Len(Ins(b)) = 3 /\ Len(Outs(b)) = 1 /\ Outs(b)[1] \in Tensor
      /\ lab[b] # <<>> /\ lab[b] \in Seq(Strategy) /\ Len(lab[b]) = 4 /\ lab[b][4] = lab[b][1]
  <2>1. g.ops[b].sgd /\ lab[b] # <<>>
    BY <1>1, <1>2, <1>3 DEF Links, Phase
  <2>2. Len(Ins(b)) = 3 /\ Len(Outs(b)) = 1
    BY <1>1, <2>1 DEF GraphOK, IsOp, Ins, Outs
  <2>3. Outs(b)[1] \in Tensor
    <3>1. Outs(b) \in Seq(Tensor) /\ 1 \in 1 .. Len(Outs(b))
      BY <1>1, <2>2 DEF GraphOK
    <3> QED BY <3>1, ElementOfSeq
  <2>4. lab[b] \in Seq(Strategy)
    BY <1>1 DEF TypeOK
  <2>5. Len(lab[b]) = 4 /\ lab[b][4] = lab[b][1]
    <3>1. StrategyOK(b)
      BY <1>1 DEF Links
    <3> HIDE DEF n, s
    <3> QED BY <2>1, <2>2, <3>1 DEF StrategyOK
  <2> QED BY <2>1, <2>2, <2>3, <2>4, <2>5
<1>5. s \in Strategy
  BY <1>2, <1>4, ElementOfSeq
<1>6. /\ par[b][1] \in Node /\ par[b][1] \in Nat
      /\ nodes[par[b][1]].lay = lab[b][4]
  <2>1. 1 \in 1 .. Len(Ins(b))
    BY <1>4
  <2>2. par[b][1] # 0 /\ nodes[par[b][1]].lay = lab[b][1]
    BY <1>1, <1>2, <1>3, <1>4, <2>1 DEF Links, LayoutsSound, OperandSound, PassedOperand
  <2>3. par[b][1] \in 0 .. Len(nodes) /\ Len(nodes) \in Nat
    BY <1>1, <2>1 DEF TypeOK
  <2> QED BY <1>4, <2>2, <2>3 DEF Node
<1>7. n \in NodeRecord
  BY <1>2, <1>4, <1>5, <1>6 DEF NodeRecord
<1>8. n.kind = "Tile" /\ n.lay = s /\ n.of = Outs(k)[1]
  OBVIOUS
<1>13. Unjoined'
  <2>1. Ops' = Ops /\ (\A a : Outs(a)' = Outs(a)) /\ k \in Nat /\ \A a \in Ops : a \in Nat
    BY <1>2, <1>3 DEF Ops, Outs
  <2> SUFFICES ASSUME NEW a \in Ops, NEW q \in 1 .. Len(Outs(a)), a > k' \/ a = k'
               PROVE  ~tl[Outs(a)[q]].applied
    BY <1>3, <2>1 DEF Unjoined
  <2>2. a > k
    BY <1>3, <2>1
  <2> QED BY <1>1, <2>2 DEF Labels, Unjoined
<1>14. ASSUME chi'[b][1] # 0, nodes'[chi'[b][1]].lay = s
       PROVE  \A q \in 1 .. Len(Outs(b)) : ResultSound(b, q)'
  <2>1. Ins(b)' = Ins(b) /\ Outs(b)' = Outs(b)
    BY <1>3 DEF Ins, Outs
  <2> SUFFICES ASSUME NEW q \in 1 .. Len(Outs(b)) PROVE ResultSound(b, q)'
    OBVIOUS
  <2>2. q = 1 /\ Len(Ins(b)) + q = 4
    BY <1>4
  <2>3. lab'[b][4] = s
    BY <1>2, <1>3
  <2> QED BY <1>3, <1>4, <1>14, <2>1, <2>2, <2>3 DEF ResultSound
<1>9. CASE s = -1
  <2>1. chi' = [chi EXCEPT ![k] = <<par[k][1]>>] /\ nodes' = nodes
    BY <1>9 DEF SgdResult
  <2> DEFINE chik == <<par[k][1]>>
  <2>2. /\ chik \in [1 .. Len(Outs(k)) -> 0 .. Len(nodes')] /\ chik[1] = par[k][1]
    BY <1>2, <1>4, <1>6, <2>1 DEF Node
  <2> HIDE DEF chik
  <2>3. chi'[b] = chik
    BY <1>1, <1>2, <2>1 DEF TypeOK, chik
  <2>4. \A q \in 1 .. Len(Outs(b)) : ResultSound(b, q)'
    <3>1. chi'[b][1] # 0 /\ nodes'[chi'[b][1]].lay = s
      BY <1>2, <1>6, <2>1, <2>2, <2>3 DEF Node
    <3> QED BY <1>14, <3>1
  <2>5. /\ nodes' \in Seq(NodeRecord) /\ Node' = Node /\ Len(nodes) <= Len(nodes')
        /\ tl' \in [Tensor -> Label]
    BY <1>1, <1>3, <2>1 DEF TypeOK, Node
  <2>6. TypeOK' /\ Links'
    BY <1>2, <1>3, <2>1, <2>2, <2>4, <2>5, ResultLinks DEF chik
  <2>7. Labels'
    BY <1>1, <1>3, <1>13, <2>1, SameLabels
  <2> QED BY <2>6, <2>7 DEF IInv
<1>10. CASE s # -1
  <2>1. chi' = [chi EXCEPT ![k] = <<NewNode>>] /\ Create(n)
    BY <1>10 DEF SgdResult
  <2> DEFINE chik == <<NewNode>>
  <2> HIDE DEF n
  <2>2. /\ nodes' \in Seq(NodeRecord)
        /\ Len(nodes') = Len(nodes) + 1
        /\ Node' = Node \cup {NewNode}
        /\ nodes'[NewNode] = n
        /\ \A m \in Node : nodes'[m] = nodes[m]
    <3>1. NodeRecord' = NodeRecord
      BY <1>3 DEF NodeRecord, Tensor
    <3> QED BY <1>1, <1>3, <1>7, <2>1, <3>1, AppendNode
  <2>3. Len(nodes) \in Nat /\ NewNode = Len(nodes) + 1
    BY <1>1 DEF TypeOK, NewNode
  <2>4. chik \in [1 .. Len(Outs(k)) -> 0 .. Len(nodes')] /\ chik[1] = NewNode
    BY <1>2, <1>4, <2>2, <2>3
  <2> HIDE DEF chik
  <2>5. chi'[b] = chik
    BY <1>1, <1>2, <2>1 DEF TypeOK, chik
  <2>6. \A q \in 1 .. Len(Outs(b)) : ResultSound(b, q)'
    <3>1. chi'[b][1] # 0 /\ nodes'[chi'[b][1]].lay = s
      BY <1>8, <2>2, <2>3, <2>4, <2>5
    <3> QED BY <1>14, <3>1
  <2>7. tl' \in [Tensor -> Label] /\ Len(nodes) <= Len(nodes')
    BY <1>1, <1>3, <2>2, <2>3 DEF TypeOK
  <2>8. TypeOK' /\ Links'
    BY <1>2, <1>3, <2>1, <2>2, <2>4, <2>6, <2>7, ResultLinks DEF chik
  <2>9. SourcesSound' /\ TransformsImplemented'
    BY <1>1, <1>3, <1>7, <1>8, <2>1, MoreNodes DEF Labels
  <2>10. LabelsOK'
    BY <1>1, <1>3, <2>2 DEF Labels, LabelsOK, LabelOK, NodeIs, Tensor
  <2>11. AllRecorded'
    BY <1>1, <1>3, <1>8, <2>2 DEF Labels, AllRecorded
  <2>12. Ascending'
    BY <1>3 DEF Ascending
  <2> QED BY <1>13, <2>8, <2>9, <2>10, <2>11, <2>12 DEF IInv, Labels
<1> QED BY <1>9, <1>10

(* The result of another op, joined into the original. *)
LEMMA JoinResultStep == ASSUME IInv, JoinResult PROVE IInv'
<1>1. TypeOK /\ Labels /\ Links /\ GraphOK
  BY GraphIsOK DEF IInv, TypeOK
<1>2. PICK b \in Ops : b = k
  BY DEF JoinResult
<1> DEFINE t == Outs(b)[i]
           s == lab[b][Len(Ins(b)) + i]
           n == [kind |-> "Join", of |-> t, pre |-> s, lay |-> s, src |-> 0]
           chik == [chi[b] EXCEPT ![i] = NewNode]
<1>3. /\ pc = "outputs" /\ i \in 1 .. Len(Outs(b)) /\ Create(n) /\ Apply(t, s)
      /\ chi' = [chi EXCEPT ![k] = chik] /\ i' = i + 1
      /\ g' = g /\ pc' = pc /\ k' = k /\ lab' = lab /\ par' = par /\ cut' = cut
  BY <1>2 DEF JoinResult, JoinPattern
<1>4. /\ Len(Ins(b)) \in Nat /\ Len(Outs(b)) \in Nat /\ b \in Nat
      /\ t \in Tensor /\ t \notin g.training
  BY <1>1, <1>3, ElementOfSeq DEF GraphOK, TopoOrdered, Ops, Outs
<1>5. s \in Strategy
  <2>1. /\ lab[b] \in Seq(Strategy) /\ Len(lab[b]) = Len(Ins(b)) + Len(Outs(b))
    BY <1>1, <1>2, <1>3 DEF TypeOK, Links, Phase, StrategyOK
  <2>2. Len(Ins(b)) + i \in 1 .. Len(lab[b])
    BY <1>3, <1>4, <2>1
  <2> QED BY <2>1, <2>2, ElementOfSeq
<1>6. n \in NodeRecord
  BY <1>4, <1>5 DEF NodeRecord
<1>7. n.of = t /\ n.lay = s /\ n.kind = "Join"
  OBVIOUS
<1> HIDE DEF n
<1>8. tl[t].hist[s] = 0
  <2>1. ~tl[t].applied
    BY <1>1, <1>2, <1>3 DEF Labels, Unjoined
  <2> QED BY <1>1, <1>4, <1>5, <2>1 DEF Labels, LabelsOK, LabelOK
<1>9. /\ nodes' \in Seq(NodeRecord)
      /\ Len(nodes') = Len(nodes) + 1
      /\ Node' = Node \cup {NewNode}
      /\ nodes'[NewNode] = n
      /\ \A m \in Node : nodes'[m] = nodes[m]
  <2>1. NodeRecord' = NodeRecord
    BY <1>3 DEF NodeRecord, Tensor
  <2> QED BY <1>1, <1>3, <1>6, <2>1, AppendNode
<1>10. /\ tl' \in [Tensor -> Label]
       /\ \A u \in Tensor \ {t} : tl'[u] = tl[u]
  BY <1>1, <1>3, <1>4, <1>5, ApplyLabel
<1>11. Len(nodes) \in Nat /\ NewNode = Len(nodes) + 1
  BY <1>1 DEF TypeOK, NewNode
<1>12. /\ chik \in [1 .. Len(Outs(b)) -> 0 .. Len(nodes')]
       /\ chik[i] = NewNode
       /\ \A q \in 1 .. Len(Outs(b)) : q # i => chik[q] = chi[b][q]
  <2>1. chi[b] \in [1 .. Len(Outs(b)) -> 0 .. Len(nodes)]
    BY <1>1 DEF TypeOK
  <2> QED BY <1>3, <1>9, <1>11, <2>1
<1> HIDE DEF chik
<1>13. chi'[b] = chik
  BY <1>1, <1>2, <1>3 DEF TypeOK
<1>14. \A q \in 1 .. Len(Outs(b)) : ResultSound(b, q)'
  <2> SUFFICES ASSUME NEW q \in 1 .. Len(Outs(b)), PassedResult(b, q)', lab[b] # <<>>
               PROVE  ResultSound(b, q)'
    BY <1>3 DEF ResultSound
  <2>1. Ins(b)' = Ins(b) /\ Outs(b)' = Outs(b)
    BY <1>3 DEF Ins, Outs
  <2>2. CASE q = i
    BY <1>3, <1>7, <1>9, <1>11, <1>12, <1>13, <2>1, <2>2 DEF ResultSound
  <2>3. CASE q # i
    <3>1. PassedResult(b, q)
      BY <1>2, <1>3, <1>4, <2>3 DEF PassedResult
    <3>2. /\ chi[b][q] # 0
          /\ nodes[chi[b][q]].lay = lab[b][Len(Ins(b)) + q]
          /\ ~g.ops[b].sgd => nodes[chi[b][q]].of = Outs(b)[q]
      BY <1>1, <3>1 DEF Links, LayoutsSound, ResultSound
    <3>3. chi[b][q] \in Node
      BY <1>1, <3>2 DEF TypeOK, Node
    <3> QED BY <1>3, <1>9, <1>12, <1>13, <2>1, <2>3, <3>2, <3>3 DEF ResultSound
  <2> QED BY <2>2, <2>3
<1>15. TypeOK' /\ Links'
  <2>1. Node \subseteq Node' /\ Len(nodes) <= Len(nodes') /\ i <= Len(Outs(b))
    BY <1>3, <1>9, <1>11
  <2> QED BY <1>2, <1>3, <1>9, <1>10, <1>12, <1>14, <2>1, ResultLinks
<1>16. LabelsOK' /\ AllRecorded'
  BY <1>1, <1>3, <1>4, <1>6, <1>7, <1>8, NewLayout DEF Labels
<1>17. SourcesSound' /\ TransformsImplemented'
  BY <1>1, <1>3, <1>6, <1>7, MoreNodes DEF Labels
<1>18. Unjoined'
  <2>1. Ops' = Ops /\ \A a : Outs(a)' = Outs(a)
    BY <1>3 DEF Ops, Outs
  <2> SUFFICES ASSUME NEW a \in Ops, NEW q \in 1 .. Len(Outs(a)),
                      a > k \/ (a = k /\ q >= i + 1)
               PROVE  ~tl'[Outs(a)[q]].applied
    BY <1>3, <2>1 DEF Unjoined
  <2>2. a \in Nat /\ q \in Nat /\ Outs(a)[q] \in Tensor
    BY <1>1, ElementOfSeq DEF GraphOK, Ops
  <2>3. Outs(a)[q] # t
    <3>1. b \in 1 .. a
      BY <1>2, <1>4, <2>2 DEF Ops
    <3>2. Outs(b)[i] = Outs(a)[q] => b = a /\ i = q
      BY <1>1, <1>3, <3>1 DEF GraphOK, TopoOrdered, Ops, Outs
    <3> QED BY <1>2, <1>3, <2>2, <3>2
  <2>4. ~tl[Outs(a)[q]].applied
    BY <1>1, <1>2, <1>3, <2>2 DEF Labels, Unjoined
  <2> QED BY <1>10, <2>2, <2>3, <2>4
<1>19. Ascending'
  BY <1>3 DEF Ascending
<1> QED BY <1>15, <1>16, <1>17, <1>18, <1>19 DEF IInv, Labels

-----------------------------------------------------------------------------
(***************************************************************************)
(* The inductive invariant, and what follows from it.                      *)
(***************************************************************************)
LEMMA StepIInv == IInv /\ [Next]_vars => IInv'
<1> SUFFICES ASSUME IInv, [Next]_vars PROVE IInv'
  OBVIOUS
<1>1. CASE ForkWeight
  BY <1>1, ForkWeightStep
<1>2. CASE TransformWeight
  BY <1>2, TransformWeightStep
<1>3. CASE WeightsDone \/ SkipOp \/ StartOp \/ SgdAssertFails \/ NullTilingLabel
             \/ InputsDone \/ OutputsDone \/ Finish
  BY <1>3, CursorStep
<1>4. CASE LabelSgd
  BY <1>4, LabelSgdStep
<1>5. CASE ForkOperand
  BY <1>5, ForkOperandStep
<1>6. CASE ReuseOperand
  BY <1>6, ReuseStep
<1>7. CASE TransformOperand
  BY <1>7, TransformOperandStep
<1>8. CASE SgdResult
  BY <1>8, SgdResultStep
<1>9. CASE JoinResult
  BY <1>9, JoinResultStep
<1>10. CASE UNCHANGED vars
  <2>1. /\ g' = g /\ pc' = pc /\ k' = k /\ i' = i /\ lab' = lab /\ par' = par /\ chi' = chi
        /\ tl' = tl /\ nodes' = nodes /\ cut' = cut
    BY <1>10 DEF vars
  <2>2. TypeOK /\ Labels /\ Links
    BY DEF IInv
  <2>3. TypeOK'
    BY <2>1, <2>2, SameTypes DEF TypeOK
  <2>4. /\ Ops' = Ops /\ Tensor' = Tensor /\ Node' = Node
        /\ \A a : Ins(a)' = Ins(a) /\ Outs(a)' = Outs(a)
    BY <2>1 DEF Ops, Tensor, Node, Ins, Outs
  <2>5. LabelsOK'
    BY <2>1, <2>2, <2>4 DEF Labels, LabelsOK, LabelOK, NodeIs
  <2>6. AllRecorded' /\ Unjoined' /\ SourcesSound' /\ TransformsImplemented'
    BY <2>1, <2>2, <2>4
       DEF Labels, AllRecorded, Unjoined, SourcesSound, TransformsImplemented
  <2>7. Ascending'
    BY <2>1, <2>2, <2>4 DEF Labels, Ascending, History, Plans
  <2>8. (\A a \in Ops : StrategyOK(a))' /\ Phase' /\ Untouched'
    BY <2>1, <2>2, <2>4 DEF Links, StrategyOK, Phase, Untouched
  <2>9. ASSUME NEW a \in Ops
        PROVE  /\ \A p \in 1 .. Len(Ins(a)) : OperandSound(a, p)'
               /\ \A q \in 1 .. Len(Outs(a)) : ResultSound(a, q)'
    <3>1. /\ \A p : PassedOperand(a, p)' => PassedOperand(a, p)
          /\ \A q : PassedResult(a, q)' => PassedResult(a, q)
      BY <2>1 DEF PassedOperand, PassedResult
    <3> QED BY <2>1, <2>2, <3>1, OtherOp DEF Links
  <2> QED BY <2>3, <2>4, <2>5, <2>6, <2>7, <2>8, <2>9 DEF IInv, Labels, Links, LayoutsSound
<1> QED BY <1>1, <1>2, <1>3, <1>4, <1>5, <1>6, <1>7, <1>8, <1>9, <1>10 DEF Next

(* The inductive invariant holds in every behaviour of the pass. *)
THEOREM Invariance == Spec => []IInv
<1> QED BY InitIInv, StepIInv, PTL DEF Spec

(* The state of the pass has its type, whatever the graphs. *)
THEOREM TypeCorrect == Spec => []TypeOK
<1>1. IInv => TypeOK
  BY DEF IInv
<1> QED BY <1>1, Invariance, PTL

(* Every operand and result the loops have passed has the layout asked for. *)
THEOREM LayoutsCorrect == Spec => []LayoutsSound
<1>1. IInv => LayoutsSound
  BY DEF IInv, Links
<1> QED BY <1>1, Invariance, PTL

(* Every Transform converts an earlier node of the tensor in the layout it  *)
(* names.                                                                   *)
THEOREM SourcesCorrect == Spec => []SourcesSound
<1>1. IInv => SourcesSound
  BY DEF IInv, Labels
<1> QED BY <1>1, Invariance, PTL

(* The code generator has every Transform that the lowering makes. *)
THEOREM TransformsCorrect == Spec => []TransformsImplemented
<1>1. IInv => TransformsImplemented
  BY DEF IInv, Labels
<1> QED BY <1>1, Invariance, PTL

(* COMM_SAVING never makes a layout of a tensor twice. *)
THEOREM LayoutsShared == Spec => []SharedLayouts
<1>1. IInv => SharedLayouts
  <2> SUFFICES ASSUME IInv, g.comm, NEW m \in Node, NEW n \in Node,
                      nodes[m].of = nodes[n].of, nodes[m].lay = nodes[n].lay,
                      nodes[m].kind # "Tile", nodes[n].kind # "Tile"
               PROVE  m = n
    BY DEF SharedLayouts
  <2> QED BY DEF IInv, Labels, AllRecorded
<1> QED BY <1>1, Invariance, PTL

(* The assertion on the results of an op, and the branches that "should not *)
(* occur", are never reached with a parallel result.                        *)
THEOREM ResultsFresh == Spec => []OutputsFresh
<1>1. IInv => OutputsFresh
  <2> SUFFICES ASSUME IInv, pc = "outputs", NEW q \in i .. Len(Outs(k)), q \in 1 .. Len(Outs(k))
               PROVE  ~Seen(Outs(k)[q])
    BY DEF OutputsFresh, IInv, TypeOK
  <2>1. k \in Ops /\ Outs(k)[q] \in Tensor
    BY GraphIsOK, ElementOfSeq DEF IInv, TypeOK, Links, Phase, GraphOK
  <2>2. ~tl[Outs(k)[q]].applied
    BY <2>1 DEF IInv, Labels, Unjoined
  <2> QED BY <2>1, <2>2 DEF IInv, Labels, LabelsOK, LabelOK, Seen, History
<1> QED BY <1>1, Invariance, PTL

-----------------------------------------------------------------------------
(***************************************************************************)
(* What the update of a weight rests on.  Ops that are not an optimizer's  *)
(* keep the label they came with, and an op without a label its links.     *)
(***************************************************************************)
Unlabelled ==
  \A a \in Ops :
    /\ ~Optimizer(a) \/ pc = "weights" => lab[a] = g.ops[a].stgy
    /\ Optimizer(a) /\ a < k => lab[a] # <<>>
    /\ lab[a] = <<>> => \A p \in 1 .. Len(Ins(a)) : par[a][p] = 0

(* No layout of a weight is a result, and none is less than a scattered one. *)
WeightNodes ==
  \A n \in Node : nodes[n].of \in g.training =>
    /\ nodes[n].kind \in {"Scatter", "Transform"}
    /\ g.comm /\ nodes[n].kind = "Scatter" =>
         \A s \in History(nodes[n].of) : nodes[n].lay <= s

(* The layouts of the weights are complete before any op is lowered. *)
Planned ==
  g.comm /\ pc # "weights" => \A t \in g.training : Plans(t) \subseteq History(t)

(* An optimizer works on the least layout of its weight. *)
Least ==
  \A a \in Ops : Optimizer(a) /\ lab[a] # <<>> =>
    lab[a][1] \in History(Ins(a)[1]) /\ \A s \in History(Ins(a)[1]) : lab[a][1] <= s

(* When all ops are lowered, what was unlinked is what elimRedundantScatter finds. *)
Finished ==
  pc = "done" =>
    k \notin Ops /\ cut = IF g.benchmark THEN elimRedundantScatter ELSE {}

Weights == Unlabelled /\ WeightNodes /\ Planned /\ Least /\ Finished

-----------------------------------------------------------------------------
(* What begins at 0 and goes from each number to the next holds up to N. *)
LEMMA Upwards ==
  ASSUME NEW N \in Nat, NEW T, 0 \in T, \A n \in 1 .. N : n - 1 \in T => n \in T
  PROVE  \A n \in 0 .. N : n \in T
<1> DEFINE U == {n \in 0 .. N : n \notin T}
<1>1. ASSUME U # {} PROVE FALSE
  <2>1. U \subseteq Nat
    OBVIOUS
  <2>2. PICK x \in U : \A y \in U : x <= y
    <3> HIDE DEF U
    <3> QED BY <1>1, <2>1, LeastNatural
  <2>3. x # 0 /\ x - 1 \in 0 .. N /\ x \in 1 .. N
    BY <2>2
  <2>4. x - 1 \in T
    BY <2>2, <2>3
  <2> QED BY <2>2, <2>3, <2>4
<1> QED BY <1>1

(***************************************************************************)
(* Where the contents of a node come from is a recursive function: it has  *)
(* values because a Transform converts an earlier node.                    *)
(***************************************************************************)
Filled(f, m) ==
  IF m = 0 \/ m \in cut THEN m
  ELSE IF nodes[m].kind = "Transform" THEN f[nodes[m].src]
  ELSE IF nodes[m].kind = "Scatter" THEN 0 ELSE m

LEMMA FillsOf ==
  ASSUME TypeOK, SourcesSound, NEW n \in 0 .. Len(nodes)
  PROVE  /\ n = 0 \/ n \in cut => Fills(n) = n
         /\ n # 0 /\ n \notin cut /\ nodes[n].kind = "Transform" =>
              Fills(n) = Fills(nodes[n].src)
         /\ n # 0 /\ n \notin cut /\ nodes[n].kind = "Scatter" => Fills(n) = 0
<1> DEFINE N == Len(nodes)
           Is(f) == f = [m \in 0 .. N |-> Filled(f, m)]
           F == CHOOSE f : Is(f)
<1>1. N \in Nat /\ Node = 1 .. N
  BY DEF TypeOK, Node
<1>2. ASSUME NEW m \in 1 .. N, nodes[m].kind = "Transform"
      PROVE  nodes[m].src \in 1 .. m - 1
  BY <1>1, <1>2 DEF SourcesSound
<1>3. \A m \in 0 .. N : Fills(m) = F[m]
  BY DEF Fills, Filled
<1> HIDE DEF N
<1>4. \E f : Is(f)
  <2> DEFINE Upto(j, f) == f = [m \in 0 .. j |-> f[m]] /\ \A m \in 0 .. j : f[m] = Filled(f, m)
             T == {j \in 0 .. N : \E f : Upto(j, f)}
  <2>1. 0 \in T
    <3>1. Upto(0, [m \in 0 .. 0 |-> 0])
      BY DEF Filled
    <3> HIDE DEF Upto
    <3> QED BY <1>1, <3>1
  <2>2. ASSUME NEW j \in 1 .. N, j - 1 \in T PROVE j \in T
    <3>1. PICK f : Upto(j - 1, f)
      BY <2>2
    <3> DEFINE h == [m \in 0 .. j |-> IF m = j THEN Filled(f, j) ELSE f[m]]
    <3>2. h = [m \in 0 .. j |-> h[m]]
      OBVIOUS
    <3>3. h[j] = Filled(f, j) /\ \A m \in 0 .. j - 1 : h[m] = f[m] /\ f[m] = Filled(f, m)
      BY <1>1, <3>1
    <3> HIDE DEF h
    <3>4. ASSUME NEW m \in 0 .. j PROVE Filled(h, m) = Filled(f, m)
      <4>1. CASE m # 0 /\ nodes[m].kind = "Transform"
        <5>1. nodes[m].src \in 1 .. m - 1
          BY <1>1, <1>2, <4>1
        <5>2. nodes[m].src \in 0 .. j - 1
          BY <1>1, <5>1
        <5>3. h[nodes[m].src] = f[nodes[m].src]
          BY <3>3, <5>2
        <5> QED BY <5>3 DEF Filled
      <4>2. CASE m = 0 \/ nodes[m].kind # "Transform"
        BY <4>2 DEF Filled
      <4> QED BY <4>1, <4>2
    <3>5. \A m \in 0 .. j : h[m] = Filled(h, m)
      <4> TAKE m \in 0 .. j
      <4>1. CASE m = j
        BY <3>3, <3>4, <4>1
      <4>2. CASE m # j
        <5>1. m \in 0 .. j - 1
          BY <1>1, <4>2
        <5> QED BY <3>3, <3>4, <5>1
      <4> QED BY <4>1, <4>2
    <3>6. Upto(j, h)
      BY <3>2, <3>5
    <3> HIDE DEF Upto
    <3> QED BY <3>6
  <2> HIDE DEF T
  <2>3. N \in T
    <3>1. \A m \in 0 .. N : m \in T
      BY <1>1, <2>1, <2>2, Upwards
    <3> QED BY <1>1, <3>1
  <2>4. PICK f : Upto(N, f)
    BY <2>3 DEF T
  <2>5. [m \in 0 .. N |-> f[m]] = [m \in 0 .. N |-> Filled(f, m)]
    BY <2>4
  <2>6. Is(f)
    BY <2>4, <2>5
  <2> HIDE DEF Is
  <2> QED BY <2>6
<1>5. Is(F)
  <2> HIDE DEF Is
  <2> QED BY <1>4
<1>6. \A m \in 0 .. N : F[m] = Filled(F, m)
  <2> HIDE DEF F
  <2> QED BY <1>5
<1> HIDE DEF F, Is
<1>7. n \in 0 .. N
  BY DEF N
<1>8. F[n] = Filled(F, n) /\ Fills(n) = F[n]
  BY <1>3, <1>6, <1>7
<1>9. n # 0 /\ nodes[n].kind = "Transform" => Fills(nodes[n].src) = F[nodes[n].src]
  <2> HAVE n # 0 /\ nodes[n].kind = "Transform"
  <2>1. nodes[n].src \in 1 .. n - 1
    BY <1>1, <1>2, <1>7
  <2>2. nodes[n].src \in 0 .. N
    BY <1>1, <1>7, <2>1
  <2> QED BY <1>3, <2>2
<1> QED BY <1>8, <1>9 DEF Filled

(***************************************************************************)
(* When the pass is done.  A weight whose SGD op is serial has no node cut *)
(* off, so that all are filled from the original; if its optimizer is      *)
(* decentralized and nothing reads the original, the one Scatter of it is  *)
(* cut off and all nodes are filled from the part the optimizer updates.   *)
(***************************************************************************)
NodesOf(t) == {n \in Node : nodes[n].of = t}

(* An operand is linked to the original or to a node of its tensor. *)
LEMMA LinkedTo ==
  ASSUME IInv, Weights, pc = "done", NEW b \in Ops, NEW p \in 1 .. Len(Ins(b))
  PROVE  par[b][p] = 0 \/ par[b][p] \in NodesOf(Ins(b)[p])
<1>1. b < k
  BY DEF Weights, Finished, Ops, IInv, TypeOK
<1>2. par[b][p] \in 0 .. Len(nodes) /\ Len(nodes) \in Nat
  BY DEF IInv, TypeOK
<1>3. CASE lab[b] = <<>>
  BY <1>3 DEF Weights, Unlabelled
<1>4. CASE lab[b] # <<>>
  <2>1. par[b][p] # 0 /\ nodes[par[b][p]].of = Ins(b)[p]
    BY <1>1, <1>4 DEF IInv, Links, LayoutsSound, OperandSound, PassedOperand
  <2> QED BY <1>2, <2>1 DEF NodesOf, Node
<1> QED BY <1>3, <1>4

(* A node of a weight is a Scatter of it or a Transform of an earlier node. *)
LEMMA WeightChain ==
  ASSUME IInv, Weights, NEW t \in g.training, NEW n \in NodesOf(t)
  PROVE  /\ n \in 1 .. Len(nodes) /\ Len(nodes) \in Nat
         /\ nodes[n].kind = "Scatter" \/ nodes[n].kind = "Transform"
         /\ nodes[n].kind = "Transform" =>
              nodes[n].src \in 1 .. n - 1 /\ nodes[n].src \in NodesOf(t)
<1>1. n \in 1 .. Len(nodes) /\ Len(nodes) \in Nat /\ n \in Node /\ nodes[n].of = t
  BY DEF NodesOf, Node, IInv, TypeOK
<1>2. nodes[n].kind = "Scatter" \/ nodes[n].kind = "Transform"
  BY <1>1 DEF Weights, WeightNodes
<1>3. ASSUME nodes[n].kind = "Transform"
      PROVE  nodes[n].src \in 1 .. n - 1 /\ nodes[nodes[n].src].of = t
  BY <1>1, <1>3 DEF IInv, Labels, SourcesSound
<1> QED BY <1>1, <1>2, <1>3 DEF NodesOf, Node

(* All nodes of a weight are filled alike if its Scatters are. *)
LEMMA FilledAlike ==
  ASSUME IInv, Weights, NEW t \in g.training, NEW v,
         \A n \in NodesOf(t) : nodes[n].kind = "Scatter" => Fills(n) = v,
         \A n \in NodesOf(t) : nodes[n].kind = "Transform" => n \notin cut
  PROVE  \A n \in NodesOf(t) : Fills(n) = v
<1> DEFINE U == {n \in NodesOf(t) : Fills(n) # v}
<1>1. ASSUME U # {} PROVE FALSE
  <2>1. U \subseteq Nat
    BY DEF NodesOf, Node
  <2> HIDE DEF U
  <2>2. PICK n \in U : \A m \in U : n <= m
    BY <1>1, <2>1, LeastNatural
  <2> USE DEF U
  <2>3. n \in NodesOf(t) /\ Fills(n) # v
    BY <2>2
  <2>4. nodes[n].kind = "Transform"
    BY <2>3, WeightChain
  <2>5. nodes[n].src \in 1 .. n - 1 /\ nodes[n].src \in NodesOf(t)
    BY <2>3, <2>4, WeightChain
  <2>6. n \in 1 .. Len(nodes) /\ Len(nodes) \in Nat
    BY <2>3, WeightChain
  <2>7. Fills(n) = Fills(nodes[n].src)
    <3>1. n \in 0 .. Len(nodes) /\ n # 0 /\ n \notin cut
      BY <2>3, <2>4, <2>6
    <3> QED BY <2>4, <3>1, FillsOf DEF IInv, Labels
  <2>8. nodes[n].src \in U
    BY <2>3, <2>5, <2>7
  <2>9. n <= nodes[n].src
    BY <2>2, <2>8
  <2> QED BY <2>5, <2>6, <2>9
<1> QED BY <1>1

(* A decentralized optimizer works on the only Scatter of its weight. *)
LEMMA OnlyScatter ==
  ASSUME IInv, Weights, NEW a \in Ops, Optimizer(a), lab[a] # <<>>,
         par[a][1] \in NodesOf(Ins(a)[1]), nodes[par[a][1]].lay = lab[a][1],
         Ins(a)[1] \in g.training
  PROVE  \A n \in NodesOf(Ins(a)[1]) : nodes[n].kind = "Scatter" <=> n = par[a][1]
<1> DEFINE t == Ins(a)[1]
           u == par[a][1]
<1>1. g.comm /\ GraphOK /\ t \in Tensor
  BY GraphIsOK DEF Optimizer, IInv, TypeOK, GraphOK
<1>2. ASSUME NEW n \in NodesOf(t)
      PROVE  /\ nodes[n].lay \in Strategy /\ tl[t].hist[nodes[n].lay] = n
             /\ nodes[n].lay \in History(t) /\ n # 0
  <2>1. n \in Node /\ nodes[n].of = t /\ n # 0
    BY DEF NodesOf, Node
  <2>2. nodes[n].kind # "Tile"
    BY WeightChain
  <2>3. nodes[n].lay \in Strategy
    <3>1. nodes[n] \in NodeRecord
      BY <2>1, ElementOfSeq DEF IInv, TypeOK, Node
    <3> QED BY <3>1 DEF NodeRecord
  <2>4. tl[t].hist[nodes[n].lay] = n
    BY <1>1, <2>1, <2>2 DEF IInv, Labels, AllRecorded
  <2> QED BY <2>1, <2>3, <2>4 DEF History
<1>3. ASSUME NEW n \in NodesOf(t), nodes[n].kind = "Scatter" PROVE n = u
  <2>1. n \in Node /\ nodes[n].of = t
    BY DEF NodesOf
  <2>2. \A s \in History(t) : nodes[n].lay <= s /\ lab[a][1] <= s
    BY <1>1, <1>3, <2>1 DEF Weights, WeightNodes, Least
  <2>3. nodes[n].lay <= lab[a][1] /\ lab[a][1] <= nodes[n].lay
    BY <1>2, <2>2
  <2>4. nodes[n].lay \in Strategy /\ lab[a][1] \in Strategy
    BY <1>2
  <2>5. nodes[n].lay = lab[a][1]
    BY <2>3, <2>4, AxisAssumption DEF Strategy
  <2> QED BY <1>2, <2>5
<1>4. nodes[u].kind = "Scatter"
  <2> DEFINE U == NodesOf(t)
  <2>1. U \subseteq Nat /\ U # {}
    BY DEF NodesOf, Node
  <2>2. PICK n \in U : \A m \in U : n <= m
    <3> HIDE DEF U
    <3> QED BY <2>1, LeastNatural
  <2>3. nodes[n].kind = "Scatter"
    <3>1. ASSUME nodes[n].kind = "Transform" PROVE FALSE
      <4>1. nodes[n].src \in 1 .. n - 1 /\ nodes[n].src \in U /\ n \in Nat
        BY <2>2, <3>1, WeightChain
      <4>2. n <= nodes[n].src
        BY <2>2, <4>1
      <4> QED BY <4>1, <4>2
    <3> QED BY <2>2, <3>1, WeightChain
  <2> QED BY <1>3, <2>2, <2>3
<1> QED BY <1>3, <1>4

(* In the end the readers of a weight read what its SGD op left. *)
LEMMA UpdateFollows == ASSUME IInv, Weights PROVE UpdateReachesReaders
<1> SUFFICES ASSUME pc = "done", NEW a \in Ops, g.ops[a].sgd,
                    Optimizer(a) => g.benchmark /\ SerialReads(Ins(a)[1]) = {},
                    NEW b \in Ops, NEW p \in 1 .. Len(Ins(b)), Ins(b)[p] = Ins(a)[1]
             PROVE  Fills(par[b][p]) = Updates(a)
  BY DEF UpdateReachesReaders, SeesUpdate
<1> DEFINE t == Ins(a)[1]
<1>1. /\ GraphOK /\ t \in g.training /\ 1 \in 1 .. Len(Ins(a)) /\ g.ops[a].stgy = <<>>
  <2>1. GraphOK
    BY GraphIsOK DEF IInv, TypeOK
  <2>2. Len(Ins(a)) = 3 /\ t \in g.training /\ g.ops[a].stgy = <<>>
    BY <2>1 DEF GraphOK, IsOp, Ins
  <2> HIDE DEF t
  <2>3. 1 \in 1 .. Len(Ins(a))
    BY <2>2
  <2> QED BY <2>1, <2>2, <2>3
<1>2. ~Produced(t)
  BY <1>1 DEF Produced, GraphOK, TopoOrdered, Ops, Outs
<1>3. par[b][p] = 0 \/ par[b][p] \in NodesOf(t)
  BY LinkedTo
<1>4. Fills(0) = 0
  <2>1. 0 \in 0 .. Len(nodes)
    BY DEF IInv, TypeOK
  <2> QED BY <2>1, FillsOf DEF IInv, Labels
<1>5. cut \subseteq elimRedundantScatter /\ (g.benchmark => cut = elimRedundantScatter)
  BY DEF Weights, Finished
<1>6. ASSUME NEW n \in NodesOf(t)
      PROVE  /\ n \in 0 .. Len(nodes) /\ n # 0 /\ n \in Node /\ nodes[n].of = t
             /\ nodes[n].kind = "Transform" => n \notin cut
  BY <1>5, WeightChain DEF NodesOf, elimRedundantScatter, Node
<1>7. CASE ~Optimizer(a)
  <2>1. lab[a] = <<>> /\ Updates(a) = 0 /\ par[a][1] = 0
    BY <1>1, <1>7 DEF Weights, Unlabelled, Updates
  <2>2. <<a, 1>> \in SerialReads(t)
    BY <1>1, <2>1 DEF SerialReads
  <2>3. \A n \in NodesOf(t) : n \notin cut
    BY <1>5, <1>6, <2>2 DEF elimRedundantScatter
  <2>4. \A n \in NodesOf(t) : nodes[n].kind = "Scatter" => Fills(n) = 0
    BY <1>6, <2>3, FillsOf DEF IInv, Labels
  <2>5. \A n \in NodesOf(t) : Fills(n) = 0
    BY <1>1, <1>6, <2>4, FilledAlike
  <2> QED BY <1>3, <1>4, <2>1, <2>5
<1>8. CASE Optimizer(a)
  <2> DEFINE u == par[a][1]
  <2>1. SerialReads(t) = {} /\ g.benchmark
    BY <1>8
  <2>2. u # 0 /\ par[b][p] # 0
    <3>1. ASSUME NEW c \in Ops, NEW q \in 1 .. Len(Ins(c)), Ins(c)[q] = t
          PROVE  par[c][q] # 0
      <4>1. <<c, q>> \notin SerialReads(t)
        BY <2>1
      <4> QED BY <3>1, <4>1 DEF SerialReads
    <3> QED BY <1>1, <3>1
  <2>3. lab[a] # <<>> /\ Updates(a) = u
    BY <1>1, <2>2 DEF Weights, Unlabelled, Updates
  <2>4. u \in NodesOf(t) /\ par[b][p] \in NodesOf(t)
    BY <1>1, <1>3, <2>2, LinkedTo
  <2>5. nodes[u].lay = lab[a][1]
    <3>1. a < k
      BY DEF Weights, Finished, Ops, IInv, TypeOK
    <3> QED BY <1>1, <2>3, <3>1
            DEF IInv, Links, LayoutsSound, OperandSound, PassedOperand
  <2>6. \A n \in NodesOf(t) : nodes[n].kind = "Scatter" <=> n = u
    BY <1>1, <1>8, <2>3, <2>4, <2>5, OnlyScatter
  <2>7. Scatters(t) = {u}
    BY <2>4, <2>6 DEF Scatters, NodesOf
  <2>8. u \in cut
    BY <1>2, <1>5, <1>6, <2>1, <2>4, <2>6, <2>7 DEF elimRedundantScatter
  <2>9. Fills(u) = u
    BY <1>6, <2>4, <2>8, FillsOf DEF IInv, Labels
  <2>10. \A n \in NodesOf(t) : Fills(n) = u
    <3>1. \A n \in NodesOf(t) : nodes[n].kind = "Scatter" => Fills(n) = u
      BY <2>6, <2>9
    <3>2. \A n \in NodesOf(t) : nodes[n].kind = "Transform" => n \notin cut
      BY <1>6
    <3> HIDE DEF t, u
    <3> QED BY <1>1, <3>1, <3>2, FilledAlike
  <2> QED BY <2>3, <2>4, <2>10
<1> QED BY <1>7, <1>8

-----------------------------------------------------------------------------
(***************************************************************************)
(* Weights is invariant.                                                   *)
(***************************************************************************)
LEMMA WeightsBegin == Init => Weights
<1> SUFFICES ASSUME Init PROVE Weights
  OBVIOUS
<1>1. GraphOK
  BY GraphIsOK DEF Init
<1>2. /\ Node = {} /\ k = 1 /\ pc # "done" /\ (g.comm => pc = "weights")
      /\ \A a \in Ops : lab[a] = g.ops[a].stgy
      /\ \A a \in Ops : \A p \in 1 .. Len(Ins(a)) : par[a][p] = 0
  BY DEF Init, Node
<1>3. \A a \in Ops : Optimizer(a) => g.ops[a].stgy = <<>>
  BY <1>1 DEF Optimizer, GraphOK, IsOp
<1>4. \A a \in Ops : ~(a < k)
  BY <1>2 DEF Ops
<1>5. Unlabelled
  BY <1>2, <1>4 DEF Unlabelled
<1> QED BY <1>2, <1>3, <1>5 DEF Weights, WeightNodes, Planned, Least, Finished

(* The label of an op that is not an optimizer's is the one it came with;   *)
(* so an operand that is a weight asks for a layout that was made for it.   *)
LEMMA WeightWanted ==
  ASSUME IInv, Weights, AtInput, g.comm, Operand \in g.training
  PROVE  Seen(Operand) /\ Has(Operand, Want)
<1>1. /\ GraphOK /\ k \in Ops /\ i \in 1 .. Len(Ins(k)) /\ pc = "inputs"
      /\ Operand \in Tensor /\ Want \in Strategy
  BY OperandFacts
<1>2. lab[k] # <<>>
  BY <1>1 DEF IInv, Links, Phase
<1>3. Want \in History(Operand)
  <2>1. CASE Optimizer(k)
    <3>1. Len(Ins(k)) = 3 /\ Ins(k)[2] \notin g.training /\ Ins(k)[3] \notin g.training
      BY <1>1, <2>1 DEF GraphOK, IsOp, Ins, Optimizer
    <3>2. i = 1
      <4>1. i = 1 \/ i = 2 \/ i = 3
        BY <1>1, <3>1
      <4> QED BY <3>1, <4>1 DEF Operand
    <3> QED BY <1>1, <1>2, <2>1, <3>2 DEF Weights, Least, Operand, Want
  <2>2. CASE ~Optimizer(k)
    <3>1. lab[k] = g.ops[k].stgy
      BY <1>1, <2>2 DEF Weights, Unlabelled
    <3>2. Want \in Plans(Operand)
      BY <1>1, <1>2, <3>1 DEF Plans, Operand, Want
    <3> QED BY <1>1, <3>2 DEF Weights, Planned
  <2> QED BY <2>1, <2>2
<1> QED BY <1>1, <1>3 DEF Seen, Has, History

(* The labels of the weights, and with them the parts about layouts, stay. *)
LEMMA LayoutsStay ==
  ASSUME IInv, Weights, g' = g, pc' # "weights", pc # "weights",
         g.comm => \A t \in g.training : tl'[t] = tl[t],
         \/ nodes' = nodes
         \/ \E n \in NodeRecord :
              /\ Create(n)
              /\ n.of \in g.training => ~g.comm /\ n.kind \in {"Scatter", "Transform"}
  PROVE  WeightNodes' /\ Planned'
<1>1. g.comm => \A t \in g.training : History(t)' = History(t)
  BY DEF History
<1>2. \A t : Plans(t)' = Plans(t)
  BY DEF Plans, Ops, Ins
<1>3. Planned'
  BY <1>1, <1>2 DEF Weights, Planned
<1>4. CASE nodes' = nodes
  BY <1>1, <1>3, <1>4 DEF Weights, WeightNodes, Node
<1>5. ASSUME NEW n \in NodeRecord, Create(n),
             n.of \in g.training => ~g.comm /\ n.kind \in {"Scatter", "Transform"}
      PROVE  WeightNodes'
  <2>1. /\ Node' = Node \cup {NewNode} /\ nodes'[NewNode] = n
        /\ \A m \in Node : nodes'[m] = nodes[m]
    BY <1>5, AppendNode DEF IInv
  <2>2. ASSUME NEW m \in Node, NEW t \in g.training, nodes[m].of = t
        PROVE  /\ nodes[m].kind \in {"Scatter", "Transform"}
               /\ g.comm /\ nodes[m].kind = "Scatter" =>
                    \A s \in History(t)' : nodes[m].lay <= s
    BY <1>1, <2>2 DEF Weights, WeightNodes
  <2> QED BY <1>5, <2>1, <2>2 DEF WeightNodes
<1> QED BY <1>3, <1>4, <1>5

LEMMA LeastStays ==
  ASSUME IInv, Weights, g' = g, lab' = lab,
         g.comm => \A t \in g.training : tl'[t] = tl[t]
  PROVE  Least'
<1>1. g.comm => \A t \in g.training : History(t)' = History(t)
  BY DEF History
<1>2. GraphOK
  BY GraphIsOK DEF IInv, TypeOK
<1>3. \A a \in Ops : Optimizer(a) => Ins(a)[1] \in g.training /\ g.comm
  BY <1>2 DEF Optimizer, GraphOK, IsOp, Ins
<1>4. Ops' = Ops /\ \A a : Ins(a)' = Ins(a) /\ Optimizer(a)' = Optimizer(a)
  BY DEF Ops, Ins, Optimizer
<1> QED BY <1>1, <1>3, <1>4 DEF Weights, Least

(* The steps that only move the cursor. *)
LEMMA WeightsCursor ==
  ASSUME IInv, Weights,
         WeightsDone \/ SkipOp \/ StartOp \/ SgdAssertFails \/ NullTilingLabel
           \/ InputsDone \/ OutputsDone \/ Finish
  PROVE  Weights'
<1>1. GraphOK
  BY GraphIsOK DEF IInv, TypeOK
<1>2. /\ g' = g /\ lab' = lab /\ par' = par /\ chi' = chi /\ tl' = tl /\ nodes' = nodes
      /\ pc' # "weights" /\ pc # "done"
  BY DEF WeightsDone, SkipOp, StartOp, SgdAssertFails, NullTilingLabel, InputsDone,
         OutputsDone, Finish, AtInput
<1>3. Ops' = Ops /\ \A a : Ins(a)' = Ins(a) /\ Optimizer(a)' = Optimizer(a)
  BY <1>2 DEF Ops, Ins, Optimizer
<1>4. k \in Nat /\ \A a \in Ops : a \in Nat
  BY DEF IInv, TypeOK, Ops
<1>5. Unlabelled'
  <2>1. k' = k \/ (k' = k + 1 /\ (SkipOp \/ OutputsDone))
    BY DEF WeightsDone, SkipOp, StartOp, SgdAssertFails, NullTilingLabel, InputsDone,
           OutputsDone, Finish
  <2>2. k' = k + 1 => ~Optimizer(k) \/ lab[k] # <<>>
    BY <1>4, <2>1 DEF SkipOp, OutputsDone, IInv, Links, Phase
  <2>3. \A a \in Ops : a < k' => a < k \/ (a = k /\ k' = k + 1)
    BY <1>4, <2>1
  <2> QED BY <1>2, <1>3, <2>2, <2>3 DEF Weights, Unlabelled
<1>6. WeightNodes'
  BY <1>2 DEF Weights, WeightNodes, Node, History
<1>7. Planned'
  <2>1. \A t : Plans(t)' = Plans(t) /\ History(t)' = History(t)
    BY <1>2, <1>3 DEF Plans, History
  <2>2. CASE pc = "weights"
    <3>1. \A t \in g.training : Plans(t) \subseteq History(t)
      BY <2>2 DEF WeightsDone, SkipOp, StartOp, SgdAssertFails, NullTilingLabel, InputsDone,
                  OutputsDone, Finish, AtInput
    <3> QED BY <1>2, <2>1, <3>1 DEF Planned
  <2>3. CASE pc # "weights"
    BY <1>2, <2>1, <2>3 DEF Weights, Planned
  <2> QED BY <2>2, <2>3
<1>8. Least'
  BY <1>2, LeastStays
<1>9. Finished'
  <2>1. ~Finish => pc' # "done"
    BY DEF WeightsDone, SkipOp, StartOp, SgdAssertFails, NullTilingLabel, InputsDone,
           OutputsDone
  <2>2. elimRedundantScatter' = elimRedundantScatter
    BY <1>2, <1>3 DEF elimRedundantScatter, Produced, Scatters, SerialReads, Node, Outs
  <2> QED BY <1>2, <1>3, <2>1, <2>2 DEF Finished, Finish
<1> QED BY <1>5, <1>6, <1>7, <1>8, <1>9 DEF Weights

(* The layouts made for the weights before any op is lowered. *)
LEMMA WeightsGrow ==
  ASSUME IInv, Weights, ForkWeight \/ TransformWeight
  PROVE  Weights'
<1>1. PICK t \in g.training, s \in Strategy, n \in NodeRecord :
        /\ NextPlan(t, s) /\ Create(n) /\ Apply(t, s)
        /\ n.of = t /\ n.lay = s /\ n.kind \in {"Scatter", "Transform"}
        /\ n.kind = "Scatter" => History(t) = {}
  <2>1. CASE ForkWeight
    <3>1. PICK t \in g.training, s \in Strategy :
            NextPlan(t, s) /\ ~Seen(t) /\ ForkPattern(t, s)
      BY <2>1 DEF ForkWeight
    <3> DEFINE n == [kind |-> "Scatter", of |-> t, pre |-> s, lay |-> s, src |-> 0]
    <3>2. g.comm /\ t \in Tensor
      BY <2>1, <3>1, PlanFacts DEF ForkWeight
    <3>3. n \in NodeRecord
      BY <3>2 DEF NodeRecord
    <3>4. Create(n) /\ Apply(t, s)
      BY <3>1 DEF ForkPattern
    <3>5. n.of = t /\ n.lay = s /\ n.kind = "Scatter"
      OBVIOUS
    <3> HIDE DEF n
    <3> QED BY <3>1, <3>2, <3>3, <3>4, <3>5 DEF Seen
  <2>2. CASE TransformWeight
    <3>1. PICK t \in g.training, s \in Strategy :
            NextPlan(t, s) /\ Seen(t) /\ TransformPattern(t, selectTransPreStrategy(t), s)
      BY <2>2 DEF TransformWeight
    <3> DEFINE pre == Pre(t)
               from == IF tl[t].hist[pre] = 0 THEN tl[t].node ELSE tl[t].hist[pre]
               n == [kind |-> "Transform", of |-> t, pre |-> pre, lay |-> s, src |-> from]
    <3>2. g.comm /\ t \in Tensor /\ pre = selectTransPreStrategy(t)
      BY <2>2, <3>1, PlanFacts DEF TransformWeight, Pre
    <3>3. pre \in Strategy /\ from \in Nat
      <4>1. NodeIs(from, t, pre) /\ pre \in Strategy
        BY <3>1, <3>2, KnownSource, KnownLayout DEF IInv, Labels
      <4> QED BY <4>1 DEF NodeIs, Node, IInv, TypeOK
    <3>4. Create(n) /\ Apply(t, s)
      BY <3>1, <3>2 DEF TransformPattern
    <3> HIDE DEF from, pre
    <3>5. n \in NodeRecord
      BY <3>2, <3>3 DEF NodeRecord
    <3>6. n.of = t /\ n.lay = s /\ n.kind = "Transform"
      OBVIOUS
    <3> HIDE DEF n
    <3> QED BY <3>1, <3>4, <3>5, <3>6
  <2> QED BY <2>1, <2>2
<1>2. /\ g' = g /\ pc = "weights" /\ pc' = pc /\ k' = k /\ lab' = lab /\ par' = par
  BY DEF ForkWeight, TransformWeight
<1>3. GraphOK /\ g.comm /\ t \in Tensor
  BY <1>1, <1>2, PlanFacts
<1>4. Ops' = Ops /\ \A a : Ins(a)' = Ins(a) /\ Optimizer(a)' = Optimizer(a)
  BY <1>2 DEF Ops, Ins, Optimizer
<1>5. Unlabelled'
  BY <1>2, <1>4 DEF Weights, Unlabelled
<1>6. WeightNodes'
  <2>1. /\ Node' = Node \cup {NewNode} /\ nodes'[NewNode] = n
        /\ \A m \in Node : nodes'[m] = nodes[m]
    BY <1>1, <1>2, AppendNode DEF IInv
  <2>2. /\ \A u \in Tensor \ {t} : tl'[u] = tl[u]
        /\ \A r \in Strategy \ {s} : tl'[t].hist[r] = tl[t].hist[r]
    BY <1>1, <1>2, <1>3, ApplyLabel DEF IInv
  <2>3. History(t)' \subseteq History(t) \cup {s}
    BY <2>2 DEF History
  <2>4. \A u \in g.training \ {t} : History(u)' = History(u)
    BY <1>3, <2>2 DEF History, GraphOK
  <2>5. ASSUME NEW m \in Node, NEW u \in g.training, nodes[m].of = u
        PROVE  /\ nodes[m].kind \in {"Scatter", "Transform"}
               /\ nodes[m].kind = "Scatter" => \A r \in History(u)' : nodes[m].lay <= r
    <3>1. /\ nodes[m].kind \in {"Scatter", "Transform"}
          /\ nodes[m].kind = "Scatter" => \A r \in History(u) : nodes[m].lay <= r
      BY <1>3, <2>5 DEF Weights, WeightNodes
    <3>2. CASE u # t
      BY <2>4, <3>1, <3>2
    <3>3. CASE u = t
      <4>1. nodes[m].lay \in History(t)
        <5>1. nodes[m] \in NodeRecord
          BY ElementOfSeq DEF IInv, TypeOK, Node
        <5>2. tl[t].hist[nodes[m].lay] = m /\ m # 0
          BY <1>3, <2>5, <3>1, <3>3 DEF IInv, Labels, AllRecorded, Node
        <5> QED BY <5>1, <5>2 DEF History, NodeRecord
      <4>2. nodes[m].lay < s
        BY <1>1, <1>2, <4>1 DEF IInv, Labels, Ascending, NextPlan
      <4>3. nodes[m].lay \in Int /\ s \in Int
        BY <4>1, AxisAssumption DEF History, Strategy
      <4> QED BY <2>3, <3>1, <3>3, <4>2, <4>3
    <3> QED BY <3>2, <3>3
  <2>6. n.kind = "Scatter" => \A r \in History(t)' : n.lay <= r
    BY <1>1, <2>3, AxisAssumption DEF Strategy
  <2> QED BY <1>1, <1>2, <2>1, <2>5, <2>6 DEF WeightNodes
<1>7. Planned' /\ Finished'
  BY <1>2 DEF Planned, Finished
<1>8. Least'
  <2>1. \A a \in Ops : Optimizer(a) => lab[a] = <<>>
    BY <1>2, <1>3 DEF Weights, Unlabelled, Optimizer, GraphOK, IsOp
  <2> QED BY <1>2, <1>4, <2>1 DEF Least
<1> QED BY <1>5, <1>6, <1>7, <1>8 DEF Weights

(* An optimizer is given its label. *)
LEMMA WeightsLabelled == ASSUME IInv, Weights, LabelSgd PROVE Weights'
<1> DEFINE w == selectTransPreStrategy(Ins(k)[1])
<1>1. /\ g' = g /\ k' = k /\ par' = par /\ chi' = chi /\ tl' = tl /\ nodes' = nodes
      /\ pc = "label" /\ pc' = "inputs" /\ k \in Ops /\ lab[k] = <<>> /\ Optimizer(k)
      /\ lab' = [lab EXCEPT ![k] = <<w, w, w, w>>]
  BY DEF LabelSgd
<1>2. GraphOK
  BY GraphIsOK DEF IInv, TypeOK
<1>3. Ops' = Ops /\ \A a : Ins(a)' = Ins(a) /\ Optimizer(a)' = Optimizer(a)
  BY <1>1 DEF Ops, Ins, Optimizer
<1>4. Ins(k)[1] \in g.training /\ Ins(k)[1] \in Tensor /\ g.comm
  BY <1>1, <1>2 DEF Optimizer, GraphOK, IsOp, Ins
<1>5. w \in History(Ins(k)[1]) /\ \A s \in History(Ins(k)[1]) : w <= s
  <2> DEFINE t == Ins(k)[1]
  <2>1. Seen(t)
    BY <1>4 DEF LabelSgd, SgdAssertions, Seen
  <2>2. tl[t].cur \in History(t)
    <3>1. tl[t].applied /\ tl[t].cur \in Strategy
      BY <1>4, <2>1, KnownLayout DEF IInv, Labels, TypeOK, Label
    <3> QED BY <1>4, <3>1 DEF IInv, Labels, LabelsOK, LabelOK, History
  <2>3. {tl[t].cur} \cup History(t) = History(t) /\ History(t) \subseteq Strategy
    BY <2>2 DEF History
  <2> QED BY <2>2, <2>3, MinOfStrategies DEF selectTransPreStrategy
<1> HIDE DEF w
<1>6. lab'[k] = <<w, w, w, w>> /\ \A a \in Ops \ {k} : lab'[a] = lab[a]
  BY <1>1 DEF IInv, TypeOK
<1>7. lab'[k] # <<>> /\ lab'[k][1] = w
  BY <1>6
<1>8. Unlabelled'
  BY <1>1, <1>3, <1>6, <1>7 DEF Weights, Unlabelled
<1>9. WeightNodes' /\ Planned'
  BY <1>1, LayoutsStay
<1>10. Least'
  <2>1. \A t : History(t)' = History(t)
    BY <1>1 DEF History
  <2> QED BY <1>1, <1>3, <1>5, <1>6, <1>7, <2>1 DEF Weights, Least
<1>11. Finished'
  BY <1>1 DEF Finished
<1> QED BY <1>8, <1>9, <1>10, <1>11 DEF Weights

(* An operand is linked to a layout that is known, or to a new one. *)
LEMMA WeightsLinked ==
  ASSUME IInv, Weights, ForkOperand \/ ReuseOperand \/ TransformOperand
  PROVE  Weights'
<1>1. /\ AtInput /\ g' = g /\ k' = k /\ lab' = lab /\ pc' = pc
      /\ \E n : par' = [par EXCEPT ![k] = n]
  BY DEF ForkOperand, ReuseOperand, TransformOperand, Link
<1>2. /\ GraphOK /\ k \in Ops /\ pc = "inputs" /\ Operand \in Tensor /\ Want \in Strategy
  BY <1>1, OperandFacts
<1>3. Ops' = Ops /\ \A a : Ins(a)' = Ins(a) /\ Optimizer(a)' = Optimizer(a)
  BY <1>1 DEF Ops, Ins, Optimizer
<1>4. Unlabelled'
  <2>1. \A a \in Ops \ {k} : par'[a] = par[a]
    BY <1>1 DEF IInv, TypeOK
  <2>2. lab[k] # <<>>
    BY <1>2 DEF IInv, Links, Phase
  <2> QED BY <1>1, <1>3, <2>1, <2>2 DEF Weights, Unlabelled
<1>5. (g.comm /\ Operand \in g.training) => tl' = tl /\ nodes' = nodes
  BY <1>1, WeightWanted DEF ForkOperand, ReuseOperand, TransformOperand
<1>6. g.comm => \A t \in g.training : tl'[t] = tl[t]
  <2>1. CASE tl' = tl
    BY <2>1
  <2>2. CASE Apply(Operand, Want)
    BY <1>1, <1>2, <1>5, <2>2, ApplyLabel DEF IInv, GraphOK
  <2> QED BY <2>1, <2>2 DEF ForkOperand, ReuseOperand, TransformOperand, ForkPattern,
                           TransformPattern
<1>7. \/ nodes' = nodes
      \/ \E n \in NodeRecord :
           /\ Create(n)
           /\ n.of \in g.training => ~g.comm /\ n.kind \in {"Scatter", "Transform"}
  <2>1. CASE ReuseOperand
    BY <2>1 DEF ReuseOperand
  <2>2. CASE ForkOperand
    <3> DEFINE n == [kind |-> "Scatter", of |-> Operand, pre |-> Want, lay |-> Want,
                     src |-> 0]
    <3>1. n \in NodeRecord /\ n.of = Operand /\ n.kind = "Scatter"
      BY <1>2 DEF NodeRecord
    <3>2. Create(n)
      BY <2>2 DEF ForkOperand, ForkPattern
    <3>3. Operand \in g.training => ~g.comm
      BY <1>1, <2>2, WeightWanted DEF ForkOperand
    <3> HIDE DEF n
    <3> QED BY <3>1, <3>2, <3>3
  <2>3. CASE TransformOperand
    <3> DEFINE pre == Pre(Operand)
               from == IF tl[Operand].hist[pre] = 0 THEN tl[Operand].node
                       ELSE tl[Operand].hist[pre]
               n == [kind |-> "Transform", of |-> Operand, pre |-> pre, lay |-> Want,
                     src |-> from]
    <3>1. pre \in Strategy /\ from \in Nat
      <4>1. NodeIs(from, Operand, pre) /\ pre \in Strategy
        BY <1>2, <2>3, KnownSource, KnownLayout DEF IInv, Labels, TransformOperand
      <4> QED BY <4>1 DEF NodeIs, Node, IInv, TypeOK
    <3>2. Create(n)
      BY <2>3 DEF TransformOperand, TransformPattern
    <3> HIDE DEF from, pre
    <3>3. n \in NodeRecord /\ n.of = Operand /\ n.kind = "Transform"
      BY <1>2, <3>1 DEF NodeRecord
    <3>4. Operand \in g.training => ~g.comm
      BY <1>1, <2>3, WeightWanted DEF TransformOperand
    <3> HIDE DEF n
    <3> QED BY <3>2, <3>3, <3>4
  <2> QED BY <2>1, <2>2, <2>3
<1>8. WeightNodes' /\ Planned'
  BY <1>1, <1>2, <1>6, <1>7, LayoutsStay
<1>9. Least'
  BY <1>1, <1>6, LeastStays
<1>10. Finished'
  BY <1>1, <1>2 DEF Finished
<1> QED BY <1>4, <1>8, <1>9, <1>10 DEF Weights

(* A result is never a weight. *)
LEMMA WeightsUnproduced ==
  ASSUME IInv, Weights, SgdResult \/ JoinResult
  PROVE  Weights'
<1>1. /\ k \in Ops /\ g' = g /\ lab' = lab /\ par' = par
      /\ pc \in {"sgd", "outputs"} /\ pc' # "done" /\ pc' # "weights" /\ pc # "weights"
      /\ k' = k \/ k' = k + 1
  BY DEF SgdResult, JoinResult
<1>2. GraphOK
  BY GraphIsOK DEF IInv, TypeOK
<1>3. Ops' = Ops /\ \A a : Ins(a)' = Ins(a) /\ Optimizer(a)' = Optimizer(a)
  BY <1>1 DEF Ops, Ins, Optimizer
<1>4. lab[k] # <<>> /\ lab[k] \in Seq(Strategy) /\ Len(lab[k]) = Len(Ins(k)) + Len(Outs(k))
        /\ Len(Ins(k)) \in Nat /\ Len(Outs(k)) \in Nat
  <2>1. lab[k] # <<>> /\ Len(lab[k]) = Len(Ins(k)) + Len(Outs(k)) /\ lab[k] \in Seq(Strategy)
    BY <1>1 DEF IInv, Links, Phase, StrategyOK, TypeOK
  <2> QED BY <1>1, <1>2, <2>1 DEF GraphOK
<1>5. \A q \in 1 .. Len(Outs(k)) : Outs(k)[q] \in Tensor /\ Outs(k)[q] \notin g.training
  BY <1>1, <1>2, ElementOfSeq DEF GraphOK, TopoOrdered, Ops, Outs
<1>6. Unlabelled'
  <2>1. \A a \in Ops : a < k' => a < k \/ a = k
    BY <1>1 DEF Ops, IInv, TypeOK
  <2> QED BY <1>1, <1>3, <1>4, <2>1 DEF Weights, Unlabelled
<1>7. \A t \in g.training : tl'[t] = tl[t]
  <2>1. CASE SgdResult
    BY <2>1 DEF SgdResult
  <2>2. CASE JoinResult
    <3> DEFINE s == lab[k][Len(Ins(k)) + i]
    <3>1. i \in 1 .. Len(Outs(k)) /\ Apply(Outs(k)[i], s)
      BY <2>2 DEF JoinResult, JoinPattern
    <3>2. s \in Strategy
      <4>1. Len(Ins(k)) + i \in 1 .. Len(lab[k])
        BY <1>4, <3>1
      <4> QED BY <1>4, <4>1, ElementOfSeq
    <3> HIDE DEF s
    <3> QED BY <1>1, <1>2, <1>5, <3>1, <3>2, ApplyLabel DEF IInv, GraphOK
  <2> QED BY <2>1, <2>2
<1>8. \/ nodes' = nodes
      \/ \E n \in NodeRecord : Create(n) /\ n.of \notin g.training
  <2>1. CASE SgdResult
    <3> DEFINE s == lab[k][4]
               n == [kind |-> "Tile", of |-> Outs(k)[1], pre |-> s, lay |-> s,
                     src |-> par[k][1]]
    <3>1. Len(Ins(k)) = 3 /\ Len(Outs(k)) = 1
      BY <1>1, <1>2, <2>1 DEF GraphOK, IsOp, Ins, Outs, SgdResult, IInv, Links, Phase
    <3>2. s \in Strategy /\ 1 \in 1 .. Len(Outs(k)) /\ 1 \in 1 .. Len(Ins(k))
      <4>1. 4 \in 1 .. Len(lab[k])
        BY <1>4, <3>1
      <4>2. s \in Strategy
        BY <1>4, <4>1, ElementOfSeq
      <4> HIDE DEF s
      <4> QED BY <3>1, <4>2
    <3>3. par[k][1] \in Nat
      <4>1. par[k][1] \in 0 .. Len(nodes)
        BY <1>1, <3>2 DEF IInv, TypeOK
      <4> QED BY <4>1
    <3>4. nodes' = nodes \/ Create(n)
      BY <2>1 DEF SgdResult
    <3> HIDE DEF s
    <3>5. n \in NodeRecord /\ n.of \notin g.training
      BY <1>5, <3>2, <3>3 DEF NodeRecord
    <3> HIDE DEF n
    <3> QED BY <3>4, <3>5
  <2>2. CASE JoinResult
    <3> DEFINE s == lab[k][Len(Ins(k)) + i]
               n == [kind |-> "Join", of |-> Outs(k)[i], pre |-> s, lay |-> s, src |-> 0]
    <3>1. i \in 1 .. Len(Outs(k)) /\ Create(n)
      BY <2>2 DEF JoinResult, JoinPattern
    <3>2. s \in Strategy
      <4>1. Len(Ins(k)) + i \in 1 .. Len(lab[k])
        BY <1>4, <3>1
      <4> QED BY <1>4, <4>1, ElementOfSeq
    <3> HIDE DEF s
    <3>3. n \in NodeRecord /\ n.of \notin g.training
      BY <1>5, <3>1, <3>2 DEF NodeRecord
    <3> HIDE DEF n
    <3> QED BY <3>1, <3>3
  <2> QED BY <2>1, <2>2
<1>9. WeightNodes' /\ Planned'
  BY <1>1, <1>7, <1>8, LayoutsStay
<1>10. Least'
  BY <1>1, <1>7, LeastStays
<1>11. Finished'
  BY <1>1 DEF Finished
<1> QED BY <1>6, <1>9, <1>10, <1>11 DEF Weights

LEMMA WeightsStep == IInv /\ Weights /\ [Next]_vars => Weights'
<1> SUFFICES ASSUME IInv, Weights, [Next]_vars PROVE Weights'
  OBVIOUS
<1>1. CASE UNCHANGED vars
  <2>1. /\ g' = g /\ pc' = pc /\ k' = k /\ lab' = lab /\ par' = par /\ chi' = chi
        /\ tl' = tl /\ nodes' = nodes /\ cut' = cut
    BY <1>1 DEF vars
  <2>2. Ops' = Ops /\ Node' = Node
        /\ \A a : Ins(a)' = Ins(a) /\ Outs(a)' = Outs(a) /\ Optimizer(a)' = Optimizer(a)
    BY <2>1 DEF Ops, Node, Ins, Outs, Optimizer
  <2>3. \A t : History(t)' = History(t) /\ Plans(t)' = Plans(t)
    BY <2>1, <2>2 DEF History, Plans
  <2>4. elimRedundantScatter' = elimRedundantScatter
    BY <2>1, <2>2 DEF elimRedundantScatter, Produced, Scatters, SerialReads
  <2> QED BY <2>1, <2>2, <2>3, <2>4
          DEF Weights, Unlabelled, WeightNodes, Planned, Least, Finished
<1>2. CASE ForkWeight \/ TransformWeight
  BY <1>2, WeightsGrow
<1>3. CASE WeightsDone \/ SkipOp \/ StartOp \/ SgdAssertFails \/ NullTilingLabel
             \/ InputsDone \/ OutputsDone \/ Finish
  BY <1>3, WeightsCursor
<1>4. CASE LabelSgd
  BY <1>4, WeightsLabelled
<1>5. CASE ForkOperand \/ ReuseOperand \/ TransformOperand
  BY <1>5, WeightsLinked
<1>6. CASE SgdResult \/ JoinResult
  BY <1>6, WeightsUnproduced
<1> QED BY <1>1, <1>2, <1>3, <1>4, <1>5, <1>6 DEF Next

(* In the iteration after an update every reader of the weight sees it:     *)
(* elimRedundantScatter cuts off no part that anything still refreshes.     *)
THEOREM UpdatesReach == Spec => []UpdateReachesReaders
<1>1. Spec => []Weights
  BY WeightsBegin, WeightsStep, Invariance, PTL DEF Spec
<1> QED BY <1>1, UpdateFollows, Invariance, PTL

=============================================================================
