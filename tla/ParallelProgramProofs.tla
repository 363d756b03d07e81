-------------------------- MODULE ParallelProgramProofs --------------------------
(***************************************************************************)
(* The whole way from a labelled graph to its ranks: every graph and every *)
(* choice of strategies is lowered, eliminated and scheduled to a plan the *)
(* ranks can run, so that what SPMDProofs says of such plans holds of the  *)
(* program of every graph; and if its optimizers are serial and scheduled  *)
(* last, to one whose data flows, so that what SPMDDataProofs says of the  *)
(* operands of its kernels and of its snapshots does.                      *)
(***************************************************************************)
EXTENDS ParallelProgram, ParallelLoweringProofs, FiniteSetTheorems

Q == INSTANCE SPMDDataProofs WITH Schedules <- {}

-----------------------------------------------------------------------------
(***************************************************************************)
(* The nodes of a graph that is being lowered are such as the ranks can    *)
(* communicate: no Scatter makes a partial sum, and a Join gathers parts   *)
(* or reduces a sum.                                                       *)
(***************************************************************************)
ResultsKept ==
  \A a \in Ops : lab[a] # <<>> /\ ~g.ops[a].sgd =>
    \A q \in 1 .. Len(Outs(a)) : lab[a][Len(Ins(a)) + q] # -1

Communicable(n) ==
  /\ n.kind = "Scatter" => n.lay = n.pre /\ n.pre # -2
  /\ n.kind = "Join" => n.lay = n.pre /\ n.pre # -1

Lowering == IInv /\ ResultsKept /\ \A n \in Node : Communicable(nodes[n])

LEMMA LoweringBegins == Init => Lowering
<1> SUFFICES ASSUME Init PROVE Lowering
  OBVIOUS
<1>1. IInv
  BY InitIInv
<1>2. GraphOK
  BY <1>1, GraphIsOK DEF IInv, TypeOK
<1>3. ResultsKept
  BY <1>2 DEF Init, ResultsKept, GraphOK, IsOp, Ins, Outs
<1>4. Node = {}
  BY DEF Init, Node
<1> QED BY <1>1, <1>3, <1>4 DEF Lowering

LEMMA NodeAdded ==
  ASSUME Lowering, g' = g, NEW n \in NodeRecord, Create(n), Communicable(n)
  PROVE  (\A m \in Node : Communicable(nodes[m]))'
<1>1. /\ Node' = Node \cup {NewNode} /\ nodes'[NewNode] = n
      /\ \A m \in Node : nodes'[m] = nodes[m]
  BY AppendNode DEF Lowering, IInv
<1> QED BY <1>1 DEF Lowering, Communicable

(* A Scatter of an operand. *)
LEMMA ScatterAdded ==
  ASSUME Lowering, g' = g, NEW t \in Tensor, NEW s \in Strategy, s # -2, ForkPattern(t, s)
  PROVE  (\A m \in Node : Communicable(nodes[m]))'
<1> DEFINE n == [kind |-> "Scatter", of |-> t, pre |-> s, lay |-> s, src |-> 0]
<1>1. n \in NodeRecord /\ Communicable(n)
  BY DEF NodeRecord, Communicable
<1>2. Create(n)
  BY DEF ForkPattern
<1> HIDE DEF n
<1> QED BY <1>1, <1>2, NodeAdded

(* A Transform, wherever its source is. *)
LEMMA TransformAdded ==
  ASSUME Lowering, g' = g, NEW t \in Tensor, NEW s \in Strategy, Seen(t),
         TransformPattern(t, Pre(t), s)
  PROVE  (\A m \in Node : Communicable(nodes[m]))'
<1> DEFINE from == IF tl[t].hist[Pre(t)] = 0 THEN tl[t].node ELSE tl[t].hist[Pre(t)]
           n == [kind |-> "Transform", of |-> t, pre |-> Pre(t), lay |-> s, src |-> from]
<1>1. NodeIs(from, t, Pre(t)) /\ Pre(t) \in Strategy
  BY KnownSource, KnownLayout DEF Lowering, IInv, Labels
<1>2. from \in Nat
  BY <1>1 DEF NodeIs, Node, Lowering, IInv, TypeOK
<1>3. Create(n)
  BY DEF TransformPattern
<1> HIDE DEF from
<1>4. n \in NodeRecord /\ Communicable(n)
  BY <1>1, <1>2 DEF NodeRecord, Communicable
<1> HIDE DEF n
<1> QED BY <1>3, <1>4, NodeAdded

(* The result of an op, joined into the original; or none, of an SGD op. *)
LEMMA ResultAdded ==
  ASSUME Lowering, JoinResult \/ SgdResult
  PROVE  (\A m \in Node : Communicable(nodes[m]))'
<1>1. /\ GraphOK /\ k \in Ops /\ g' = g
      /\ lab[k] # <<>> /\ lab[k] \in Seq(Strategy)
      /\ Len(lab[k]) = Len(Ins(k)) + Len(Outs(k))
      /\ Len(Ins(k)) \in Nat /\ Len(Outs(k)) \in Nat
  <2>1. GraphOK
    BY GraphIsOK DEF Lowering, IInv, TypeOK
  <2>2. k \in Ops /\ g' = g /\ pc \in {"outputs", "sgd"}
    BY DEF JoinResult, SgdResult
  <2>3. lab[k] # <<>> /\ Len(lab[k]) = Len(Ins(k)) + Len(Outs(k))
    BY <2>2 DEF Lowering, IInv, Links, Phase, StrategyOK
  <2>4. lab[k] \in Seq(Strategy)
    BY <2>2 DEF Lowering, IInv, TypeOK
  <2>5. Ins(k) \in Seq(Tensor) /\ Outs(k) \in Seq(Tensor)
    BY <2>1, <2>2 DEF GraphOK
  <2> QED BY <2>1, <2>2, <2>3, <2>4, <2>5
<1>2. CASE JoinResult
  <2> DEFINE s == lab[k][Len(Ins(k)) + i]
             n == [kind |-> "Join", of |-> Outs(k)[i], pre |-> s, lay |-> s, src |-> 0]
  <2>1. i \in 1 .. Len(Outs(k)) /\ pc = "outputs" /\ ~g.ops[k].sgd
    BY <1>2 DEF JoinResult, Lowering, IInv, Links, Phase
  <2>2. s \in Strategy /\ Outs(k)[i] \in Tensor
    <3>1. Len(Ins(k)) + i \in 1 .. Len(lab[k])
      BY <1>1, <2>1
    <3> QED BY <1>1, <2>1, <3>1, ElementOfSeq DEF GraphOK
  <2>3. s # -1
    BY <1>1, <2>1 DEF Lowering, ResultsKept
  <2>4. Create(n)
    BY <1>2 DEF JoinResult, JoinPattern
  <2> HIDE DEF s
  <2>5. n \in NodeRecord /\ Communicable(n)
    BY <2>2, <2>3 DEF NodeRecord, Communicable
  <2> HIDE DEF n
  <2> QED BY <1>1, <2>4, <2>5, NodeAdded
<1>3. CASE SgdResult
  <2> DEFINE s == lab[k][4]
             n == [kind |-> "Tile", of |-> Outs(k)[1], pre |-> s, lay |-> s,
                   src |-> par[k][1]]
  <2>1. Len(Ins(k)) = 3 /\ Len(Outs(k)) = 1
    BY <1>1, <1>3 DEF GraphOK, IsOp, Ins, Outs, SgdResult, Lowering, IInv, Links, Phase
  <2>2. s \in Strategy /\ Outs(k)[1] \in Tensor
    <3>1. 4 \in 1 .. Len(lab[k]) /\ 1 \in 1 .. Len(Outs(k))
      BY <1>1, <2>1
    <3>2. lab[k][4] \in Strategy
      BY <1>1, <3>1, ElementOfSeq
    <3>3. Outs(k) \in Seq(Tensor)
      BY <1>1 DEF GraphOK
    <3>4. Outs(k)[1] \in Tensor
      BY <3>1, <3>3, ElementOfSeq
    <3> QED BY <3>2, <3>4
  <2>3. par[k][1] \in Nat
    <3>1. par[k] \in [1 .. Len(Ins(k)) -> 0 .. Len(nodes)]
      BY <1>1 DEF Lowering, IInv, TypeOK
    <3>2. 1 \in 1 .. Len(Ins(k))
      BY <2>1
    <3>3. par[k][1] \in 0 .. Len(nodes)
      BY <3>1, <3>2
    <3> QED BY <3>3
  <2>4. nodes' = nodes \/ Create(n)
    BY <1>3 DEF SgdResult
  <2>5. n \in NodeRecord /\ Communicable(n)
    BY <2>2, <2>3 DEF NodeRecord, Communicable
  <2>6. CASE nodes' = nodes
    BY <2>6 DEF Lowering, Node, Communicable
  <2> HIDE DEF n
  <2>7. CASE Create(n)
    BY <1>1, <2>5, <2>7, NodeAdded
  <2> QED BY <2>4, <2>6, <2>7
<1> QED BY <1>2, <1>3

LEMMA LoweringStep == Lowering /\ [Next]_vars => Lowering'
<1> SUFFICES ASSUME Lowering, [Next]_vars PROVE Lowering'
  OBVIOUS
<1>1. IInv'
  BY StepIInv DEF Lowering
<1>2. GraphOK /\ g' = g
  BY GraphIsOK DEF Lowering, IInv, TypeOK, vars, Next, ForkWeight, TransformWeight,
     WeightsDone, SkipOp, StartOp, LabelSgd, SgdAssertFails, ForkOperand, ReuseOperand,
     TransformOperand, NullTilingLabel, InputsDone, SgdResult, JoinResult, OutputsDone, Finish
<1>3. ResultsKept'
  <2>1. CASE lab' = lab
    BY <1>2, <2>1 DEF Lowering, ResultsKept, Ops, Ins, Outs
  <2>2. CASE LabelSgd
    <3>1. g.ops[k].sgd /\ \A a \in Ops \ {k} : lab'[a] = lab[a]
      BY <2>2 DEF LabelSgd, Optimizer, Lowering, IInv, TypeOK
    <3> QED BY <1>2, <3>1 DEF Lowering, ResultsKept, Ops, Ins, Outs
  <2>3. lab' = lab \/ LabelSgd
    BY DEF vars, Next, ForkWeight, TransformWeight, WeightsDone, SkipOp, StartOp,
       SgdAssertFails, ForkOperand, ReuseOperand, TransformOperand, NullTilingLabel,
       InputsDone, SgdResult, JoinResult, OutputsDone, Finish
  <2> QED BY <2>1, <2>2, <2>3
<1>4. (\A m \in Node : Communicable(nodes[m]))'
  <2>1. CASE nodes' = nodes
    BY <2>1 DEF Lowering, Node, Communicable
  <2>2. CASE ForkWeight
    <3>1. PICK t \in g.training, s \in Strategy : NextPlan(t, s) /\ ForkPattern(t, s)
      BY <2>2 DEF ForkWeight
    <3>2. t \in Tensor /\ s # -2
      BY <2>2, <3>1, PlanFacts DEF Lowering, ForkWeight
    <3> QED BY <1>2, <3>1, <3>2, ScatterAdded
  <2>3. CASE TransformWeight
    <3>1. PICK t \in g.training, s \in Strategy :
            NextPlan(t, s) /\ Seen(t) /\ TransformPattern(t, selectTransPreStrategy(t), s)
      BY <2>3 DEF TransformWeight
    <3>2. t \in Tensor /\ g.comm
      BY <2>3, <3>1, PlanFacts DEF Lowering, TransformWeight
    <3>3. selectTransPreStrategy(t) = Pre(t)
      BY <3>2 DEF Pre
    <3> QED BY <1>2, <3>1, <3>2, <3>3, TransformAdded
  <2>4. CASE ForkOperand
    <3>1. Operand \in Tensor /\ Want \in Strategy /\ Want # -2
      BY <2>4, OperandFacts DEF Lowering, ForkOperand
    <3> QED BY <1>2, <2>4, <3>1, ScatterAdded DEF ForkOperand
  <2>5. CASE TransformOperand
    <3>1. Operand \in Tensor /\ Want \in Strategy
      BY <2>5, OperandFacts DEF Lowering, TransformOperand
    <3> QED BY <1>2, <2>5, <3>1, TransformAdded DEF TransformOperand
  <2>6. CASE JoinResult \/ SgdResult
    BY <2>6, ResultAdded
  <2>7. \/ nodes' = nodes
        \/ ForkWeight \/ TransformWeight \/ ForkOperand \/ TransformOperand
        \/ JoinResult \/ SgdResult
    BY DEF vars, Next, WeightsDone, SkipOp, StartOp, LabelSgd, SgdAssertFails,
       ReuseOperand, NullTilingLabel, InputsDone, OutputsDone, Finish
  <2> QED BY <2>1, <2>2, <2>3, <2>4, <2>5, <2>6, <2>7
<1> QED BY <1>1, <1>3, <1>4 DEF Lowering

-----------------------------------------------------------------------------
(***************************************************************************)
(* Recursive functions.  Elimination and schedule are defined by recursion *)
(* on a round; a step that stays within a set has a function whose values  *)
(* are in that set.                                                        *)
(***************************************************************************)
Follows(N, c, step, f) == f[0] = c /\ \A n \in 1 .. N : f[n] = step[n][f[n - 1]]

LEMMA Recursion ==
  ASSUME NEW N \in Nat, NEW S, NEW c \in S, NEW step \in [1 .. N -> [S -> S]]
  PROVE  \E f \in [0 .. N -> S] : Follows(N, c, step, f)
<1> DEFINE Upto(n, f) == f[0] = c /\ \A m \in 1 .. n : f[m] = step[m][f[m - 1]]
           T == {n \in 0 .. N : \E f \in [0 .. n -> S] : Upto(n, f)}
<1>1. 0 \in T
  <2>1. Upto(0, [m \in 0 .. 0 |-> c])
    OBVIOUS
  <2>2. [m \in 0 .. 0 |-> c] \in [0 .. 0 -> S]
    OBVIOUS
  <2> HIDE DEF Upto
  <2> QED BY <2>1, <2>2
<1>2. ASSUME NEW n \in 1 .. N, n - 1 \in T PROVE n \in T
  <2>1. PICK f \in [0 .. n - 1 -> S] : Upto(n - 1, f)
    BY <1>2
  <2> DEFINE h == [m \in 0 .. n |-> IF m = n THEN step[n][f[n - 1]] ELSE f[m]]
  <2>2. f[n - 1] \in S /\ step[n] \in [S -> S]
    BY <2>1
  <2>3. step[n][f[n - 1]] \in S
    BY <2>2
  <2>4. h \in [0 .. n -> S]
    BY <2>1, <2>3
  <2>5. h[0] = c
    BY <2>1
  <2>6. ASSUME NEW m \in 1 .. n PROVE h[m] = step[m][h[m - 1]]
    <3>1. CASE m = n
      BY <3>1
    <3>2. CASE m # n
      <4>1. m \in 1 .. n - 1 /\ m - 1 \in 0 .. n - 1 /\ m - 1 # n
        BY <3>2
      <4> QED BY <2>1, <3>2, <4>1
    <3> QED BY <3>1, <3>2
  <2> HIDE DEF h
  <2>7. Upto(n, h)
    BY <2>5, <2>6
  <2> HIDE DEF Upto
  <2> QED BY <2>4, <2>7
<1> HIDE DEF T
<1>3. N \in T
  <2>1. \A n \in 0 .. N : n \in T
    BY <1>1, <1>2, Upwards
  <2> QED BY <2>1
<1> USE DEF T
<1> QED BY <1>3 DEF Follows

(* The x-th of a finite set of numbers exists, so that Sorted lists members. *)
LEMMA Ranked ==
  ASSUME NEW S \in SUBSET Nat, IsFiniteSet(S), NEW x \in 1 .. Cardinality(S)
  PROVE  \E o \in S : Cardinality({q \in S : q < o}) = x - 1
<1> DEFINE Below(o) == {q \in S : q < o}
           N == Cardinality(S)
           T == {n \in Nat : n < N => \E o \in S : Cardinality(Below(o)) = n}
<1>1. N \in Nat
  BY FS_CardinalityType
<1>2. 0 \in T
  <2> SUFFICES ASSUME 0 < N PROVE \E o \in S : Cardinality(Below(o)) = 0
    OBVIOUS
  <2>1. S # {}
    BY FS_EmptySet
  <2>2. PICK o \in S : \A y \in S : o <= y
    BY <2>1, LeastNatural
  <2>3. \A y \in S : ~(y < o)
    BY <2>2
  <2>4. Below(o) = {}
    BY <2>3
  <2> QED BY <2>4, FS_EmptySet
<1>3. ASSUME NEW n \in 1 .. N, n - 1 \in T PROVE n \in T
  <2> SUFFICES ASSUME n < N PROVE \E o \in S : Cardinality(Below(o)) = n
    BY <1>1
  <2>1. PICK p \in S : Cardinality(Below(p)) = n - 1
    BY <1>1, <1>3
  <2> DEFINE L == Below(p) \cup {p}
  <2>2. IsFiniteSet(Below(p))
    BY FS_Subset
  <2>3. p \notin Below(p)
    OBVIOUS
  <2>4. Cardinality(L) = n /\ L \subseteq S
    <3>1. Cardinality(L) = Cardinality(Below(p)) + 1
      <4> HIDE DEF Below
      <4> QED BY <2>2, <2>3, FS_AddElement
    <3> QED BY <2>1, <3>1
  <2>5. S \ L # {}
    BY <1>1, <2>4
  <2>6. PICK o \in S \ L : \A y \in S \ L : o <= y
    BY <2>5, LeastNatural
  <2>7. Below(o) = L
    <3>1. p < o
      BY <2>6
    <3>2. \A q \in S : q < o => q \in L
      BY <2>6
    <3>3. \A q \in L : q < o
      BY <2>6, <3>1
    <3> QED BY <2>4, <3>2, <3>3
  <2> QED BY <2>4, <2>6, <2>7
<1> HIDE DEF T, N
<1>4. \A n \in 0 .. N : n \in T
  BY <1>1, <1>2, <1>3, Upwards
<1> USE DEF T, N
<1>5. x - 1 \in 0 .. N /\ x - 1 < N
  BY <1>1
<1>6. x - 1 \in T
  BY <1>4, <1>5
<1> QED BY <1>5, <1>6

LEMMA SortedIn ==
  ASSUME NEW U \in SUBSET Nat, IsFiniteSet(U), NEW S \in SUBSET U
  PROVE  Sorted(S) \in Seq(U)
<1>1. IsFiniteSet(S) /\ Cardinality(S) \in Nat
  BY FS_Subset, FS_CardinalityType
<1>2. ASSUME NEW x \in 1 .. Cardinality(S)
      PROVE  (CHOOSE o \in S : Cardinality({q \in S : q < o}) = x - 1) \in U
  <2>1. \E o \in S : Cardinality({q \in S : q < o}) = x - 1
    BY <1>1, Ranked
  <2> QED BY <2>1
<1>3. Sorted(S) \in [1 .. Cardinality(S) -> U]
  BY <1>2 DEF Sorted
<1> QED BY <1>1, <1>3, SeqDef

-----------------------------------------------------------------------------
(***************************************************************************)
(* What is kept, and its order, is of the ops of the lowered graph.        *)
(***************************************************************************)
LEMMA IrOpsFinite ==
  ASSUME Lowering
  PROVE  IrOps \in SUBSET Nat /\ IsFiniteSet(IrOps) /\ Cardinality(IrOps) \in Nat
<1>1. Len(g.ops) \in Nat /\ Len(nodes) \in Nat
  <2>1. GraphOK /\ nodes \in Seq(NodeRecord)
    BY GraphIsOK DEF Lowering, IInv, TypeOK
  <2> QED BY <2>1 DEF GraphOK
<1>2. IrOps \subseteq 0 .. Len(g.ops) + Len(nodes)
  BY <1>1 DEF IrOps, Ops, Node, CommOp
<1>3. IsFiniteSet(0 .. Len(g.ops) + Len(nodes))
  BY <1>1, FS_Interval
<1>4. IsFiniteSet(IrOps)
  BY <1>2, <1>3, FS_Subset
<1>5. 0 .. Len(g.ops) + Len(nodes) \subseteq Nat
  BY <1>1
<1> QED BY <1>2, <1>4, <1>5, FS_CardinalityType

(* One round of the elimination, and one level of the schedule. *)
Leading(live) == live \cup {e[1] : e \in {f \in Edges : f[2] \in live}}

Behind(above) == {e[2] : e \in {f \in Edges : f[1] \in above}} \cap Live

LEMMA LiveRounds ==
  ASSUME Lowering, NEW N, N = Cardinality(IrOps)
  PROVE  \E L \in [0 .. N -> SUBSET IrOps] :
           /\ L[0] = {o \in IrOps : Stays(o)}
           /\ \A n \in 1 .. N : L[n] = Leading(L[n - 1])
           /\ Live = L[N]
<1> DEFINE First == {o \in IrOps : Stays(o)}
           Is(L) == L = [n \in Rounds |-> IF n = 0 THEN First ELSE Leading(L[n - 1])]
           Up == CHOOSE L : Is(L)
<1>1. N \in Nat /\ Rounds = 0 .. N
  BY IrOpsFinite DEF Rounds
<1>2. \A live \in SUBSET IrOps : Leading(live) \in SUBSET IrOps
  BY DEF Edges, Leading
<1>3. First \in SUBSET IrOps
  OBVIOUS
<1>4. Live = Up[N]
  BY DEF Live, Leading
<1> HIDE DEF First
<1> DEFINE step == [n \in 1 .. N |-> [live \in SUBSET IrOps |-> Leading(live)]]
<1>5. step \in [1 .. N -> [SUBSET IrOps -> SUBSET IrOps]]
  BY <1>2
<1> HIDE DEF step
<1>6. PICK f \in [0 .. N -> SUBSET IrOps] : Follows(N, First, step, f)
  <2> DEFINE S == SUBSET IrOps
  <2>1. step \in [1 .. N -> [S -> S]] /\ First \in S
    BY <1>3, <1>5
  <2> HIDE DEF S
  <2>2. \E f \in [0 .. N -> S] : Follows(N, First, step, f)
    BY <1>1, <2>1, Recursion
  <2> QED BY <2>2 DEF S
<1>7. ASSUME NEW n \in 1 .. N PROVE step[n][f[n - 1]] = Leading(f[n - 1])
  <2>1. f[n - 1] \in SUBSET IrOps
    BY <1>1, <1>6
  <2> QED BY <2>1 DEF step
<1>8. f = [n \in 0 .. N |-> IF n = 0 THEN First ELSE Leading(f[n - 1])]
  BY <1>1, <1>6, <1>7 DEF Follows
<1>9. Is(f)
  BY <1>1, <1>8
<1>10. Is(Up)
  <2> HIDE DEF Is
  <2> QED BY <1>9
<1> HIDE DEF Up
<1>11. Up[0] = First /\ \A n \in 1 .. N : Up[n] = Leading(Up[n - 1])
  BY <1>1, <1>10
<1>12. \A n \in 0 .. N : Up[n] \in SUBSET IrOps
  <2> DEFINE T == {m \in 0 .. N : Up[m] \in SUBSET IrOps}
  <2>1. 0 \in T
    BY <1>1, <1>3, <1>11
  <2>2. ASSUME NEW n \in 1 .. N, n - 1 \in T PROVE n \in T
    BY <1>1, <1>2, <1>11, <2>2
  <2> HIDE DEF T
  <2>3. \A n \in 0 .. N : n \in T
    BY <1>1, <2>1, <2>2, Upwards
  <2> USE DEF T
  <2> QED BY <2>3
<1>13. Up \in [0 .. N -> SUBSET IrOps]
  BY <1>1, <1>10, <1>12
<1> QED BY <1>4, <1>11, <1>13 DEF First

LEMMA LiveIn == ASSUME Lowering PROVE Live \subseteq IrOps
<1>1. PICK N : N = Cardinality(IrOps)
  OBVIOUS
<1>2. N \in Nat
  BY <1>1, IrOpsFinite
<1>3. PICK L \in [0 .. N -> SUBSET IrOps] : Live = L[N]
  BY <1>1, LiveRounds
<1> QED BY <1>2, <1>3

LEMMA ScheduleRounds ==
  ASSUME Lowering, NEW N, N = Cardinality(IrOps)
  PROVE  \E From \in [0 .. N -> SUBSET IrOps], UpTo \in [0 .. N -> Seq(IrOps)] :
           /\ From[0] = Live /\ \A n \in 1 .. N : From[n] = Behind(From[n - 1])
           /\ UpTo[0] = <<>>
           /\ \A n \in 1 .. N : UpTo[n] = UpTo[n - 1] \o Sorted(From[n - 1] \ From[n])
           /\ schedule = UpTo[N]
<1> DEFINE IsFrom(F) == F = [n \in Rounds |-> IF n = 0 THEN Live ELSE Behind(F[n - 1])]
           From == CHOOSE F : IsFrom(F)
           Longer(s, n) == s \o Sorted(From[n - 1] \ From[n])
           IsUpTo(U) == U = [n \in Rounds |-> IF n = 0 THEN <<>> ELSE Longer(U[n - 1], n)]
           UpTo == CHOOSE U : IsUpTo(U)
<1>1. N \in Nat /\ Rounds = 0 .. N /\ IrOps \in SUBSET Nat /\ IsFiniteSet(IrOps)
  BY IrOpsFinite DEF Rounds
<1>2. schedule = UpTo[N]
  BY DEF schedule, Behind
<1>3. \A above \in SUBSET IrOps : Behind(above) \in SUBSET IrOps
  BY LiveIn DEF Behind
<1>4. Live \in SUBSET IrOps
  BY LiveIn
<1>5. \E F : IsFrom(F)
  <2> DEFINE step == [n \in 1 .. N |-> [above \in SUBSET IrOps |-> Behind(above)]]
  <2>1. step \in [1 .. N -> [SUBSET IrOps -> SUBSET IrOps]]
    BY <1>3
  <2> HIDE DEF step
  <2>2. PICK f \in [0 .. N -> SUBSET IrOps] : Follows(N, Live, step, f)
    <3> DEFINE S == SUBSET IrOps
    <3>1. step \in [1 .. N -> [S -> S]] /\ Live \in S
      BY <1>4, <2>1
    <3> HIDE DEF S
    <3>2. \E f \in [0 .. N -> S] : Follows(N, Live, step, f)
      BY <1>1, <3>1, Recursion
    <3> QED BY <3>2 DEF S
  <2>3. ASSUME NEW n \in 1 .. N PROVE step[n][f[n - 1]] = Behind(f[n - 1])
    <3>1. f[n - 1] \in SUBSET IrOps
      BY <1>1, <2>2
    <3> QED BY <3>1 DEF step
  <2>4. f = [n \in 0 .. N |-> IF n = 0 THEN Live ELSE Behind(f[n - 1])]
    BY <1>1, <2>2, <2>3 DEF Follows
  <2> QED BY <1>1, <2>4
<1>6. IsFrom(From)
  <2> HIDE DEF IsFrom
  <2> QED BY <1>5
<1> HIDE DEF From
<1>6a. From[0] = Live /\ \A n \in 1 .. N : From[n] = Behind(From[n - 1])
  BY <1>1, <1>6
<1>7. \A n \in 0 .. N : From[n] \in SUBSET IrOps
  <2> DEFINE T == {m \in 0 .. N : From[m] \in SUBSET IrOps}
  <2>1. 0 \in T
    <3>1. 0 \in 0 .. N /\ From[0] \in SUBSET IrOps
      BY <1>1, <1>4, <1>6a
    <3> QED BY <3>1
  <2>2. ASSUME NEW n \in 1 .. N, n - 1 \in T PROVE n \in T
    BY <1>1, <1>3, <1>6a, <2>2
  <2> HIDE DEF T
  <2>3. \A n \in 0 .. N : n \in T
    BY <1>1, <2>1, <2>2, Upwards
  <2> USE DEF T
  <2> QED BY <2>3
<1>8. ASSUME NEW n \in 1 .. N, NEW s \in Seq(IrOps) PROVE Longer(s, n) \in Seq(IrOps)
  <2>1. From[n - 1] \ From[n] \in SUBSET IrOps
    <3>1. n - 1 \in 0 .. N
      BY <1>1
    <3> QED BY <1>7, <3>1
  <2>2. Sorted(From[n - 1] \ From[n]) \in Seq(IrOps)
    BY <1>1, <2>1, SortedIn
  <2> QED BY <2>2, ConcatProperties
<1> HIDE DEF Longer
<1>9. \E U : IsUpTo(U)
  <2> DEFINE step == [n \in 1 .. N |-> [s \in Seq(IrOps) |-> Longer(s, n)]]
  <2>1. step \in [1 .. N -> [Seq(IrOps) -> Seq(IrOps)]]
    BY <1>8
  <2> HIDE DEF step
  <2>2. PICK f \in [0 .. N -> Seq(IrOps)] : Follows(N, <<>>, step, f)
    <3> DEFINE S == Seq(IrOps)
    <3>1. step \in [1 .. N -> [S -> S]] /\ <<>> \in S
      BY <2>1
    <3> HIDE DEF S
    <3>2. \E f \in [0 .. N -> S] : Follows(N, <<>>, step, f)
      BY <1>1, <3>1, Recursion
    <3> QED BY <3>2 DEF S
  <2>3. ASSUME NEW n \in 1 .. N PROVE step[n][f[n - 1]] = Longer(f[n - 1], n)
    <3>1. f[n - 1] \in Seq(IrOps)
      BY <1>1, <2>2
    <3> QED BY <3>1 DEF step
  <2>4. f = [n \in 0 .. N |-> IF n = 0 THEN <<>> ELSE Longer(f[n - 1], n)]
    BY <1>1, <2>2, <2>3 DEF Follows
  <2> QED BY <1>1, <2>4
<1>10. IsUpTo(UpTo)
  <2> HIDE DEF IsUpTo
  <2> QED BY <1>9
<1> HIDE DEF UpTo
<1>10a. UpTo[0] = <<>> /\ \A n \in 1 .. N : UpTo[n] = Longer(UpTo[n - 1], n)
  BY <1>1, <1>10
<1>11. \A n \in 0 .. N : UpTo[n] \in Seq(IrOps)
  <2> DEFINE T == {m \in 0 .. N : UpTo[m] \in Seq(IrOps)}
  <2>1. 0 \in T
    <3>1. 0 \in 0 .. N /\ UpTo[0] \in Seq(IrOps)
      BY <1>1, <1>10a
    <3> QED BY <3>1
  <2>2. ASSUME NEW n \in 1 .. N, n - 1 \in T PROVE n \in T
    BY <1>1, <1>8, <1>10a, <2>2
  <2> HIDE DEF T
  <2>3. \A n \in 0 .. N : n \in T
    BY <1>1, <2>1, <2>2, Upwards
  <2> USE DEF T
  <2> QED BY <2>3
<1>12. From \in [0 .. N -> SUBSET IrOps]
  BY <1>1, <1>6, <1>7
<1>13. UpTo \in [0 .. N -> Seq(IrOps)]
  BY <1>1, <1>10, <1>11
<1> QED BY <1>2, <1>6a, <1>10a, <1>12, <1>13 DEF Longer

(* The schedule is a sequence of such ops. *)
LEMMA ScheduleIn == ASSUME Lowering PROVE schedule \in Seq(IrOps)
<1>1. PICK N : N = Cardinality(IrOps)
  OBVIOUS
<1>2. N \in Nat
  BY <1>1, IrOpsFinite
<1>3. PICK From \in [0 .. N -> SUBSET IrOps], UpTo \in [0 .. N -> Seq(IrOps)] :
        schedule = UpTo[N]
  BY <1>1, ScheduleRounds
<1> QED BY <1>2, <1>3

-----------------------------------------------------------------------------
(***************************************************************************)
(* Every plan can be run.  A Transform is on all processes and of whole    *)
(* data, a Scatter makes no sum, a Gather has parts to gather.             *)
(***************************************************************************)
LEMMA OpRunnable == ASSUME Lowering, NEW o \in IrOps PROVE Q!RunnableOp(PlanOp(o))
<1>1. GraphOK /\ nodes \in Seq(NodeRecord) /\ Len(g.ops) \in Nat /\ Len(nodes) \in Nat
  <2>1. GraphOK /\ nodes \in Seq(NodeRecord)
    BY GraphIsOK DEF Lowering, IInv, TypeOK
  <2> QED BY <2>1 DEF GraphOK
<1>2. CASE o \in Ops
  <2>1. /\ PlanOp(o).kind = "Compute" /\ PlanOp(o).pre = 0
        /\ PlanOp(o).par = isParallel(o) /\ PlanOp(o).once = FALSE
    BY <1>2 DEF PlanOp
  <2>2. isParallel(o) \in BOOLEAN
    BY DEF isParallel
  <2> HIDE DEF PlanOp
  <2> QED BY <2>1, <2>2 DEF Q!RunnableOp, Q!Kind
<1>3. CASE o \notin Ops
  <2>1. PICK m \in Node : o = CommOp(m) /\ nodes[m].kind # "Tile"
    BY <1>3 DEF IrOps
  <2>2. NodeOf(o) = nodes[m]
    BY <1>1, <2>1 DEF NodeOf, CommOp, Node
  <2> DEFINE n == nodes[m]
  <2>3. n \in NodeRecord /\ Communicable(n)
    BY <1>1, <2>1, ElementOfSeq DEF Lowering, Node
  <2>4. n.kind = "Transform" => n.pre >= -1
    BY <2>1 DEF Lowering, IInv, Labels, TransformsImplemented
  <2>5. /\ PlanOp(o).kind = IF n.kind = "Join" THEN IF n.lay = -2 THEN "Reduce" ELSE "Gather"
                            ELSE n.kind
        /\ PlanOp(o).pre = n.pre /\ PlanOp(o).par = (n.kind = "Transform")
        /\ PlanOp(o).once = FALSE
    BY <1>3, <2>2 DEF PlanOp
  <2>6. /\ n.kind \in {"Scatter", "Transform", "Join"} /\ n.pre \in Int /\ n.pre >= -2
        /\ n.kind = "Scatter" => n.pre # -2
        /\ n.kind = "Join" => n.lay = n.pre /\ n.pre # -1
    BY <2>1, <2>3, AxisAssumption DEF NodeRecord, Communicable, Strategy
  <2> HIDE DEF n
  <2>7. CASE n.kind = "Join"
    <3>1. /\ PlanOp(o).kind \in {"Reduce", "Gather"}
          /\ PlanOp(o).kind = "Gather" => PlanOp(o).pre >= 0
      BY <2>5, <2>6, <2>7
    <3> QED BY <2>5, <2>6, <2>7, <3>1 DEF Q!RunnableOp, Q!Kind
  <2>8. CASE n.kind # "Join"
    <3>1. PlanOp(o).kind = n.kind /\ n.kind \in {"Scatter", "Transform"}
      BY <2>5, <2>6, <2>8
    <3>2. /\ PlanOp(o).par \in BOOLEAN
          /\ n.kind = "Transform" => PlanOp(o).par
      BY <2>5
    <3> QED BY <2>4, <2>5, <2>6, <3>1, <3>2 DEF Q!RunnableOp, Q!Kind
  <2> QED BY <2>7, <2>8
<1> QED BY <1>2, <1>3

LEMMA PlanOK ==
  ASSUME Lowering, NEW b \in 0 .. MaxBuffered PROVE Q!Runnable(PlanOf(b))
<1> DEFINE p == PlanOf(b)
           order == schedule
<1>1. order \in Seq(IrOps) /\ Len(order) \in Nat
  BY ScheduleIn
<1>2. /\ p.ops = [x \in 1 .. Len(order) |-> PlanOp(order[x])]
      /\ p.inits = <<>> /\ p.benchmark = g.benchmark /\ p.buffered = b
  BY DEF PlanOf
<1>3. g.benchmark \in BOOLEAN
  <2>1. IsGraph(g)
    BY GraphAssumption DEF Lowering, IInv, TypeOK
  <2> QED BY <2>1 DEF IsGraph
<1>4. b \in Nat
  BY ShapeAssumption
<1> HIDE DEF p, order
<1>5. Len(p.ops) = Len(order)
  <2> DEFINE S == {PlanOp(order[x]) : x \in 1 .. Len(order)}
  <2>1. p.ops \in [1 .. Len(order) -> S]
    BY <1>2
  <2> HIDE DEF S
  <2>2. p.ops \in Seq(S)
    BY <1>1, <2>1, SeqDef
  <2>3. DOMAIN p.ops = 1 .. Len(order) /\ DOMAIN p.ops = 1 .. Len(p.ops) /\ Len(p.ops) \in Nat
    BY <1>2, <2>2, LenProperties
  <2> QED BY <1>1, <2>3
<1>6. ASSUME NEW j \in 1 .. Len(p.ops) PROVE Q!RunnableOp(p.ops[j])
  <2>1. order[j] \in IrOps /\ p.ops[j] = PlanOp(order[j])
    BY <1>1, <1>2, <1>5, <1>6, ElementOfSeq
  <2> QED BY <2>1, OpRunnable
<1>7. Q!Runnable(p)
  BY <1>1, <1>2, <1>3, <1>4, <1>5, <1>6 DEF Q!Runnable
<1> QED BY <1>7 DEF p

-----------------------------------------------------------------------------
(* The model that is composed here and the one SPMDProofs is about are one. *)
LEMMA SameModel ==
  /\ P!Start <=> Q!Start
  /\ \A p : P!Runnable(p) <=> Q!Runnable(p)
  /\ P!EmitNext <=> Q!EmitNext
  /\ P!Launch <=> Q!Launch
  /\ \A r : P!RankStep(r) <=> Q!RankStep(r)
  /\ P!Rank = Q!Rank
  /\ P!RunTypeOK <=> Q!RunTypeOK
  /\ P!CollectivesAgree <=> Q!CollectivesAgree
  /\ P!Drained <=> Q!Drained
  /\ P!NoneStuck <=> Q!NoneStuck
<1> USE DEF P!Kind, Q!Kind, P!emitVars, Q!emitVars, P!Line, Q!Line, P!Runs, Q!Runs,
            P!TwoSided, Q!TwoSided, P!Runable, Q!Runable, P!Ran, Q!Ran, P!InitLines,
            Q!InitLines, P!EmitTensorInitializations, Q!EmitTensorInitializations,
            P!EmitTwoSided, Q!EmitTwoSided, P!Flushed, Q!Flushed, P!Left, Q!Left,
            P!ForAll, Q!ForAll, P!SumTransform, Q!SumTransform, P!EmitOther, Q!EmitOther,
            P!EmitSumTransform, Q!EmitSumTransform, P!EndFuncCalls, Q!EndFuncCalls,
            P!EmitNext, Q!EmitNext, P!Whole, Q!Whole, P!Rank, Q!Rank, P!runVars,
            Q!runVars, P!RankRole, Q!RankRole, P!OpAt, Q!OpAt, P!Side, Q!Side, P!Buffers,
            Q!Buffers, P!Shape, Q!Shape, P!Size, Q!Size, P!Count, Q!Count, P!Stride,
            Q!Stride, P!Vector, Q!Vector, P!Pick, Q!Pick, P!Put, Q!Put, P!All, Q!All,
            P!Global, Q!Global, P!Stamp, Q!Stamp, P!Part, Q!Part, P!Summand, Q!Summand,
            P!Unset, Q!Unset, P!Place, Q!Place, P!Read, Q!Read, P!Write, Q!Write, P!Start,
            Q!Start, P!Launch, Q!Launch, P!Moves, Q!Moves, P!FirstTurn, Q!FirstTurn,
            P!LastTurn, Q!LastTurn, P!Others, Q!Others, P!Ahead, Q!Ahead, P!Behind,
            Q!Behind, P!Dests, Q!Dests, P!Sources, Q!Sources, P!Collective, Q!Collective,
            P!Tag, Q!Tag, P!Message, Q!Message, P!Running, Q!Running, P!CanPost,
            Q!CanPost, P!Post, Q!Post, P!Sent, Q!Sent, P!Fits, Q!Fits, P!Matching,
            Q!Matching, P!First, Q!First, P!Taken, Q!Taken, P!Without, Q!Without, P!Sum,
            Q!Sum, P!Received, Q!Received, P!CanReceive, Q!CanReceive, P!Receive,
            Q!Receive, P!LinesFrom, Q!LinesFrom, P!GoTo, Q!GoTo, P!Advance, Q!Advance,
            P!CanReturn, Q!CanReturn, P!Return, Q!Return, P!OwnPart, Q!OwnPart, P!Results,
            Q!Results, P!Result, Q!Result, P!Kernel, Q!Kernel, P!CanCompute, Q!CanCompute,
            P!Local, Q!Local, P!CanBegin, Q!CanBegin, P!Begin, Q!Begin, P!RankStep,
            Q!RankStep, P!RunnableOp, Q!RunnableOp, P!Runnable, Q!Runnable, P!RunInit,
            Q!RunInit, P!RunTypeOK, Q!RunTypeOK, P!CollectivesAgree, Q!CollectivesAgree,
            P!Ended, Q!Ended, P!Drained, Q!Drained, P!CanStep, Q!CanStep, P!NoneStuck,
            Q!NoneStuck
<1>1. P!Start <=> Q!Start
  OBVIOUS
<1>2. \A p : P!Runnable(p) <=> Q!Runnable(p)
  OBVIOUS
<1>3. P!EmitNext <=> Q!EmitNext
  OBVIOUS
<1>4. P!Launch <=> Q!Launch
  OBVIOUS
<1>5. \A r : P!RankStep(r) <=> Q!RankStep(r)
  OBVIOUS
<1>6. P!Rank = Q!Rank
  OBVIOUS
<1>7. P!RunTypeOK <=> Q!RunTypeOK
  OBVIOUS
<1>8. P!CollectivesAgree <=> Q!CollectivesAgree
  OBVIOUS
<1>9. P!Drained <=> Q!Drained
  OBVIOUS
<1>10. P!NoneStuck <=> Q!NoneStuck
  OBVIOUS
<1> QED BY <1>1, <1>2, <1>3, <1>4, <1>5, <1>6, <1>7, <1>8, <1>9, <1>10

-----------------------------------------------------------------------------
(***************************************************************************)
(* The composition.  Until code is generated the ranks have not started;   *)
(* from then on the invariant of SPMDProofs holds, as the plan is one they *)
(* can run.                                                                *)
(***************************************************************************)
Unstarted ==
  /\ at = 1 /\ hetero = FALSE
  /\ writer = <<>> /\ master = <<>> /\ worker = <<>> /\ ran = {}
  /\ Q!Start

ProgInv ==
  /\ Lowering
  /\ phase = "lowering" => Unstarted
  /\ phase # "lowering" => Q!RunInv

LEMMA JobFits == Q!JobOK
  BY ShapeAssumption DEF Q!JobOK

LEMMA ProgBegins == ProgInit => ProgInv
  BY LoweringBegins, SameModel DEF ProgInit, ProgInv, Unstarted

(* The ranks' state and the text are left alone. *)
LEMMA ProgKept ==
  ASSUME ProgInv, Lowering', UNCHANGED progVars PROVE ProgInv'
<1>1. /\ UNCHANGED <<plan, phase, at, hetero, writer, master, worker, ran>>
      /\ UNCHANGED <<ip, sub, posted, got, iter, mem, alias, chan>>
  BY DEF progVars
<1>2. phase = "lowering" => Unstarted'
  BY <1>1 DEF ProgInv, Unstarted, Q!Start, Q!Rank
<1>3. ASSUME phase # "lowering" PROVE Q!RunInv'
  <2>1. UNCHANGED <<Q!emitVars, Q!runVars>>
    BY <1>1 DEF Q!emitVars, Q!runVars
  <2>2. [(Q!EmitNext /\ UNCHANGED Q!runVars) \/ Q!RunNext]_<<Q!emitVars, Q!runVars>>
    BY <2>1
  <2> QED BY <1>3, <2>2, JobFits, Q!RunStep DEF ProgInv
<1> QED BY <1>1, <1>2, <1>3 DEF ProgInv

(* What RunBegins says of a state, of the state after a step. *)
LEMMA RunBeginsNext == Q!RunInit' => Q!RunInv'
<1>1. Q!RunInit => Q!RunInv
  BY JobFits, Q!RunBegins
<1> QED BY <1>1, PTL

(* The plan is one that can be run. *)
LEMMA GenerateStep == ASSUME ProgInv, Generate PROVE ProgInv'
<1>1. PICK b \in 0 .. MaxBuffered : plan' = PlanOf(b)
  BY DEF Generate
<1>2. /\ UNCHANGED vars
      /\ UNCHANGED <<at, hetero, writer, master, worker, ran>>
      /\ UNCHANGED <<ip, sub, posted, got, iter, mem, alias, chan>>
      /\ phase = "lowering" /\ phase' = "init"
  BY DEF Generate, vars
<1>3. Lowering'
  BY <1>2, LoweringStep DEF ProgInv
<1>4. Q!Runnable(plan')
  BY <1>1, PlanOK DEF ProgInv
<1>5. Q!RunInit'
  <2>1. Unstarted'
    BY <1>2 DEF ProgInv, Unstarted, Q!Start, Q!Rank
  <2>2. Q!Runnable(plan)'
    BY <1>4 DEF Q!Runnable, Q!RunnableOp, Q!Kind
  <2> QED BY <1>2, <2>1, <2>2 DEF Unstarted, Q!RunInit
<1> QED BY <1>2, <1>3, <1>5, RunBeginsNext DEF ProgInv

LEMMA ProgStep == ProgInv /\ [ProgNext]_allVars => ProgInv'
<1> SUFFICES ASSUME ProgInv, [ProgNext]_allVars PROVE ProgInv'
  OBVIOUS
<1>1. CASE Lower
  <2>1. Lowering'
    BY <1>1, LoweringStep DEF Lower, ProgInv
  <2> QED BY <1>1, <2>1, ProgKept DEF Lower
<1>2. CASE Generate
  BY <1>2, GenerateStep
<1>3. ASSUME UNCHANGED vars, phase' # "lowering",
             (Q!EmitNext /\ UNCHANGED Q!runVars) \/ Q!RunNext,
             phase # "lowering"
      PROVE  ProgInv'
  <2>1. Lowering'
    BY <1>3, LoweringStep DEF ProgInv
  <2>2. [(Q!EmitNext /\ UNCHANGED Q!runVars) \/ Q!RunNext]_<<Q!emitVars, Q!runVars>>
    BY <1>3
  <2>3. Q!RunInv'
    BY <1>3, <2>2, JobFits, Q!RunStep DEF ProgInv
  <2> QED BY <1>3, <2>1, <2>3 DEF ProgInv
<1>4. CASE Emit
  <2>1. Q!EmitNext /\ UNCHANGED Q!runVars /\ UNCHANGED vars
    BY <1>4, SameModel DEF Emit, Q!runVars, vars
  <2>2. phase # "lowering" /\ phase' # "lowering"
    BY <2>1 DEF Q!EmitNext, Q!EmitTensorInitializations, Q!EmitTwoSided, Q!EmitOther,
                Q!EmitSumTransform, Q!EndFuncCalls
  <2> QED BY <1>3, <2>1, <2>2
<1>5. CASE Launch
  <2>1. Q!RunNext /\ UNCHANGED vars
    BY <1>5, SameModel DEF Launch, vars, Q!RunNext
  <2>2. phase # "lowering" /\ phase' # "lowering"
    BY <1>5 DEF Launch, P!Launch
  <2> QED BY <1>3, <2>1, <2>2
<1>6. ASSUME NEW r \in P!Rank, Run(r) PROVE ProgInv'
  <2>1. Q!RankStep(r) /\ r \in Q!Rank /\ UNCHANGED vars
    BY <1>6, SameModel DEF Run, vars
  <2>2. Q!RunNext
    BY <2>1 DEF Q!RunNext
  <2>3. phase = "running" /\ phase' = phase
    BY <2>1 DEF Q!RankStep, Q!emitVars, Q!Begin, Q!CanBegin, Q!Post, Q!CanPost, Q!Receive,
                Q!CanReceive, Q!Return, Q!CanReturn, Q!Local, Q!CanCompute, Q!Running
  <2> QED BY <1>3, <2>1, <2>2, <2>3
<1>7. CASE UNCHANGED allVars
  <2>1. UNCHANGED vars /\ UNCHANGED progVars
    BY <1>7 DEF allVars, vars
  <2>2. Lowering'
    BY <2>1, LoweringStep DEF ProgInv
  <2> QED BY <2>1, <2>2, ProgKept
<1> QED BY <1>1, <1>2, <1>4, <1>5, <1>6, <1>7 DEF ProgNext

(* The invariant holds of every graph, labelling and library. *)
THEOREM ProgInvariance == ProgSpec => []ProgInv
  BY ProgBegins, ProgStep, PTL DEF ProgSpec

(***************************************************************************)
(* Whatever the graph and its strategies, lowering, elimination, schedule  *)
(* and dispatch end in a plan that asks nothing of the ranks that the      *)
(* generated code cannot do: no Transform of a sum or for rank 0 alone, no *)
(* Gather of what is not cut.                                              *)
(***************************************************************************)
THEOREM PlansRunnable == ProgSpec => []PlanRunnable
<1>1. ProgInv => PlanRunnable
  BY SameModel DEF ProgInv, PlanRunnable, Q!RunInv, Q!Emission
<1> QED BY <1>1, ProgInvariance, PTL

(***************************************************************************)
(* Every rank stays within its lines and iterations, and leaves the        *)
(* library no more messages than it keeps, and the one it is sending.      *)
(***************************************************************************)
THEOREM ProgramTyped == ProgSpec => []RunTypeOK
<1>1. ProgInv => RunTypeOK
  <2>1. ASSUME ProgInv, phase = "running" PROVE Q!RunTypeOK
    BY <2>1, JobFits, Q!RanksTyped DEF ProgInv
  <2> QED BY <2>1, SameModel DEF RunTypeOK
<1> QED BY <1>1, ProgInvariance, PTL

(***************************************************************************)
(* In the program of every graph, a message is received by the call it was *)
(* sent for, and the ranks enter collective calls in the same order.       *)
(***************************************************************************)
THEOREM ProgramCollectives == ProgSpec => []CollectivesAgree
<1>1. ProgInv => CollectivesAgree
  <2>1. ASSUME ProgInv, phase # "lowering" PROVE Q!CollectivesAgree
    BY <2>1, JobFits, Q!Agreeing DEF ProgInv
  <2>2. ASSUME phase = "lowering" PROVE Q!CollectivesAgree
    BY <2>2 DEF Q!CollectivesAgree, Q!Running
  <2> QED BY <2>1, <2>2, SameModel DEF CollectivesAgree
<1> QED BY <1>1, ProgInvariance, PTL

(* The program of every graph leaves no message behind when it ends. *)
THEOREM ProgramDrained == ProgSpec => []Drained
<1>1. ProgInv => Drained
  <2>1. ASSUME ProgInv, phase # "lowering" PROVE Q!Drained
    BY <2>1, JobFits, Q!Draining DEF ProgInv
  <2>2. ASSUME phase = "lowering" PROVE Q!Drained
    BY <2>2 DEF Q!Drained
  <2> QED BY <2>1, <2>2, SameModel DEF Drained
<1> QED BY <1>1, ProgInvariance, PTL

(***************************************************************************)
(* The program of every graph never has all its ranks wait for one         *)
(* another, even with a library that keeps no message.                     *)
(***************************************************************************)
THEOREM ProgramNeverStuck == ProgSpec => []NoneStuck
<1>1. ProgInv => NoneStuck
  <2>1. ASSUME ProgInv, phase # "lowering" PROVE Q!NoneStuck
    BY <2>1, JobFits, Q!NotStuck DEF ProgInv
  <2>2. ASSUME phase = "lowering" PROVE Q!NoneStuck
    BY <2>2 DEF Q!NoneStuck
  <2> QED BY <2>1, <2>2, SameModel DEF NoneStuck
<1> QED BY <1>1, ProgInvariance, PTL

-----------------------------------------------------------------------------
(***************************************************************************)
(* Where the parts of the lowered graph come from: the part of a Join is   *)
(* the result of one op, Tiles are of a decentralized optimizer, and what  *)
(* is scattered is an operand or a weight.                                 *)
(***************************************************************************)
Joined(a, q) ==
  chi[a][q] # 0 => nodes[chi[a][q]].kind = "Join" /\ nodes[chi[a][q]].of = Outs(a)[q]

Wanted(t) == t \in g.training \/ \E a \in Ops : \E p \in 1 .. Len(Ins(a)) : Ins(a)[p] = t

Sourced(n) ==
  /\ nodes[n].kind = "Join" =>
       \E a \in Ops : ~g.ops[a].sgd /\ \E q \in 1 .. Len(Outs(a)) : chi[a][q] = n
  /\ nodes[n].kind = "Tile" => \E a \in Ops : Optimizer(a)
  /\ nodes[n].kind = "Scatter" => Wanted(nodes[n].of)

Parts ==
  /\ \A a \in Ops : \A q \in 1 .. Len(Outs(a)) :
       /\ ~g.ops[a].sgd => Joined(a, q)
       /\ lab[a] = <<>> \/ ~PassedResult(a, q) => chi[a][q] = 0
  /\ \A n \in Node : Sourced(n)

LEMMA PartsBegin == Init => Parts
  BY DEF Init, Parts, Joined, Node, Ops, Outs

(* Nothing is made, and no label is lost. *)
LEMMA PartsKept ==
  ASSUME Lowering, Parts, UNCHANGED <<g, chi, nodes>>,
         \A a \in Ops : lab'[a] = <<>> => lab[a] = <<>>,
         \A a \in Ops : \A q \in 1 .. Len(Outs(a)) : PassedResult(a, q) => PassedResult(a, q)'
  PROVE  Parts'
<1>1. Ops' = Ops /\ Node' = Node /\ g' = g /\ nodes' = nodes /\ chi' = chi
  BY DEF Ops, Node
<1>2. ASSUME NEW n \in Node PROVE Sourced(n)'
  BY <1>1 DEF Parts, Sourced, Wanted, Optimizer, Ops, Ins, Outs
<1>3. ASSUME NEW a \in Ops, NEW q \in 1 .. Len(Outs(a))
      PROVE  (~g.ops[a].sgd => Joined(a, q))' /\ (lab'[a] = <<>> \/ ~PassedResult(a, q)' => chi'[a][q] = 0)
  BY <1>1 DEF Parts, Joined, Outs
<1> QED BY <1>1, <1>2, <1>3 DEF Parts, Outs

(* A part is made that no op writes. *)
LEMMA PartsFilled ==
  ASSUME Lowering, Parts, UNCHANGED <<g, pc, k, chi, lab>>, pc # "outputs",
         NEW n \in NodeRecord, Create(n), n.kind \in {"Scatter", "Transform"},
         n.kind = "Scatter" => Wanted(n.of)
  PROVE  Parts'
<1> PICK new : new = NewNode
  OBVIOUS
<1>1. /\ Node' = Node \cup {new} /\ new \notin Node /\ nodes'[new] = n
      /\ \A m \in Node : nodes'[m] = nodes[m]
  BY AppendNode DEF Lowering, IInv
<1>2. Ops' = Ops /\ g' = g /\ chi' = chi /\ lab' = lab
  BY DEF Ops
<1>3. ASSUME NEW m \in Node PROVE Sourced(m)'
  BY <1>1, <1>2 DEF Parts, Sourced, Wanted, Optimizer, Ops, Ins, Outs
<1>4. Sourced(new)'
  BY <1>1, <1>2 DEF Sourced, Wanted, Ops, Ins
<1>5. ASSUME NEW a \in Ops, NEW q \in 1 .. Len(Outs(a))
      PROVE  (~g.ops[a].sgd => Joined(a, q))' /\ (lab'[a] = <<>> \/ ~PassedResult(a, q)' => chi'[a][q] = 0)
  <2>1. chi[a][q] \in 0 .. Len(nodes) /\ Len(nodes) \in Nat
    BY DEF Lowering, IInv, TypeOK
  <2>2. chi[a][q] # 0 => chi[a][q] \in Node
    BY <2>1 DEF Node
  <2>3. PassedResult(a, q)' <=> PassedResult(a, q)
    BY DEF PassedResult
  <2> QED BY <1>1, <1>2, <2>2, <2>3 DEF Parts, Joined, Outs
<1> QED BY <1>1, <1>2, <1>3, <1>4, <1>5 DEF Parts, Outs

(* A result is joined. *)
LEMMA PartsJoined == ASSUME Lowering, Parts, JoinResult PROVE Parts'
<1> DEFINE s == lab[k][Len(Ins(k)) + i]
           n == [kind |-> "Join", of |-> Outs(k)[i], pre |-> s, lay |-> s, src |-> 0]
<1> PICK new : new = NewNode
  OBVIOUS
<1>1. /\ GraphOK /\ k \in Ops /\ ~g.ops[k].sgd /\ lab[k] # <<>>
      /\ i \in 1 .. Len(Outs(k)) /\ UNCHANGED <<g, lab>>
  BY GraphIsOK DEF JoinResult, Lowering, IInv, TypeOK, Links, Phase
<1>2. n \in NodeRecord
  <2>1. s \in Strategy
    <3>1. lab[k] \in Seq(Strategy) /\ Len(lab[k]) = Len(Ins(k)) + Len(Outs(k))
      BY <1>1 DEF Lowering, IInv, TypeOK, Links, StrategyOK
    <3>2. Len(Ins(k)) \in Nat /\ Len(Outs(k)) \in Nat
      BY <1>1 DEF GraphOK
    <3>3. Len(Ins(k)) + i \in 1 .. Len(lab[k])
      BY <1>1, <3>1, <3>2
    <3> QED BY <3>1, <3>3, ElementOfSeq
  <2>2. Outs(k)[i] \in Tensor
    BY <1>1, ElementOfSeq DEF GraphOK
  <2> QED BY <2>1, <2>2 DEF NodeRecord
<1>3. Create(n)
  BY DEF JoinResult, JoinPattern
<1>3a. n.kind = "Join" /\ n.of = Outs(k)[i]
  OBVIOUS
<1> HIDE DEF n
<1>4. /\ Node' = Node \cup {new} /\ new \notin Node /\ nodes'[new] = n
      /\ new # 0 /\ \A m \in Node : nodes'[m] = nodes[m]
  BY <1>1, <1>2, <1>3, AppendNode DEF Lowering, IInv, TypeOK, NewNode
<1>0. chi[k][i] = 0 /\ \A m \in Node : m # 0
  <2>1. ~PassedResult(k, i)
    BY <1>1 DEF PassedResult, Ops, Lowering, IInv, TypeOK
  <2> QED BY <1>1, <2>1 DEF Parts, Node
<1>5. ASSUME NEW a \in Ops, NEW q \in 1 .. Len(Outs(a))
      PROVE  /\ chi'[a][q] = IF a = k /\ q = i THEN new ELSE chi[a][q]
             /\ chi[a][q] # 0 => chi[a][q] \in Node
  <2>1. chi[a] \in [1 .. Len(Outs(a)) -> 0 .. Len(nodes)] /\ Len(nodes) \in Nat
        /\ chi = [b \in Ops |-> chi[b]]
    BY DEF Lowering, IInv, TypeOK
  <2>2. chi' = [chi EXCEPT ![k][i] = NewNode]
    BY DEF JoinResult
  <2>3. chi'[a] = IF a = k THEN [chi[k] EXCEPT ![i] = NewNode] ELSE chi[a]
    BY <1>1, <2>1, <2>2
  <2> QED BY <1>1, <2>1, <2>3 DEF Node
<1>6. \E a \in Ops : ~g.ops[a].sgd /\ \E q \in 1 .. Len(Outs(a)) : chi'[a][q] = new
  BY <1>1, <1>5
<1>7. Ops' = Ops /\ g' = g /\ lab' = lab
  BY <1>1 DEF Ops
<1>8. Sourced(new)'
  BY <1>3a, <1>4, <1>6, <1>7 DEF Sourced, Ops, Outs
<1>9. ASSUME NEW m \in Node PROVE Sourced(m)'
  <2>1. Sourced(m) /\ nodes'[m] = nodes[m]
    BY <1>4 DEF Parts
  <2>2. ASSUME nodes[m].kind = "Join"
        PROVE  \E a \in Ops : ~g.ops[a].sgd /\ \E q \in 1 .. Len(Outs(a)) : chi'[a][q] = m
    <3>1. PICK a \in Ops : ~g.ops[a].sgd /\ \E q \in 1 .. Len(Outs(a)) : chi[a][q] = m
      BY <2>1, <2>2 DEF Sourced
    <3>2. PICK q \in 1 .. Len(Outs(a)) : chi[a][q] = m
      BY <3>1
    <3>3. ~(a = k /\ q = i)
      BY <1>0, <3>2
    <3> QED BY <1>5, <3>1, <3>2, <3>3
  <2> QED BY <1>7, <2>1, <2>2 DEF Sourced, Wanted, Optimizer, Ops, Ins, Outs
<1>10. ASSUME NEW a \in Ops, NEW q \in 1 .. Len(Outs(a))
       PROVE  (~g.ops[a].sgd => Joined(a, q))' /\ (lab'[a] = <<>> \/ ~PassedResult(a, q)' => chi'[a][q] = 0)
  <2>1. PassedResult(a, q)' <=> PassedResult(a, q) \/ (a = k /\ q = i)
    <3>1. pc = "outputs" /\ pc' = pc /\ k' = k /\ i' = i + 1
      BY DEF JoinResult
    <3>2. i \in Int /\ q \in Int /\ a \in Int /\ k \in Int
      BY <1>1 DEF Ops
    <3> QED BY <3>1, <3>2 DEF PassedResult
  <2>2. CASE a = k /\ q = i
    BY <1>1, <1>3a, <1>4, <1>5, <1>7, <2>1, <2>2 DEF Joined, Outs
  <2>3. CASE ~(a = k /\ q = i)
    <3>1. chi'[a][q] = chi[a][q] /\ (chi[a][q] # 0 => nodes'[chi[a][q]] = nodes[chi[a][q]])
      BY <1>4, <1>5, <2>3
    <3>2. (~g.ops[a].sgd => Joined(a, q)) /\ (lab[a] = <<>> \/ ~PassedResult(a, q) => chi[a][q] = 0)
      BY DEF Parts
    <3> QED BY <1>7, <2>1, <2>3, <3>1, <3>2 DEF Joined, Outs
  <2> QED BY <2>2, <2>3
<1> QED BY <1>4, <1>7, <1>8, <1>9, <1>10 DEF Parts, Outs

(* The result of an SGD op is no part of its own, or a Tile. *)
LEMMA TileAdded ==
  ASSUME Lowering, SgdResult
  PROVE  /\ \A m \in Node : nodes'[m] = nodes[m]
         /\ \A m \in Node' : m \notin Node => nodes'[m].kind = "Tile"
<1> DEFINE s == lab[k][4]
           n == [kind |-> "Tile", of |-> Outs(k)[1], pre |-> s, lay |-> s, src |-> par[k][1]]
<1>1. /\ GraphOK /\ k \in Ops /\ g.ops[k].sgd /\ lab[k] # <<>> /\ g' = g
      /\ Len(Ins(k)) = 3 /\ Len(Outs(k)) = 1
  BY GraphIsOK DEF SgdResult, Lowering, IInv, TypeOK, Links, Phase, GraphOK, IsOp, Ins, Outs
<1>2. n \in NodeRecord
  <2>1. lab[k] \in Seq(Strategy)
    BY <1>1 DEF Lowering, IInv, TypeOK
  <2>2. s \in Strategy
    <3>1. StrategyOK(k)
      BY <1>1 DEF Lowering, IInv, Links
    <3>2. Len(lab[k]) = 4
      BY <1>1, <3>1 DEF StrategyOK
    <3>3. 4 \in 1 .. Len(lab[k])
      BY <3>2
    <3> QED BY <2>1, <3>3, ElementOfSeq
  <2>3. Outs(k) \in Seq(Tensor) /\ 1 \in 1 .. Len(Outs(k)) /\ 1 \in 1 .. Len(Ins(k))
    BY <1>1 DEF GraphOK
  <2>4. Outs(k)[1] \in Tensor
    BY <2>3, ElementOfSeq
  <2>5. par[k][1] \in 0 .. Len(nodes) /\ Len(nodes) \in Nat
    <3>1. par[k] \in [1 .. Len(Ins(k)) -> 0 .. Len(nodes)]
      BY <1>1 DEF Lowering, IInv, TypeOK
    <3>2. Len(nodes) \in Nat
      BY DEF Lowering, IInv, TypeOK
    <3> QED BY <2>3, <3>1, <3>2
  <2> HIDE DEF s
  <2> QED BY <2>2, <2>4, <2>5 DEF NodeRecord
<1>3. nodes' = nodes \/ Create(n)
  BY DEF SgdResult
<1>4. n.kind = "Tile"
  OBVIOUS
<1> HIDE DEF n
<1>5. CASE nodes' = nodes
  BY <1>5 DEF Node
<1>6. CASE Create(n)
  BY <1>1, <1>2, <1>4, <1>6, AppendNode DEF Lowering, IInv
<1> QED BY <1>3, <1>5, <1>6

(* The result of an SGD op. *)
LEMMA PartsUpdated == ASSUME Lowering, Weights, Parts, SgdResult PROVE Parts'
<1>1. /\ GraphOK /\ k \in Ops /\ g.ops[k].sgd /\ lab[k] # <<>> /\ UNCHANGED <<g, lab>>
      /\ k' = k + 1 /\ pc' = "label" /\ pc = "sgd"
  BY GraphIsOK DEF SgdResult, Lowering, IInv, TypeOK, Links, Phase
<1>2. Optimizer(k)
  <2>1. g.ops[k].stgy = <<>>
    BY <1>1 DEF GraphOK, IsOp
  <2> QED BY <1>1, <2>1 DEF Lowering, Weights, Unlabelled
<1>3. Ops' = Ops /\ g' = g /\ lab' = lab
  BY <1>1 DEF Ops
<1>4. ASSUME NEW a \in Ops \ {k} PROVE chi'[a] = chi[a]
  <2>1. PICK v : chi' = [chi EXCEPT ![k] = v]
    BY DEF SgdResult
  <2>2. chi = [b \in Ops |-> chi[b]]
    BY DEF Lowering, IInv, TypeOK
  <2> QED BY <2>1, <2>2
<1>5. ASSUME NEW a \in Ops, NEW q \in 1 .. Len(Outs(a))
      PROVE  /\ PassedResult(a, q)' <=> PassedResult(a, q) \/ a = k
             /\ chi[a][q] # 0 => chi[a][q] \in Node
  <2>1. chi[a][q] \in 0 .. Len(nodes) /\ Len(nodes) \in Nat /\ k \in Int /\ a \in Int
    <3>1. chi[a] \in [1 .. Len(Outs(a)) -> 0 .. Len(nodes)] /\ Len(nodes) \in Nat
      BY DEF Lowering, IInv, TypeOK
    <3> QED BY <1>1, <3>1 DEF Ops
  <2>2. PassedResult(a, q)' <=> PassedResult(a, q) \/ a = k
    BY <1>1, <2>1 DEF PassedResult
  <2> QED BY <2>1, <2>2 DEF Node
<1>6. \A m \in Node : nodes'[m] = nodes[m]
  BY TileAdded
<1>7. ASSUME NEW a \in Ops, NEW q \in 1 .. Len(Outs(a))
      PROVE  (~g.ops[a].sgd => Joined(a, q))' /\ (lab'[a] = <<>> \/ ~PassedResult(a, q)' => chi'[a][q] = 0)
  <2>1. CASE a = k
    BY <1>1, <1>3, <1>5, <2>1
  <2>2. CASE a # k
    <3>1. (~g.ops[a].sgd => Joined(a, q)) /\ (lab[a] = <<>> \/ ~PassedResult(a, q) => chi[a][q] = 0)
      BY DEF Parts
    <3>2. chi'[a][q] = chi[a][q] /\ (chi[a][q] # 0 => nodes'[chi[a][q]] = nodes[chi[a][q]])
      BY <1>4, <1>5, <1>6, <2>2
    <3> QED BY <1>3, <1>5, <2>2, <3>1, <3>2 DEF Joined, Outs
  <2> QED BY <2>1, <2>2
<1>8. ASSUME NEW m \in Node PROVE Sourced(m)'
  <2>1. Sourced(m) /\ nodes'[m] = nodes[m]
    BY <1>6 DEF Parts
  <2>2. \A a \in Ops : ~g.ops[a].sgd => chi'[a] = chi[a]
    BY <1>1, <1>4
  <2> QED BY <1>3, <2>1, <2>2 DEF Sourced, Wanted, Optimizer, Ops, Ins, Outs
<1>9. ASSUME NEW m \in Node', m \notin Node PROVE Sourced(m)'
  <2>1. nodes'[m].kind = "Tile"
    BY <1>9, TileAdded
  <2>2. \E a \in Ops : Optimizer(a)'
    BY <1>1, <1>2 DEF Optimizer
  <2> QED BY <1>3, <2>1, <2>2 DEF Sourced, Ops
<1> QED BY <1>3, <1>7, <1>8, <1>9 DEF Parts, Outs

(* The record of a Transform. *)
LEMMA TransformMadeOf ==
  ASSUME Lowering, NEW t \in Tensor, NEW s \in Strategy, Seen(t), TransformPattern(t, Pre(t), s)
  PROVE  \E n \in NodeRecord : n.kind = "Transform" /\ Create(n)
<1> DEFINE from == IF tl[t].hist[Pre(t)] = 0 THEN tl[t].node ELSE tl[t].hist[Pre(t)]
           n == [kind |-> "Transform", of |-> t, pre |-> Pre(t), lay |-> s, src |-> from]
<1>1. NodeIs(from, t, Pre(t)) /\ Pre(t) \in Strategy
  BY KnownSource, KnownLayout DEF Lowering, IInv, Labels
<1>2. from \in Nat
  BY <1>1 DEF NodeIs, Node, Lowering, IInv, TypeOK
<1>3. Create(n)
  BY DEF TransformPattern
<1> HIDE DEF from
<1>4. n \in NodeRecord /\ n.kind = "Transform"
  BY <1>1, <1>2 DEF NodeRecord
<1> QED BY <1>3, <1>4

(* The cursor moves on, or an op is given its label. *)
LEMMA PassedOn ==
  ASSUME Lowering, [Next]_vars, nodes' = nodes, chi' = chi
  PROVE  /\ g' = g
         /\ \A a \in Ops : lab'[a] = <<>> => lab[a] = <<>>
         /\ \A a \in Ops : \A q \in 1 .. Len(Outs(a)) : PassedResult(a, q) => PassedResult(a, q)'
<1> USE DEF vars, Next, ForkWeight, TransformWeight, WeightsDone, SkipOp, StartOp, LabelSgd,
            SgdAssertFails, ForkOperand, ReuseOperand, TransformOperand, NullTilingLabel,
            InputsDone, SgdResult, JoinResult, OutputsDone, Finish, AtInput
<1>1. g' = g
  OBVIOUS
<1>2. ASSUME NEW a \in Ops, lab'[a] = <<>> PROVE lab[a] = <<>>
  <2>1. lab' = lab \/ LabelSgd
    OBVIOUS
  <2>2. ASSUME LabelSgd PROVE lab[a] = <<>> \/ lab'[a] = lab[a]
    <3>1. PICK v : lab' = [lab EXCEPT ![k] = v]
      BY <2>2
    <3>2. lab = [b \in Ops |-> lab[b]] /\ lab[k] = <<>>
      BY <2>2 DEF Lowering, IInv, TypeOK
    <3> HIDE DEF LabelSgd
    <3> QED BY <3>1, <3>2
  <2> QED BY <1>2, <2>1, <2>2
<1>3. ASSUME NEW a \in Ops, NEW q \in 1 .. Len(Outs(a)), PassedResult(a, q)
      PROVE  PassedResult(a, q)'
  <2>1. \/ k' = k /\ (pc = "outputs" => pc' = pc /\ i' \in {i, i + 1})
        \/ k' = k + 1
    OBVIOUS
  <2>2. k \in Int /\ i \in Int /\ a \in Int /\ q \in Int
    BY DEF Lowering, IInv, TypeOK, Ops
  <2> QED BY <1>3, <2>1, <2>2 DEF PassedResult
<1> QED BY <1>1, <1>2, <1>3

LEMMA PartsStep == Lowering /\ Weights /\ Parts /\ [Next]_vars => Parts'
<1> SUFFICES ASSUME Lowering, Weights, Parts, [Next]_vars PROVE Parts'
  OBVIOUS
<1>1. GraphOK
  BY GraphIsOK DEF Lowering, IInv, TypeOK
<1>2. CASE nodes' = nodes /\ chi' = chi
  BY <1>2, PassedOn, PartsKept
<1>3. CASE ForkWeight
  <2>1. PICK t \in g.training, s \in Strategy : NextPlan(t, s) /\ ForkPattern(t, s)
    BY <1>3 DEF ForkWeight
  <2> DEFINE n == [kind |-> "Scatter", of |-> t, pre |-> s, lay |-> s, src |-> 0]
  <2>2. t \in Tensor
    BY <1>1 DEF GraphOK
  <2>3. n \in NodeRecord /\ n.kind = "Scatter" /\ Wanted(n.of)
    BY <2>2 DEF NodeRecord, Wanted
  <2>4. Create(n)
    BY <2>1 DEF ForkPattern
  <2> HIDE DEF n
  <2> QED BY <1>3, <2>3, <2>4, PartsFilled DEF ForkWeight
<1>4. CASE TransformWeight
  <2>1. PICK t \in g.training, s \in Strategy :
          NextPlan(t, s) /\ Seen(t) /\ TransformPattern(t, selectTransPreStrategy(t), s)
    BY <1>4 DEF TransformWeight
  <2>2. t \in Tensor /\ selectTransPreStrategy(t) = Pre(t)
    BY <1>4, <2>1, PlanFacts DEF Lowering, TransformWeight, Pre
  <2>3. PICK n \in NodeRecord : n.kind = "Transform" /\ Create(n)
    BY <2>1, <2>2, TransformMadeOf
  <2> QED BY <1>4, <2>3, PartsFilled DEF TransformWeight
<1>5. CASE ForkOperand
  <2>1. Operand \in Tensor /\ Want \in Strategy /\ Wanted(Operand)
    BY <1>5, OperandFacts DEF Lowering, ForkOperand, AtInput, Wanted, Operand
  <2> DEFINE n == [kind |-> "Scatter", of |-> Operand, pre |-> Want, lay |-> Want, src |-> 0]
  <2>2. n \in NodeRecord /\ n.kind = "Scatter" /\ Wanted(n.of)
    BY <2>1 DEF NodeRecord
  <2>3. Create(n)
    BY <1>5 DEF ForkOperand, ForkPattern
  <2> HIDE DEF n
  <2> QED BY <1>5, <2>2, <2>3, PartsFilled DEF ForkOperand, AtInput
<1>6. CASE TransformOperand
  <2>1. Operand \in Tensor /\ Want \in Strategy
    BY <1>6, OperandFacts DEF Lowering, TransformOperand
  <2>2. PICK n \in NodeRecord : n.kind = "Transform" /\ Create(n)
    BY <1>6, <2>1, TransformMadeOf DEF TransformOperand
  <2> QED BY <1>6, <2>2, PartsFilled DEF TransformOperand, AtInput
<1>7. CASE JoinResult
  BY <1>7, PartsJoined
<1>8. CASE SgdResult
  BY <1>8, PartsUpdated
<1>9. \/ nodes' = nodes /\ chi' = chi
      \/ ForkWeight \/ TransformWeight \/ ForkOperand \/ TransformOperand
      \/ JoinResult \/ SgdResult
  BY DEF vars, Next, WeightsDone, SkipOp, StartOp, LabelSgd, SgdAssertFails,
     ReuseOperand, NullTilingLabel, InputsDone, OutputsDone, Finish
<1> QED BY <1>2, <1>3, <1>4, <1>5, <1>6, <1>7, <1>8, <1>9

-----------------------------------------------------------------------------
(***************************************************************************)
(* The data.  In the run of a plan whose ops read what earlier ops have    *)
(* made the memories hold what they are to hold.                           *)
(***************************************************************************)
DataFollows == phase # "lowering" /\ Q!DataPlan => Q!DataInv

LEMMA ShapesFit == Q!ShapesOK
  BY ShapeAssumption DEF Q!ShapesOK

(* What DataBegins says of a state, of the state after a step. *)
LEMMA DataBeginsNext == Q!RunInit' /\ Q!DataPlan' => Q!DataInv'
<1>1. Q!RunInit /\ Q!DataPlan => Q!DataInv
  BY JobFits, Q!DataBegins
<1> QED BY <1>1, PTL

LEMMA GenerateBegins == ASSUME ProgInv, Generate PROVE DataFollows'
<1>1. PICK b \in 0 .. MaxBuffered : plan' = PlanOf(b)
  BY DEF Generate
<1>2. /\ UNCHANGED <<at, hetero, writer, master, worker, ran>>
      /\ UNCHANGED <<ip, sub, posted, got, iter, mem, alias, chan>>
      /\ phase = "lowering" /\ phase' = "init"
  BY DEF Generate
<1>3. Q!Runnable(plan)'
  <2>1. Q!Runnable(plan')
    BY <1>1, PlanOK DEF ProgInv
  <2> QED BY <2>1 DEF Q!Runnable, Q!RunnableOp, Q!Kind
<1>4. Unstarted'
  BY <1>2 DEF ProgInv, Unstarted, Q!Start, Q!Rank
<1>5. Q!RunInit'
  BY <1>2, <1>3, <1>4 DEF Unstarted, Q!RunInit
<1> QED BY <1>5, DataBeginsNext DEF DataFollows

LEMMA DataFollowsStep == ProgInv /\ DataFollows /\ [ProgNext]_allVars => DataFollows'
<1> SUFFICES ASSUME ProgInv, DataFollows, [ProgNext]_allVars PROVE DataFollows'
  OBVIOUS
<1>1. CASE Generate
  BY <1>1, GenerateBegins
<1>2. CASE phase' = "lowering"
  BY <1>2 DEF DataFollows
<1>3. ASSUME plan' = plan, phase # "lowering",
             [(Q!EmitNext /\ UNCHANGED Q!runVars) \/ Q!RunNext]_<<Q!emitVars, Q!runVars>>
      PROVE  DataFollows'
  <2>1. Q!DataPlan' <=> Q!DataPlan
    BY <1>3, Q!DataPlanKept
  <2>2. Q!DataInv => Q!DataInv'
    BY <1>3, JobFits, ShapesFit, Q!DataStep
  <2> QED BY <1>3, <2>1, <2>2 DEF DataFollows
<1>4. ASSUME UNCHANGED progVars, phase # "lowering" PROVE DataFollows'
  <2>1. plan' = plan /\ UNCHANGED <<Q!emitVars, Q!runVars>>
    BY <1>4 DEF progVars, Q!emitVars, Q!runVars
  <2> QED BY <1>3, <1>4, <2>1
<1>5. CASE Lower \/ UNCHANGED allVars
  <2>1. UNCHANGED progVars
    BY <1>5 DEF Lower, allVars
  <2>2. phase' = phase
    BY <2>1 DEF progVars
  <2> QED BY <1>2, <1>4, <2>1, <2>2
<1>6. CASE Emit
  <2>1. Q!EmitNext /\ UNCHANGED Q!runVars
    BY <1>6, SameModel DEF Emit, Q!runVars
  <2>2. phase # "lowering" /\ plan' = plan
    BY <2>1 DEF Q!EmitNext, Q!EmitTensorInitializations, Q!EmitTwoSided, Q!EmitOther,
                Q!EmitSumTransform, Q!EndFuncCalls
  <2> QED BY <1>3, <2>1, <2>2
<1>7. CASE Launch
  <2>1. Q!RunNext
    BY <1>7, SameModel DEF Launch, Q!RunNext
  <2>2. phase # "lowering" /\ plan' = plan
    BY <1>7 DEF Launch, P!Launch
  <2> QED BY <1>3, <2>1, <2>2
<1>8. ASSUME NEW r \in P!Rank, Run(r) PROVE DataFollows'
  <2>1. Q!RankStep(r) /\ r \in Q!Rank
    BY <1>8, SameModel DEF Run
  <2>2. Q!RunNext
    BY <2>1 DEF Q!RunNext
  <2>3. phase = "running" /\ plan' = plan
    BY <2>1 DEF Q!RankStep, Q!emitVars, Q!Begin, Q!CanBegin, Q!Post, Q!CanPost, Q!Receive,
                Q!CanReceive, Q!Return, Q!CanReturn, Q!Local, Q!CanCompute, Q!Running
  <2> QED BY <1>3, <2>2, <2>3
<1> QED BY <1>1, <1>5, <1>6, <1>7, <1>8 DEF ProgNext

-----------------------------------------------------------------------------
(***************************************************************************)
(* What elimination keeps: what stays by itself, with an op the producers  *)
(* of what it reads, and nothing else.  There are as many rounds as ops,   *)
(* so the last adds nothing.                                               *)
(***************************************************************************)
LEMMA LiveClosed ==
  ASSUME Lowering
  PROVE  /\ \A o \in IrOps : Stays(o) => o \in Live
         /\ \A e \in Edges : e[2] \in Live => e[1] \in Live
         /\ \A o \in Live : Stays(o) \/ \E e \in Edges : e[1] = o /\ e[2] \in Live
<1>1. PICK N : N = Cardinality(IrOps)
  OBVIOUS
<1>2. N \in Nat /\ IsFiniteSet(IrOps)
  BY <1>1, IrOpsFinite
<1>3. PICK L \in [0 .. N -> SUBSET IrOps] :
        /\ L[0] = {o \in IrOps : Stays(o)}
        /\ \A n \in 1 .. N : L[n] = Leading(L[n - 1])
        /\ Live = L[N]
  BY <1>1, LiveRounds
<1>4. \A n \in 0 .. N : L[n] \subseteq IrOps /\ IsFiniteSet(L[n]) /\ Cardinality(L[n]) \in Nat
  BY <1>2, <1>3, FS_Subset, FS_CardinalityType
<1>5. ASSUME NEW live PROVE live \subseteq Leading(live)
  BY DEF Leading
<1>6. \A n \in 0 .. N : L[0] \subseteq L[n]
  <2> DEFINE T == {m \in 0 .. N : L[0] \subseteq L[m]}
  <2>1. 0 \in T
    BY <1>2
  <2>2. ASSUME NEW n \in 1 .. N, n - 1 \in T PROVE n \in T
    BY <1>2, <1>3, <1>5, <2>2
  <2> HIDE DEF T
  <2>3. \A n \in 0 .. N : n \in T
    BY <1>2, <2>1, <2>2, Upwards
  <2> USE DEF T
  <2> QED BY <2>3
<1>7. \A n \in 0 .. N : Leading(L[n]) = L[n] \/ Cardinality(L[n]) >= n
  <2> DEFINE T == {m \in 0 .. N : Leading(L[m]) = L[m] \/ Cardinality(L[m]) >= m}
  <2>1. 0 \in T
    BY <1>2, <1>4
  <2>2. ASSUME NEW n \in 1 .. N, n - 1 \in T PROVE n \in T
    <3>1. /\ n - 1 \in 0 .. N /\ n \in 0 .. N /\ L[n] = Leading(L[n - 1])
          /\ Leading(L[n - 1]) = L[n - 1] \/ Cardinality(L[n - 1]) >= n - 1
      BY <1>2, <1>3, <2>2
    <3>2. CASE Leading(L[n - 1]) = L[n - 1]
      BY <3>1, <3>2
    <3>3. CASE Leading(L[n - 1]) # L[n - 1]
      <4>1. L[n - 1] \subseteq L[n] /\ L[n - 1] # L[n]
        BY <1>5, <3>1, <3>3
      <4>2. /\ IsFiniteSet(L[n]) /\ Cardinality(L[n]) \in Nat
            /\ Cardinality(L[n - 1]) \in Nat
        BY <1>4, <3>1
      <4>3. Cardinality(L[n - 1]) < Cardinality(L[n])
        BY <4>1, <4>2, FS_Subset
      <4>4. Cardinality(L[n]) >= n
        BY <3>1, <3>3, <4>2, <4>3
      <4> QED BY <3>1, <4>4
    <3> QED BY <3>2, <3>3
  <2> HIDE DEF T
  <2>3. \A n \in 0 .. N : n \in T
    BY <1>2, <2>1, <2>2, Upwards
  <2> USE DEF T
  <2> QED BY <2>3
<1>8. Leading(Live) = Live
  <2>1. N \in 0 .. N
    BY <1>2
  <2>2. CASE Cardinality(L[N]) >= N
    <3>1. L[N] \subseteq IrOps /\ Cardinality(L[N]) <= Cardinality(IrOps)
      BY <1>2, <1>4, <2>1, FS_Subset
    <3>2. Cardinality(L[N]) = Cardinality(IrOps)
      BY <1>1, <1>2, <1>4, <2>1, <2>2, <3>1
    <3>3. Live = IrOps
      BY <1>2, <1>3, <3>1, <3>2, FS_Subset
    <3>4. Leading(IrOps) = IrOps
      BY DEF Leading, Edges
    <3> QED BY <3>3, <3>4
  <2> QED BY <1>3, <1>7, <2>1, <2>2
<1>9. \A n \in 0 .. N : \A o \in L[n] :
        Stays(o) \/ \E e \in Edges : e[1] = o /\ e[2] \in L[n]
  <2> DEFINE T == {m \in 0 .. N : \A o \in L[m] :
                     Stays(o) \/ \E e \in Edges : e[1] = o /\ e[2] \in L[m]}
  <2>1. 0 \in T
    BY <1>2, <1>3
  <2>2. ASSUME NEW n \in 1 .. N, n - 1 \in T PROVE n \in T
    <3>1. n - 1 \in 0 .. N /\ n \in 0 .. N /\ L[n] = Leading(L[n - 1])
      BY <1>2, <1>3, <2>2
    <3>2. ASSUME NEW o \in L[n], ~Stays(o)
          PROVE  \E e \in Edges : e[1] = o /\ e[2] \in L[n]
      <4>1. o \in L[n - 1] \/ \E e \in Edges : e[1] = o /\ e[2] \in L[n - 1]
        BY <3>1, <3>2 DEF Leading
      <4>2. \E e \in Edges : e[1] = o /\ e[2] \in L[n - 1]
        BY <2>2, <3>2, <4>1
      <4> QED BY <1>5, <3>1, <4>2
    <3> QED BY <3>1, <3>2
  <2> HIDE DEF T
  <2>3. \A n \in 0 .. N : n \in T
    BY <1>2, <2>1, <2>2, Upwards
  <2> USE DEF T
  <2> QED BY <2>3
<1>10. N \in 0 .. N
  BY <1>2
<1>11. \A o \in IrOps : Stays(o) => o \in Live
  BY <1>3, <1>6, <1>10
<1>12. \A e \in Edges : e[2] \in Live => e[1] \in Live
  BY <1>8 DEF Leading
<1> QED BY <1>3, <1>9, <1>10, <1>11, <1>12

(***************************************************************************)
(* Sorted lists every member of a finite set of numbers once.              *)
(***************************************************************************)
LEMMA Listed ==
  ASSUME NEW S \in SUBSET Nat, IsFiniteSet(S)
  PROVE  /\ Sorted(S) \in Seq(S) /\ Len(Sorted(S)) = Cardinality(S)
         /\ \A x, y \in 1 .. Len(Sorted(S)) : Sorted(S)[x] = Sorted(S)[y] => x = y
         /\ \A o \in S : \E x \in 1 .. Len(Sorted(S)) : Sorted(S)[x] = o
<1> DEFINE N == Cardinality(S)
           Below(o) == {q \in S : q < o}
           f == Sorted(S)
<1>1. N \in Nat
  BY FS_CardinalityType
<1>2. ASSUME NEW x \in 1 .. N PROVE f[x] \in S /\ Cardinality(Below(f[x])) = x - 1
  <2>1. \E o \in S : Cardinality(Below(o)) = x - 1
    BY Ranked
  <2>2. f[x] = CHOOSE o \in S : Cardinality(Below(o)) = x - 1
    BY DEF Sorted
  <2> QED BY <2>1, <2>2
<1>3. f \in [1 .. N -> S] /\ DOMAIN f = 1 .. N
  BY <1>2 DEF Sorted
<1> HIDE DEF f
<1>4. f \in Seq(S) /\ Len(f) = N
  BY <1>1, <1>3, SeqDef, LenProperties
<1>5. ASSUME NEW x \in 1 .. N, NEW y \in 1 .. N, f[x] = f[y] PROVE x = y
  <2>1. x - 1 = y - 1
    BY <1>2, <1>5
  <2> QED BY <2>1
<1>6. ASSUME NEW o \in S PROVE \E x \in 1 .. N : f[x] = o
  <2> DEFINE n == Cardinality(Below(o))
  <2>1. IsFiniteSet(Below(o)) /\ n \in Nat
    BY FS_Subset, FS_CardinalityType
  <2>2. n < N
    <3>1. Below(o) \subseteq S /\ Below(o) # S
      OBVIOUS
    <3> HIDE DEF Below
    <3> QED BY <1>1, <2>1, <3>1, FS_Subset
  <2> HIDE DEF n
  <2>3. n + 1 \in 1 .. N
    BY <1>1, <2>1, <2>2
  <2> DEFINE p == f[n + 1]
  <2>4. p \in S /\ Cardinality(Below(p)) = n
    <3>1. Cardinality(Below(f[n + 1])) = (n + 1) - 1
      BY <1>2, <2>3
    <3> QED BY <1>2, <2>1, <2>3, <3>1
  <2> HIDE DEF p
  <2>5. ASSUME NEW a \in S, NEW b \in S, a < b PROVE Cardinality(Below(a)) < Cardinality(Below(b))
    <3>1. Below(a) \subseteq Below(b) /\ Below(a) # Below(b)
      <4>1. a \in Below(b) /\ a \notin Below(a)
        BY <2>5
      <4>2. \A q \in S : q < a => q < b
        BY <2>5
      <4> QED BY <4>1, <4>2
    <3>2. IsFiniteSet(Below(a)) /\ IsFiniteSet(Below(b))
      BY FS_Subset
    <3> HIDE DEF Below
    <3>3. Cardinality(Below(a)) \in Nat /\ Cardinality(Below(b)) \in Nat
      BY <3>2, FS_CardinalityType
    <3> QED BY <3>1, <3>2, <3>3, FS_Subset
  <2>6. ~(o < p) /\ ~(p < o)
    BY <2>1, <2>4, <2>5 DEF n
  <2>7. o = p
    BY <2>4, <2>6
  <2> QED BY <2>3, <2>7 DEF p
<1> QED BY <1>1, <1>4, <1>5, <1>6 DEF f

(***************************************************************************)
(* The schedule lists what is kept once, and an op behind the producers of *)
(* what it reads.                                                          *)
(***************************************************************************)
Occurs(o, u, n) == \E y \in 1 .. n : u[y] = o

Ordered(u, above) ==
  /\ u \in Seq(Live \ above)
  /\ \A x, y \in 1 .. Len(u) : u[x] = u[y] => x = y
  /\ \A o \in Live \ above : Occurs(o, u, Len(u))
  /\ \A x \in 1 .. Len(u) : \A a \in Live : <<a, u[x]>> \in Edges => Occurs(a, u, x - 1)

LEMMA LevelOrdered ==
  ASSUME Lowering, NEW above \in SUBSET Live, NEW next, next = Behind(above), next \subseteq above,
         NEW u, Ordered(u, above)
  PROVE  Ordered(u \o Sorted(above \ next), next)
<1> DEFINE S == above \ next
           s == Sorted(S)
           v == u \o s
           U == Live \ next
<1>1. S \in SUBSET Nat /\ IsFiniteSet(S)
  <2>1. above \subseteq IrOps
    BY LiveIn
  <2> QED BY <2>1, IrOpsFinite, FS_Subset
<1>2. /\ s \in Seq(S) /\ Len(s) \in Nat
      /\ \A x, y \in 1 .. Len(s) : s[x] = s[y] => x = y
      /\ \A o \in S : \E x \in 1 .. Len(s) : s[x] = o
  <2> HIDE DEF S
  <2> QED BY <1>1, Listed, LenProperties
<1>3. u \in Seq(U) /\ u \in Seq(Live \ above) /\ Len(u) \in Nat /\ s \in Seq(U)
  <2>1. Live \ above \subseteq U /\ S \subseteq U
    OBVIOUS
  <2> HIDE DEF U, S
  <2>2. u \in Seq(Live \ above)
    BY DEF Ordered
  <2> QED BY <1>2, <2>1, <2>2
<1> HIDE DEF s
<1>4. /\ v \in Seq(U) /\ Len(v) = Len(u) + Len(s)
      /\ \A x \in 1 .. Len(u) + Len(s) : v[x] = IF x <= Len(u) THEN u[x] ELSE s[x - Len(u)]
  <2> HIDE DEF U
  <2> QED BY <1>3, ConcatProperties
<1> HIDE DEF v
<1>5. /\ \A x \in 1 .. Len(u) : x \in 1 .. Len(v) /\ v[x] = u[x] /\ u[x] \in Live \ above
      /\ \A x \in 1 .. Len(s) :
           Len(u) + x \in 1 .. Len(v) /\ v[Len(u) + x] = s[x] /\ s[x] \in S
  <2>1. \A x \in 1 .. Len(u) : x \in 1 .. Len(v) /\ v[x] = u[x]
    BY <1>2, <1>3, <1>4
  <2>2. \A x \in 1 .. Len(u) : u[x] \in Live \ above
    BY <1>3, ElementOfSeq
  <2>3. ASSUME NEW x \in 1 .. Len(s)
        PROVE  Len(u) + x \in 1 .. Len(v) /\ v[Len(u) + x] = s[x]
    <3>1. /\ Len(u) + x \in 1 .. Len(u) + Len(s) /\ ~(Len(u) + x <= Len(u))
          /\ (Len(u) + x) - Len(u) = x
      BY <1>2, <1>3
    <3>2. v[Len(u) + x] = s[(Len(u) + x) - Len(u)]
      BY <1>4, <3>1
    <3> QED BY <1>4, <3>1, <3>2
  <2>4. \A x \in 1 .. Len(s) : s[x] \in S
    <3> HIDE DEF S
    <3> QED BY <1>2, ElementOfSeq
  <2> QED BY <2>1, <2>2, <2>3, <2>4
<1>6. ASSUME NEW x \in 1 .. Len(v)
      PROVE  x \in 1 .. Len(u) \/ (x - Len(u) \in 1 .. Len(s) /\ v[x] = s[x - Len(u)])
  <2>1. x \in 1 .. Len(u) + Len(s)
    BY <1>4
  <2>2. CASE ~(x <= Len(u))
    <3>1. v[x] = s[x - Len(u)]
      BY <1>4, <2>1, <2>2
    <3>2. x - Len(u) \in 1 .. Len(s)
      BY <1>2, <1>3, <2>1, <2>2
    <3> QED BY <3>1, <3>2
  <2> QED BY <1>3, <2>1, <2>2
<1>7. ASSUME NEW x \in 1 .. Len(v), NEW y \in 1 .. Len(v), v[x] = v[y] PROVE x = y
  <2>1. x \in Int /\ y \in Int
    OBVIOUS
  <2>2. CASE x \in 1 .. Len(u) /\ y \in 1 .. Len(u)
    <3>1. u[x] = u[y]
      BY <1>5, <1>7, <2>2
    <3> QED BY <2>2, <3>1 DEF Ordered
  <2>3. CASE x \in 1 .. Len(u) /\ y \notin 1 .. Len(u)
    <3>1. v[x] \notin above
      BY <1>5, <2>3
    <3>2. v[y] \in above
      BY <1>5, <1>6, <2>3
    <3> QED BY <1>7, <3>1, <3>2
  <2>4. CASE x \notin 1 .. Len(u) /\ y \in 1 .. Len(u)
    <3>1. v[y] \notin above
      BY <1>5, <2>4
    <3>2. v[x] \in above
      BY <1>5, <1>6, <2>4
    <3> QED BY <1>7, <3>1, <3>2
  <2>5. CASE x \notin 1 .. Len(u) /\ y \notin 1 .. Len(u)
    <3>1. x - Len(u) = y - Len(u)
      <4>1. /\ x - Len(u) \in 1 .. Len(s) /\ y - Len(u) \in 1 .. Len(s)
            /\ s[x - Len(u)] = s[y - Len(u)]
        BY <1>6, <1>7, <2>5
      <4> QED BY <1>2, <4>1
    <3> QED BY <1>3, <2>1, <3>1
  <2> QED BY <2>2, <2>3, <2>4, <2>5
<1>8. ASSUME NEW o \in U PROVE Occurs(o, v, Len(v))
  <2>1. CASE o \in above
    <3>1. o \in S
      BY <2>1
    <3>2. PICK x \in 1 .. Len(s) : s[x] = o
      BY <1>2, <3>1
    <3> QED BY <1>5, <3>2 DEF Occurs
  <2>2. CASE o \notin above
    <3>1. PICK x \in 1 .. Len(u) : u[x] = o
      BY <2>2 DEF Ordered, Occurs
    <3> QED BY <1>5, <3>1 DEF Occurs
  <2> QED BY <2>1, <2>2
<1>9. ASSUME NEW x \in 1 .. Len(v), NEW a \in Live, <<a, v[x]>> \in Edges
      PROVE  Occurs(a, v, x - 1)
  <2>1. CASE x \in 1 .. Len(u)
    <3>1. PICK y \in 1 .. x - 1 : u[y] = a
      BY <1>5, <1>9, <2>1 DEF Ordered, Occurs
    <3>2. y \in 1 .. Len(u)
      BY <1>3, <2>1
    <3> QED BY <1>5, <3>1, <3>2 DEF Occurs
  <2>2. CASE x \notin 1 .. Len(u)
    <3>1. v[x] \in above \ next /\ v[x] \in Live
      BY <1>5, <1>6, <2>2
    <3>2. a \notin above
      <4>1. SUFFICES ASSUME a \in above PROVE FALSE
        OBVIOUS
      <4>2. v[x] \in {e[2] : e \in {f \in Edges : f[1] \in above}}
        BY <1>9, <4>1
      <4> QED BY <3>1, <4>2 DEF Behind
    <3>3. PICK y \in 1 .. Len(u) : u[y] = a
      BY <3>2 DEF Ordered, Occurs
    <3>4. y \in 1 .. x - 1
      BY <1>2, <1>3, <1>4, <2>2
    <3> QED BY <1>5, <3>3, <3>4 DEF Occurs
  <2> QED BY <2>1, <2>2
<1>10. Ordered(v, next)
  BY <1>4, <1>7, <1>8, <1>9 DEF Ordered
<1> QED BY <1>10 DEF v, s

LEMMA Scheduled == ASSUME Lowering PROVE \E above : Ordered(schedule, above)
<1>1. PICK N : N = Cardinality(IrOps)
  OBVIOUS
<1>2. N \in Nat
  BY <1>1, IrOpsFinite
<1>3. PICK From \in [0 .. N -> SUBSET IrOps], UpTo \in [0 .. N -> Seq(IrOps)] :
           /\ From[0] = Live /\ \A n \in 1 .. N : From[n] = Behind(From[n - 1])
           /\ UpTo[0] = <<>>
           /\ \A n \in 1 .. N : UpTo[n] = UpTo[n - 1] \o Sorted(From[n - 1] \ From[n])
           /\ schedule = UpTo[N]
  BY <1>1, ScheduleRounds
<1>4. ASSUME NEW n \in 0 .. N PROVE From[n] \subseteq Live
  <2>1. CASE n = 0
    BY <1>3, <2>1
  <2>2. CASE n # 0
    <3>1. n \in 1 .. N
      BY <2>2
    <3> QED BY <1>3, <3>1 DEF Behind
  <2> QED BY <2>1, <2>2
<1>5. \A n \in 0 .. N : Behind(From[n]) \subseteq From[n]
  <2> DEFINE T == {m \in 0 .. N : Behind(From[m]) \subseteq From[m]}
  <2>1. 0 \in T
    <3>1. 0 \in 0 .. N /\ Behind(From[0]) \subseteq From[0]
      BY <1>2, <1>3 DEF Behind
    <3> QED BY <3>1
  <2>2. ASSUME NEW n \in 1 .. N, n - 1 \in T PROVE n \in T
    <3>1. n \in 0 .. N /\ From[n] = Behind(From[n - 1]) /\ From[n] \subseteq From[n - 1]
      BY <1>3, <2>2
    <3>2. Behind(From[n]) \subseteq Behind(From[n - 1])
      BY <3>1 DEF Behind
    <3> QED BY <3>1, <3>2
  <2> HIDE DEF T
  <2>3. \A n \in 0 .. N : n \in T
    BY <1>2, <2>1, <2>2, Upwards
  <2> USE DEF T
  <2> QED BY <2>3
<1>6. \A n \in 0 .. N : Ordered(UpTo[n], From[n])
  <2> DEFINE T == {m \in 0 .. N : Ordered(UpTo[m], From[m])}
  <2>1. 0 \in T
    <3>1. Ordered(<<>>, Live)
      <4>1. <<>> \in Seq(Live \ Live) /\ Len(<<>>) = 0
        BY EmptySeq
      <4> QED BY <4>1 DEF Ordered
    <3>2. 0 \in 0 .. N
      BY <1>2
    <3> QED BY <1>3, <3>1, <3>2
  <2>2. ASSUME NEW n \in 1 .. N, n - 1 \in T PROVE n \in T
    <3>1. /\ n - 1 \in 0 .. N /\ n \in 0 .. N
          /\ From[n] = Behind(From[n - 1]) /\ From[n] \subseteq From[n - 1]
          /\ UpTo[n] = UpTo[n - 1] \o Sorted(From[n - 1] \ From[n])
          /\ Ordered(UpTo[n - 1], From[n - 1])
      <4>1. n - 1 \in 0 .. N /\ n \in 0 .. N /\ Ordered(UpTo[n - 1], From[n - 1])
        BY <1>2, <2>2
      <4>2. /\ From[n] = Behind(From[n - 1])
            /\ UpTo[n] = UpTo[n - 1] \o Sorted(From[n - 1] \ From[n])
        BY <1>3
      <4>3. From[n] \subseteq From[n - 1]
        BY <1>5, <4>1, <4>2
      <4> QED BY <4>1, <4>2, <4>3
    <3>2. From[n - 1] \subseteq Live
      BY <1>4, <3>1
    <3>3. Ordered(UpTo[n - 1] \o Sorted(From[n - 1] \ From[n]), From[n])
      BY <3>1, <3>2, LevelOrdered
    <3> QED BY <3>1, <3>3
  <2> HIDE DEF T
  <2>3. \A n \in 0 .. N : n \in T
    BY <1>2, <2>1, <2>2, Upwards
  <2> USE DEF T
  <2> QED BY <2>3
<1>7. N \in 0 .. N
  BY <1>2
<1> QED BY <1>3, <1>6, <1>7

-----------------------------------------------------------------------------
(***************************************************************************)
(* A graph that is lowered, its optimizers serial.  The ops with a label   *)
(* read and write parts, in the layouts asked for; the others, and so all  *)
(* SGD ops, originals.                                                     *)
(***************************************************************************)
Lowered ==
  Lowering /\ Weights /\ Parts /\ pc = "done" /\ \A a \in Ops : ~Optimizer(a)

LEMMA LoweredGraph ==
  ASSUME Lowered
  PROVE  /\ GraphOK /\ TrainsOnce(g) /\ Len(g.ops) \in Nat /\ g.nt \in Nat
         /\ Len(nodes) \in Nat /\ nodes \in Seq(NodeRecord)
         /\ \A n \in Node :
              /\ nodes[n] \in NodeRecord /\ Communicable(nodes[n]) /\ Sourced(n)
              /\ nodes[n].kind \in {"Scatter", "Transform", "Join"}
         /\ \A a \in Ops : g.ops[a].sgd => lab[a] = <<>>
<1>1. /\ GraphOK /\ g \in Graphs /\ nodes \in Seq(NodeRecord)
  BY GraphIsOK DEF Lowered, Lowering, IInv, TypeOK
<1>2. TrainsOnce(g)
  BY <1>1, TrainingAssumption
<1>3. Len(g.ops) \in Nat /\ g.nt \in Nat /\ Len(nodes) \in Nat
  BY <1>1 DEF GraphOK
<1>4. ASSUME NEW n \in Node
      PROVE  /\ nodes[n] \in NodeRecord /\ Communicable(nodes[n]) /\ Sourced(n)
             /\ nodes[n].kind \in {"Scatter", "Transform", "Join"}
  <2>1. nodes[n] \in NodeRecord
    BY <1>1, ElementOfSeq DEF Node
  <2>2. Communicable(nodes[n]) /\ Sourced(n)
    BY DEF Lowered, Lowering, Parts
  <2>3. nodes[n].kind # "Tile"
    BY <2>2 DEF Lowered, Sourced
  <2> QED BY <2>1, <2>2, <2>3 DEF NodeRecord
<1>5. ASSUME NEW a \in Ops, g.ops[a].sgd PROVE lab[a] = <<>>
  <2>1. lab[a] = g.ops[a].stgy
    BY DEF Lowered, Weights, Unlabelled
  <2>2. g.ops[a].stgy = <<>>
    BY <1>1, <1>5 DEF GraphOK, IsOp
  <2> QED BY <2>1, <2>2
<1> QED BY <1>1, <1>2, <1>3, <1>4, <1>5

LEMMA LoweredOperand ==
  ASSUME Lowered, NEW a \in Ops, NEW p \in 1 .. Len(Ins(a))
  PROVE  /\ Ins(a)[p] \in Tensor
         /\ lab[a] = <<>> => par[a][p] = 0
         /\ lab[a] # <<>> => /\ par[a][p] \in Node /\ nodes[par[a][p]].of = Ins(a)[p]
                             /\ nodes[par[a][p]].lay # -2
<1>1. GraphOK /\ TypeOK /\ LayoutsSound /\ StrategyOK(a)
  BY LoweredGraph DEF Lowered, Lowering, IInv, Links
<1>2. Ins(a)[p] \in Tensor
  BY <1>1, ElementOfSeq DEF GraphOK
<1>3. a < k
  BY <1>1 DEF Lowered, Weights, Finished, Ops, TypeOK
<1>4. lab[a] = <<>> => par[a][p] = 0
  BY DEF Lowered, Weights, Unlabelled
<1>5. par[a] \in [1 .. Len(Ins(a)) -> 0 .. Len(nodes)] /\ Len(nodes) \in Nat
  BY <1>1, LoweredGraph DEF TypeOK
<1>6. par[a][p] \in 0 .. Len(nodes)
  BY <1>5
<1>7. ASSUME lab[a] # <<>>
      PROVE  /\ par[a][p] \in Node /\ nodes[par[a][p]].of = Ins(a)[p]
             /\ nodes[par[a][p]].lay # -2
  <2>1. par[a][p] # 0 /\ nodes[par[a][p]].of = Ins(a)[p] /\ nodes[par[a][p]].lay = lab[a][p]
    BY <1>1, <1>3, <1>7 DEF LayoutsSound, OperandSound, PassedOperand
  <2>2. lab[a][p] # -2
    BY <1>1, <1>7 DEF StrategyOK
  <2>3. par[a][p] \in Node
    BY <1>5, <1>6, <2>1 DEF Node
  <2> QED BY <2>1, <2>2, <2>3
<1> QED BY <1>2, <1>4, <1>7

LEMMA LoweredResult ==
  ASSUME Lowered, NEW a \in Ops, ~g.ops[a].sgd, NEW q \in 1 .. Len(Outs(a))
  PROVE  /\ Outs(a)[q] \in Tensor
         /\ lab[a] = <<>> => chi[a][q] = 0
         /\ lab[a] # <<>> => /\ chi[a][q] \in Node /\ nodes[chi[a][q]].of = Outs(a)[q]
                             /\ nodes[chi[a][q]].kind = "Join"
<1>1. GraphOK /\ TypeOK /\ LayoutsSound
  BY LoweredGraph DEF Lowered, Lowering, IInv, Links
<1>2. Outs(a)[q] \in Tensor
  BY <1>1, ElementOfSeq DEF GraphOK
<1>3. a < k
  BY <1>1 DEF Lowered, Weights, Finished, Ops, TypeOK
<1>4. lab[a] = <<>> => chi[a][q] = 0
  BY DEF Lowered, Parts
<1>5. chi[a] \in [1 .. Len(Outs(a)) -> 0 .. Len(nodes)] /\ Len(nodes) \in Nat
  BY <1>1, LoweredGraph DEF TypeOK
<1>6. chi[a][q] \in 0 .. Len(nodes)
  BY <1>5
<1>7. ASSUME lab[a] # <<>>
      PROVE  /\ chi[a][q] \in Node /\ nodes[chi[a][q]].of = Outs(a)[q]
             /\ nodes[chi[a][q]].kind = "Join"
  <2>1. chi[a][q] # 0
    BY <1>1, <1>3, <1>7 DEF LayoutsSound, ResultSound, PassedResult
  <2>2. Joined(a, q)
    BY DEF Lowered, Parts
  <2> QED BY <1>5, <1>6, <2>1, <2>2 DEF Joined, Node
<1> QED BY <1>2, <1>4, <1>7

(* A tensor has one producer, at one of its results. *)
LEMMA OneProducer ==
  ASSUME Lowered, NEW a \in Ops, NEW q \in 1 .. Len(Outs(a)),
         NEW b \in Ops, NEW r \in 1 .. Len(Outs(b)), Outs(a)[q] = Outs(b)[r]
  PROVE  a = b /\ q = r
<1>1. TopoOrdered(g) /\ a \in Nat /\ b \in Nat
  BY LoweredGraph DEF GraphOK, Ops
<1>2. a \in 1 .. b \/ b \in 1 .. a
  BY <1>1 DEF Ops
<1> QED BY <1>1, <1>2 DEF TopoOrdered, Ops, Outs

(* No op produces a weight or momentum. *)
LEMMA StatesGiven ==
  ASSUME Lowered, NEW t \in States, NEW a \in Ops, NEW q \in 1 .. Len(Outs(a))
  PROVE  Outs(a)[q] # t
<1>1. GraphOK /\ TrainsOnce(g) /\ TopoOrdered(g)
  BY LoweredGraph DEF GraphOK
<1>2. PICK c \in Ops : g.ops[c].sgd /\ t \in {Ins(c)[1], Ins(c)[3]}
  BY DEF States
<1>3. CASE t = Ins(c)[1]
  <2>1. t \in g.training
    BY <1>1, <1>2, <1>3 DEF GraphOK, IsOp, Ins
  <2> QED BY <1>1, <2>1 DEF TopoOrdered, Ops, Outs
<1>4. CASE t = Ins(c)[3]
  BY <1>1, <1>2, <1>4 DEF TrainsOnce, Ops, Ins, Outs
<1> QED BY <1>2, <1>3, <1>4

(* Nothing reads what an SGD op produces, a mirror of its weight, nor is it *)
(* scattered.                                                               *)
LEMMA MirrorUnread ==
  ASSUME Lowered, NEW a \in Ops, g.ops[a].sgd, NEW q \in 1 .. Len(Outs(a))
  PROVE  ~Wanted(Outs(a)[q])
<1>1. GraphOK /\ TrainsOnce(g) /\ TopoOrdered(g)
  BY LoweredGraph DEF GraphOK
<1>2. Len(Outs(a)) = 1
  BY <1>1 DEF GraphOK, IsOp, Outs
<1>3. q = 1
  BY <1>2
<1>4. Outs(a)[q] \notin g.training
  BY <1>1 DEF TopoOrdered, Ops, Outs
<1>5. \A b \in Ops : \A p \in 1 .. Len(Ins(b)) : Ins(b)[p] # Outs(a)[q]
  BY <1>1, <1>3 DEF TrainsOnce, Ops, Ins, Outs
<1> QED BY <1>4, <1>5 DEF Wanted

-----------------------------------------------------------------------------
(***************************************************************************)
(* What is hollow is a Transform from a replica or from what is hollow.    *)
(***************************************************************************)
Emptied(f, m) ==
  m # 0 /\ nodes[m].kind = "Transform" /\ (nodes[m].pre = -1 \/ f[nodes[m].src])

LEMMA HollowIs ==
  ASSUME Lowered
  PROVE  /\ \A b \in Hollow : \E n \in Node : b = g.nt + n /\ nodes[n].kind = "Transform"
         /\ \A n \in Node : nodes[n].kind = "Transform" /\ g.nt + n \notin Hollow =>
              nodes[n].pre # -1 /\ g.nt + nodes[n].src \notin Hollow
<1> DEFINE N == Len(nodes)
           Is(f) == f = [m \in 0 .. N |-> Emptied(f, m)]
           F == CHOOSE f : Is(f)
<1>1. N \in Nat /\ Node = 1 .. N /\ g.nt \in Nat
  BY LoweredGraph DEF Node
<1>2. ASSUME NEW m \in 1 .. N, nodes[m].kind = "Transform"
      PROVE  nodes[m].src \in 1 .. m - 1
  BY <1>1, <1>2 DEF Lowered, Lowering, IInv, Labels, SourcesSound
<1>3. Hollow = {g.nt + n : n \in {m \in Node : F[m]}}
  BY DEF Hollow, Emptied
<1> HIDE DEF N
<1>4. \E f : Is(f)
  <2> DEFINE Upto(j, f) == f = [m \in 0 .. j |-> f[m]] /\ \A m \in 0 .. j : f[m] = Emptied(f, m)
             T == {j \in 0 .. N : \E f : Upto(j, f)}
  <2>1. 0 \in T
    <3> DEFINE h == [m \in 0 .. 0 |-> FALSE]
    <3>1. h = [m \in 0 .. 0 |-> h[m]]
      OBVIOUS
    <3>2. ASSUME NEW m \in 0 .. 0 PROVE h[m] = FALSE /\ m = 0
      OBVIOUS
    <3>3. Emptied(h, 0) = FALSE
      BY DEF Emptied
    <3> HIDE DEF h
    <3>4. Upto(0, h)
      BY <3>1, <3>2, <3>3
    <3> HIDE DEF Upto
    <3> QED BY <1>1, <3>4
  <2>2. ASSUME NEW j \in 1 .. N, j - 1 \in T PROVE j \in T
    <3>1. PICK f : Upto(j - 1, f)
      BY <2>2
    <3> DEFINE h == [m \in 0 .. j |-> IF m = j THEN Emptied(f, j) ELSE f[m]]
    <3>2. h = [m \in 0 .. j |-> h[m]]
      OBVIOUS
    <3>3. h[j] = Emptied(f, j) /\ \A m \in 0 .. j - 1 : h[m] = f[m] /\ f[m] = Emptied(f, m)
      BY <1>1, <3>1
    <3> HIDE DEF h
    <3>4. ASSUME NEW m \in 0 .. j PROVE Emptied(h, m) = Emptied(f, m)
      <4>1. CASE m # 0 /\ nodes[m].kind = "Transform"
        <5>1. nodes[m].src \in 1 .. m - 1
          BY <1>1, <1>2, <4>1
        <5>2. nodes[m].src \in 0 .. j - 1
          BY <1>1, <5>1
        <5>3. h[nodes[m].src] = f[nodes[m].src]
          BY <3>3, <5>2
        <5> QED BY <5>3 DEF Emptied
      <4>2. CASE m = 0 \/ nodes[m].kind # "Transform"
        BY <4>2 DEF Emptied
      <4> QED BY <4>1, <4>2
    <3>5. \A m \in 0 .. j : h[m] = Emptied(h, m)
      <4> TAKE m \in 0 .. j
      <4>1. CASE m = j
        BY <3>3, <3>4, <4>1
      <4>2. CASE m # j
        <5>1. m \in 0 .. j - 1
          BY <1>1, <4>2
        <5> QED BY <3>3, <3>4, <5>1
      <4> QED BY <4>1, <4>2
    <3>6. Upto(j, h)
      BY <3>2, <3>5
    <3> HIDE DEF Upto
    <3> QED BY <3>6
  <2> HIDE DEF T
  <2>3. N \in T
    <3>1. \A m \in 0 .. N : m \in T
      BY <1>1, <2>1, <2>2, Upwards
    <3> QED BY <1>1, <3>1
  <2>4. PICK f : Upto(N, f)
    BY <2>3 DEF T
  <2>5. [m \in 0 .. N |-> f[m]] = [m \in 0 .. N |-> Emptied(f, m)]
    BY <2>4
  <2>6. Is(f)
    BY <2>4, <2>5
  <2> HIDE DEF Is
  <2> QED BY <2>6
<1>5. Is(F)
  <2> HIDE DEF Is
  <2> QED BY <1>4
<1>6. \A m \in 0 .. N : F[m] = Emptied(F, m)
  <2> HIDE DEF F
  <2> QED BY <1>5
<1> HIDE DEF F, Is
<1>7. ASSUME NEW m \in Node
      PROVE  /\ F[m] => nodes[m].kind = "Transform"
             /\ ~F[m] => nodes[m].kind # "Transform" \/ (nodes[m].pre # -1 /\ ~F[nodes[m].src])
  <2>1. m \in 0 .. N /\ m # 0
    BY <1>1
  <2>2. F[m] = Emptied(F, m)
    BY <1>6, <2>1
  <2> QED BY <2>1, <2>2 DEF Emptied
<1>8. ASSUME NEW b \in Hollow
      PROVE  \E n \in Node : b = g.nt + n /\ nodes[n].kind = "Transform"
  BY <1>3, <1>7
<1>9. ASSUME NEW n \in Node PROVE g.nt + n \in Hollow <=> F[n]
  <2>1. ASSUME NEW m \in Node, g.nt + n = g.nt + m PROVE m = n
    <3>1. n \in Int /\ m \in Int
      BY <1>1
    <3> QED BY <1>1, <2>1, <3>1
  <2> QED BY <1>3, <2>1
<1>10. ASSUME NEW n \in Node, nodes[n].kind = "Transform", g.nt + n \notin Hollow
       PROVE  nodes[n].pre # -1 /\ g.nt + nodes[n].src \notin Hollow
  <2>1. nodes[n].pre # -1 /\ ~F[nodes[n].src]
    BY <1>7, <1>9, <1>10
  <2>2. nodes[n].src \in Node
    <3>1. nodes[n].src \in 1 .. n - 1
      BY <1>1, <1>2, <1>10
    <3> QED BY <1>1, <3>1
  <2> QED BY <1>9, <2>1, <2>2
<1> QED BY <1>8, <1>10

-----------------------------------------------------------------------------
(***************************************************************************)
(* What the ops of the lowered graph read and write.                       *)
(***************************************************************************)
LEMMA LengthOf ==
  ASSUME NEW n \in Nat, NEW f, DOMAIN f = 1 .. n, f = [x \in 1 .. n |-> f[x]]
  PROVE  Len(f) = n /\ ElementsOf(f) = {f[x] : x \in 1 .. n}
<1> DEFINE S == {f[x] : x \in 1 .. n}
<1>1. f \in [1 .. n -> S]
  OBVIOUS
<1> HIDE DEF S
<1>2. f \in Seq(S)
  BY <1>1, SeqDef
<1>3. DOMAIN f = 1 .. Len(f) /\ Len(f) \in Nat
  BY <1>2, LenProperties
<1>4. Len(f) = n
  BY <1>3
<1> QED BY <1>4 DEF ElementsOf, S

LEMMA OneElement ==
  \A v : ElementsOf(<<v>>) = {v} /\ {<<v>>[x] : x \in DOMAIN <<v>>} = {v}
  BY DEF ElementsOf

LEMMA NoElement == ElementsOf(<<>>) = {}
  BY DEF ElementsOf

(* The communication op of a node, and the node of a communication op. *)
LEMMA CommOps ==
  ASSUME Lowered
  PROVE  /\ \A n \in Node : /\ CommOp(n) \in IrOps \ Ops /\ NodeOf(CommOp(n)) = nodes[n]
                            /\ Part(CommOp(n)) = g.nt + n /\ CommOp(n) - Len(g.ops) = n
         /\ \A o \in IrOps \ Ops : \E n \in Node : o = CommOp(n)
<1>1. Len(g.ops) \in Nat /\ g.nt \in Nat /\ Len(nodes) \in Nat
  BY LoweredGraph
<1>2. ASSUME NEW n \in Node
      PROVE  /\ CommOp(n) \in IrOps \ Ops /\ NodeOf(CommOp(n)) = nodes[n]
             /\ Part(CommOp(n)) = g.nt + n /\ CommOp(n) - Len(g.ops) = n
  <2>1. CommOp(n) \in Int /\ CommOp(n) - Len(g.ops) = n /\ CommOp(n) \notin Ops
    BY <1>1 DEF CommOp, Node, Ops
  <2>2. nodes[n].kind # "Tile"
    BY LoweredGraph
  <2>3. g.nt + CommOp(n) - Len(g.ops) = g.nt + n
    BY <1>1 DEF CommOp, Node
  <2> QED BY <2>1, <2>2, <2>3 DEF IrOps, NodeOf, Part
<1>3. ASSUME NEW o \in IrOps \ Ops PROVE \E n \in Node : o = CommOp(n)
  BY DEF IrOps
<1> QED BY <1>2, <1>3

LEMMA OpOperands ==
  ASSUME Lowered, NEW a \in Ops
  PROVE  /\ DOMAIN OpIns(a) = 1 .. Len(Ins(a)) /\ Len(OpIns(a)) = Len(Ins(a))
         /\ Len(Ins(a)) \in Nat
         /\ \A p \in 1 .. Len(Ins(a)) : OpIns(a)[p] = Buf(Ins(a)[p], par[a][p])
<1>1. Len(Ins(a)) \in Nat
  <2>1. Ins(a) \in Seq(Tensor)
    BY LoweredGraph DEF GraphOK
  <2> QED BY <2>1
<1> DEFINE f == OpIns(a)
<1>2. f = [p \in 1 .. Len(Ins(a)) |-> Buf(Ins(a)[p], par[a][p])]
  BY DEF OpIns
<1> HIDE DEF f
<1>3. /\ DOMAIN f = 1 .. Len(Ins(a)) /\ f = [p \in 1 .. Len(Ins(a)) |-> f[p]]
      /\ \A p \in 1 .. Len(Ins(a)) : f[p] = Buf(Ins(a)[p], par[a][p])
  BY <1>2
<1>4. Len(f) = Len(Ins(a))
  BY <1>1, <1>3, LengthOf
<1> QED BY <1>1, <1>3, <1>4 DEF f

LEMMA OpResults ==
  ASSUME Lowered, NEW a \in Ops, ~g.ops[a].sgd
  PROVE  /\ DOMAIN OpOuts(a) = 1 .. Len(Outs(a))
         /\ ElementsOf(OpOuts(a)) = {Buf(Outs(a)[q], chi[a][q]) : q \in 1 .. Len(Outs(a))}
         /\ {OpOuts(a)[x] : x \in DOMAIN OpOuts(a)} = ElementsOf(OpOuts(a))
<1>1. Len(Outs(a)) \in Nat
  <2>1. Outs(a) \in Seq(Tensor)
    BY LoweredGraph DEF GraphOK
  <2> QED BY <2>1
<1> DEFINE f == OpOuts(a)
<1>2. f = [q \in 1 .. Len(Outs(a)) |-> Buf(Outs(a)[q], chi[a][q])]
  BY DEF OpOuts
<1> HIDE DEF f
<1>3. /\ DOMAIN f = 1 .. Len(Outs(a)) /\ f = [q \in 1 .. Len(Outs(a)) |-> f[q]]
      /\ \A q \in 1 .. Len(Outs(a)) : f[q] = Buf(Outs(a)[q], chi[a][q])
  BY <1>2
<1>4. ElementsOf(f) = {f[q] : q \in 1 .. Len(Outs(a))}
  BY <1>1, <1>3, LengthOf
<1>5. {f[q] : q \in 1 .. Len(Outs(a))} = {Buf(Outs(a)[q], chi[a][q]) : q \in 1 .. Len(Outs(a))}
  BY <1>3
<1> QED BY <1>3, <1>4, <1>5 DEF f

(***************************************************************************)
(* A tensor that an op produces is written by that op, or by the Join of   *)
(* the part that it writes; a part that is filled from another buffer, by  *)
(* the communication op beside it; the part of a Join, by the op that      *)
(* produces its tensor.                                                    *)
(***************************************************************************)
MakesTensor(o, v) ==
  /\ v \in Tensor
  /\ \E a \in Ops : \E q \in 1 .. Len(Outs(a)) :
       /\ ~g.ops[a].sgd /\ Outs(a)[q] = v
       /\ o = IF chi[a][q] = 0 THEN a ELSE CommOp(chi[a][q])

MakesPart(o, v) ==
  \E m \in Node :
    /\ v = g.nt + m
    /\ nodes[m].kind # "Join" => o = CommOp(m)
    /\ nodes[m].kind = "Join" =>
         o \in Ops /\ \E q \in 1 .. Len(Outs(o)) : nodes[m].of = Outs(o)[q]

LEMMA MakerOf ==
  ASSUME Lowered, NEW o \in IrOps, NEW v \in ElementsOf(OpOuts(o))
  PROVE  MakesTensor(o, v) \/ MakesPart(o, v)
<1>1. CASE o \in Ops
  <2>1. ~g.ops[o].sgd
    BY <1>1, NoElement DEF OpOuts
  <2>2. PICK q \in 1 .. Len(Outs(o)) : v = Buf(Outs(o)[q], chi[o][q])
    BY <1>1, <2>1, OpResults
  <2>3. CASE lab[o] = <<>>
    <3>1. chi[o][q] = 0 /\ Outs(o)[q] \in Tensor
      BY <1>1, <2>1, <2>3, LoweredResult
    <3> QED BY <1>1, <2>1, <2>2, <3>1 DEF MakesTensor, Buf
  <2>4. CASE lab[o] # <<>>
    <3>1. chi[o][q] \in Node /\ nodes[chi[o][q]].of = Outs(o)[q] /\ nodes[chi[o][q]].kind = "Join"
      BY <1>1, <2>1, <2>4, LoweredResult
    <3>2. v = g.nt + chi[o][q]
      BY <2>2, <3>1 DEF Buf, Node
    <3> QED BY <1>1, <3>1, <3>2 DEF MakesPart
  <2> QED BY <2>3, <2>4
<1>2. CASE o \notin Ops
  <2>1. PICK n \in Node : o = CommOp(n)
    BY <1>2, CommOps
  <2>2. /\ NodeOf(o) = nodes[n] /\ Part(o) = g.nt + n
        /\ nodes[n].kind \in {"Scatter", "Transform", "Join"} /\ Sourced(n) /\ nodes[n] \in NodeRecord
    BY <2>1, CommOps, LoweredGraph
  <2>3. CASE nodes[n].kind = "Join"
    <3>1. v = nodes[n].of
      BY <1>2, <2>2, <2>3, OneElement DEF OpOuts
    <3>2. PICK a \in Ops : ~g.ops[a].sgd /\ \E q \in 1 .. Len(Outs(a)) : chi[a][q] = n
      BY <2>2, <2>3 DEF Sourced
    <3>3. PICK q \in 1 .. Len(Outs(a)) : chi[a][q] = n
      BY <3>2
    <3>4. n # 0
      BY DEF Node
    <3>5. Outs(a)[q] = v
      BY <3>1, <3>2, <3>3, <3>4 DEF Lowered, Parts, Joined
    <3>6. v \in Tensor
      BY <2>2, <3>1 DEF NodeRecord
    <3> QED BY <2>1, <3>2, <3>3, <3>4, <3>5, <3>6 DEF MakesTensor
  <2>4. CASE nodes[n].kind # "Join"
    <3>1. v = g.nt + n
      BY <1>2, <2>2, <2>4, OneElement, NoElement DEF OpOuts
    <3> QED BY <2>1, <2>4, <3>1 DEF MakesPart
  <2> QED BY <2>3, <2>4
<1> QED BY <1>1, <1>2

(* So a buffer has one writer. *)
LEMMA OneMaker ==
  ASSUME Lowered, NEW o \in IrOps, NEW r \in IrOps,
         NEW v \in ElementsOf(OpOuts(o)), v \in ElementsOf(OpOuts(r))
  PROVE  o = r
<1>1. MakesTensor(o, v) \/ MakesPart(o, v)
  BY MakerOf
<1>2. MakesTensor(r, v) \/ MakesPart(r, v)
  BY MakerOf
<1>3. g.nt \in Nat
  BY LoweredGraph
<1>4. \A m, n \in Node : g.nt + m = g.nt + n => m = n
  BY <1>3 DEF Node
<1>5. \A m \in Node : g.nt + m \notin Tensor
  BY <1>3 DEF Node, Tensor
<1>6. CASE MakesTensor(o, v) /\ MakesTensor(r, v)
  <2>1. PICK a \in Ops : \E q \in 1 .. Len(Outs(a)) :
          Outs(a)[q] = v /\ o = IF chi[a][q] = 0 THEN a ELSE CommOp(chi[a][q])
    BY <1>6 DEF MakesTensor
  <2>1a. PICK q \in 1 .. Len(Outs(a)) :
          Outs(a)[q] = v /\ o = IF chi[a][q] = 0 THEN a ELSE CommOp(chi[a][q])
    BY <2>1
  <2>2. PICK b \in Ops : \E s \in 1 .. Len(Outs(b)) :
          Outs(b)[s] = v /\ r = IF chi[b][s] = 0 THEN b ELSE CommOp(chi[b][s])
    BY <1>6 DEF MakesTensor
  <2>2a. PICK s \in 1 .. Len(Outs(b)) :
          Outs(b)[s] = v /\ r = IF chi[b][s] = 0 THEN b ELSE CommOp(chi[b][s])
    BY <2>2
  <2>3. a = b /\ q = s
    BY <2>1a, <2>2a, OneProducer
  <2> QED BY <2>1a, <2>2a, <2>3
<1>7. CASE MakesPart(o, v) /\ MakesPart(r, v)
  <2>1. PICK m \in Node :
    /\ v = g.nt + m
    /\ nodes[m].kind # "Join" => o = CommOp(m)
    /\ nodes[m].kind = "Join" =>
         o \in Ops /\ \E q \in 1 .. Len(Outs(o)) : nodes[m].of = Outs(o)[q]
    BY <1>7 DEF MakesPart
  <2>2. /\ nodes[m].kind # "Join" => r = CommOp(m)
        /\ nodes[m].kind = "Join" =>
             r \in Ops /\ \E q \in 1 .. Len(Outs(r)) : nodes[m].of = Outs(r)[q]
    BY <1>4, <1>7, <2>1 DEF MakesPart
  <2>3. CASE nodes[m].kind = "Join"
    BY <2>1, <2>2, <2>3, OneProducer
  <2> QED BY <2>1, <2>2, <2>3
<1>8. ~(MakesTensor(o, v) /\ MakesPart(r, v)) /\ ~(MakesPart(o, v) /\ MakesTensor(r, v))
  BY <1>5 DEF MakesTensor, MakesPart
<1> QED BY <1>1, <1>2, <1>6, <1>7, <1>8

(* What is produced is written, and so is every part not cut off. *)
LEMMA Maker ==
  ASSUME Lowered
  PROVE  /\ \A a \in Ops : \A q \in 1 .. Len(Outs(a)) : ~g.ops[a].sgd =>
              \E o \in IrOps : Outs(a)[q] \in ElementsOf(OpOuts(o))
         /\ \A m \in Node \ cut : \E o \in IrOps : g.nt + m \in ElementsOf(OpOuts(o))
<1>1. ASSUME NEW a \in Ops, NEW q \in 1 .. Len(Outs(a)), ~g.ops[a].sgd
      PROVE  \E o \in IrOps : Outs(a)[q] \in ElementsOf(OpOuts(o))
  <2>1. CASE lab[a] = <<>>
    <3>1. Buf(Outs(a)[q], chi[a][q]) = Outs(a)[q]
      BY <1>1, <2>1, LoweredResult DEF Buf
    <3> QED BY <1>1, <3>1, OpResults DEF IrOps
  <2>2. CASE lab[a] # <<>>
    <3>1. /\ chi[a][q] \in Node /\ nodes[chi[a][q]].of = Outs(a)[q]
          /\ nodes[chi[a][q]].kind = "Join"
      BY <1>1, <2>2, LoweredResult
    <3> DEFINE o == CommOp(chi[a][q])
    <3>2. o \in IrOps /\ o \notin Ops /\ NodeOf(o) = nodes[chi[a][q]]
      BY <3>1, CommOps
    <3> HIDE DEF o
    <3>3. OpOuts(o) = <<Outs(a)[q]>>
      BY <3>1, <3>2 DEF OpOuts
    <3> QED BY <3>2, <3>3, OneElement
  <2> QED BY <2>1, <2>2
<1>2. ASSUME NEW m \in Node \ cut PROVE \E o \in IrOps : g.nt + m \in ElementsOf(OpOuts(o))
  <2>1. CASE nodes[m].kind = "Join"
    <3>1. PICK a \in Ops : ~g.ops[a].sgd /\ \E q \in 1 .. Len(Outs(a)) : chi[a][q] = m
      BY <2>1, LoweredGraph DEF Sourced
    <3>2. PICK q \in 1 .. Len(Outs(a)) : chi[a][q] = m
      BY <3>1
    <3>3. Buf(Outs(a)[q], chi[a][q]) = g.nt + m
      BY <3>2 DEF Buf, Node
    <3> QED BY <3>1, <3>3, OpResults DEF IrOps
  <2>2. CASE nodes[m].kind # "Join"
    <3> DEFINE o == CommOp(m)
    <3>1. o \in IrOps /\ o \notin Ops /\ NodeOf(o) = nodes[m] /\ Part(o) = g.nt + m
          /\ o - Len(g.ops) = m
      BY CommOps
    <3> HIDE DEF o
    <3>2. OpOuts(o) = <<g.nt + m>>
      BY <2>2, <3>1 DEF OpOuts
    <3> QED BY <3>1, <3>2, OneElement
  <2> QED BY <2>1, <2>2
<1> QED BY <1>1, <1>2

(* What an op reads is an original that the graph reads, or a part. *)
LEMMA OperandFrom ==
  ASSUME Lowered, NEW o \in IrOps, NEW v \in ElementsOf(OpIns(o))
  PROVE  (v \in Tensor /\ Wanted(v)) \/ \E m \in Node : v = g.nt + m
<1>1. CASE o \in Ops
  <2>1. PICK p \in 1 .. Len(Ins(o)) : v = Buf(Ins(o)[p], par[o][p])
    BY <1>1, OpOperands DEF ElementsOf
  <2>2. CASE lab[o] = <<>>
    <3>1. v = Ins(o)[p] /\ v \in Tensor
      BY <1>1, <2>1, <2>2, LoweredOperand DEF Buf
    <3> QED BY <1>1, <3>1 DEF Wanted
  <2>3. CASE lab[o] # <<>>
    <3>1. par[o][p] \in Node
      BY <1>1, <2>3, LoweredOperand
    <3> QED BY <2>1, <3>1 DEF Buf, Node
  <2> QED BY <2>2, <2>3
<1>2. CASE o \notin Ops
  <2>1. PICK n \in Node : o = CommOp(n)
    BY <1>2, CommOps
  <2>2. /\ NodeOf(o) = nodes[n] /\ Part(o) = g.nt + n
        /\ nodes[n].kind \in {"Scatter", "Transform", "Join"} /\ Sourced(n) /\ nodes[n] \in NodeRecord
    BY <2>1, CommOps, LoweredGraph
  <2>3. CASE nodes[n].kind = "Join"
    BY <1>2, <2>2, <2>3, OneElement DEF OpIns
  <2>4. CASE nodes[n].kind = "Transform"
    <3>1. v = g.nt + nodes[n].src
      BY <1>2, <2>2, <2>4, OneElement DEF OpIns
    <3>2. nodes[n].src \in 1 .. n - 1
      BY <2>4 DEF Lowered, Lowering, IInv, Labels, SourcesSound
    <3>3. nodes[n].src \in Node
      BY <3>2, LoweredGraph DEF Node
    <3> QED BY <3>1, <3>3
  <2>5. CASE nodes[n].kind = "Scatter"
    <3>1. v = nodes[n].of
      BY <1>2, <2>2, <2>5, OneElement DEF OpIns
    <3>2. v \in Tensor
      BY <2>2, <3>1 DEF NodeRecord
    <3> QED BY <2>2, <2>5, <3>1, <3>2 DEF Sourced
  <2> QED BY <2>2, <2>3, <2>4, <2>5
<1> QED BY <1>1, <1>2

(* A Scatter that was cut off leads nowhere. *)
LEMMA CutsGone ==
  ASSUME Lowered, NEW o \in Live, o \notin Ops, NodeOf(o).kind # "Join"
  PROVE  OpOuts(o) = <<Part(o)>>
<1>1. OpOuts(o) = <<>> \/ OpOuts(o) = <<Part(o)>>
  BY DEF OpOuts
<1>2. SUFFICES ASSUME OpOuts(o) = <<>> PROVE FALSE
  BY <1>1
<1>3. ElementsOf(OpOuts(o)) = {}
  BY <1>2, NoElement
<1>4. ~Stays(o)
  BY <1>2, <1>3 DEF Stays, LogicalOut
<1>5. ~\E e \in Edges : e[1] = o
  BY <1>3 DEF Edges
<1> QED BY <1>4, <1>5, LiveClosed DEF Lowered

(***************************************************************************)
(* What is scheduled reads a state, an input, or what is scheduled before  *)
(* it.                                                                     *)
(***************************************************************************)
LEMMA ReadsEarlier ==
  ASSUME Lowered, ~g.benchmark, NEW j \in 1 .. Len(schedule),
         NEW v \in ElementsOf(OpIns(schedule[j]))
  PROVE  \/ v \in Tensor /\ ~Produced(v)
         \/ \E i2 \in 1 .. j - 1 : v \in ElementsOf(OpOuts(schedule[i2]))
<1>1. Lowering /\ Live \subseteq IrOps
  BY LiveIn DEF Lowered
<1>2. PICK above : Ordered(schedule, above)
  BY <1>1, Scheduled
<1>3. schedule[j] \in Live /\ schedule[j] \in IrOps
  BY <1>1, <1>2, ElementOfSeq DEF Ordered
<1>4. SUFFICES ASSUME ~(v \in Tensor /\ ~Produced(v))
               PROVE  \E i2 \in 1 .. j - 1 : v \in ElementsOf(OpOuts(schedule[i2]))
  OBVIOUS
<1>5. ASSUME v \in Tensor, Wanted(v) PROVE \E o \in IrOps : v \in ElementsOf(OpOuts(o))
  <2>1. PICK a \in Ops : \E q \in 1 .. Len(Outs(a)) : Outs(a)[q] = v
    BY <1>4, <1>5 DEF Produced
  <2>2. PICK q \in 1 .. Len(Outs(a)) : Outs(a)[q] = v
    BY <2>1
  <2>3. ~g.ops[a].sgd
    BY <1>5, <2>2, MirrorUnread
  <2> QED BY <2>2, <2>3, Maker
<1>6. ASSUME NEW m \in Node, v = g.nt + m PROVE \E o \in IrOps : v \in ElementsOf(OpOuts(o))
  <2>1. cut = {}
    BY DEF Lowered, Weights, Finished
  <2> QED BY <1>6, <2>1, Maker
<1>7. PICK o \in IrOps : v \in ElementsOf(OpOuts(o))
  BY <1>3, <1>5, <1>6, OperandFrom
<1>8. <<o, schedule[j]>> \in Edges
  BY <1>3, <1>7 DEF Edges
<1>9. o \in Live
  BY <1>1, <1>3, <1>8, LiveClosed
<1>10. Occurs(o, schedule, j - 1)
  BY <1>2, <1>8, <1>9 DEF Ordered
<1> QED BY <1>7, <1>10 DEF Occurs

-----------------------------------------------------------------------------
(***************************************************************************)
(* The plan of a lowered graph, buffer by buffer and op by op.             *)
(***************************************************************************)
LEMMA PlanIs ==
  ASSUME Lowered, NEW b, NEW p, p = PlanOf(b)
  PROVE  /\ Len(p.lay) = g.nt + Len(nodes)
         /\ \A t \in Tensor : t \in 1 .. Len(p.lay) /\ p.of[t] = t /\ p.lay[t] = Q!Whole
         /\ \A n \in Node : /\ g.nt + n \in 1 .. Len(p.lay) /\ g.nt + n \notin Tensor
                            /\ p.of[g.nt + n] = nodes[n].of /\ p.lay[g.nt + n] = nodes[n].lay
         /\ \A x \in 1 .. Len(p.lay) : x \in Tensor \/ \E n \in Node : x = g.nt + n
         /\ Len(p.ops) = Len(schedule) /\ schedule \in Seq(Live)
         /\ \A j \in 1 .. Len(schedule) :
              p.ops[j] = PlanOp(schedule[j]) /\ schedule[j] \in Live /\ schedule[j] \in IrOps
         /\ p.states = States /\ p.hollow = Hollow /\ p.benchmark = g.benchmark
         /\ p.data = {t \in Tensor : t \notin States /\ ~Produced(t)}
<1> DEFINE M == g.nt + Len(nodes)
           lay == p.lay
           ops == p.ops
<1>1. g.nt \in Nat /\ Len(nodes) \in Nat /\ M \in Nat /\ Node = 1 .. Len(nodes)
  BY LoweredGraph DEF Node
<1>2. /\ lay = [x \in 1 .. M |-> IF x <= g.nt THEN P!Whole ELSE nodes[x - g.nt].lay]
      /\ p.of = [x \in 1 .. M |-> IF x <= g.nt THEN x ELSE nodes[x - g.nt].of]
      /\ ops = [x \in 1 .. Len(schedule) |-> PlanOp(schedule[x])]
      /\ p.states = States /\ p.hollow = Hollow /\ p.benchmark = g.benchmark
      /\ p.data = {t \in Tensor : t \notin States /\ ~Produced(t)}
  BY DEF PlanOf
<1>3. P!Whole = Q!Whole
  BY DEF P!Whole, Q!Whole
<1>4. Lowering /\ Live \subseteq IrOps
  BY LiveIn DEF Lowered
<1>5. schedule \in Seq(Live) /\ Len(schedule) \in Nat
  <2>1. PICK above : Ordered(schedule, above)
    BY <1>4, Scheduled
  <2>2. schedule \in Seq(Live \ above) /\ Live \ above \subseteq Live
    BY <2>1 DEF Ordered
  <2>3. schedule \in Seq(Live)
    BY <2>2
  <2> QED BY <2>3, LenProperties
<1> DEFINE order == schedule
<1>6. DOMAIN ops = 1 .. Len(order) /\ ops = [x \in 1 .. Len(order) |-> ops[x]]
      /\ \A j \in 1 .. Len(order) : ops[j] = PlanOp(order[j])
  BY <1>2
<1>7. Len(ops) = Len(order)
  <2> HIDE DEF ops, order
  <2>1. Len(order) \in Nat
    BY <1>5 DEF order
  <2> QED BY <1>6, <2>1, LengthOf
<1>8. \A j \in 1 .. Len(order) : order[j] \in Live /\ order[j] \in IrOps
  BY <1>4, <1>5, ElementOfSeq
<1>9. Len(lay) = M
  <2>1. DOMAIN lay = 1 .. M /\ lay = [x \in 1 .. M |-> lay[x]]
    BY <1>2
  <2> HIDE DEF lay, M
  <2> QED BY <1>1, <2>1, LengthOf
<1> HIDE DEF lay, ops
<1>10. ASSUME NEW t \in Tensor PROVE t \in 1 .. M /\ p.of[t] = t /\ lay[t] = Q!Whole
  <2>1. t \in 1 .. M /\ t <= g.nt
    BY <1>1 DEF Tensor
  <2> QED BY <1>2, <1>3, <2>1
<1>11. ASSUME NEW n \in Node
       PROVE  /\ g.nt + n \in 1 .. M /\ g.nt + n \notin Tensor
              /\ p.of[g.nt + n] = nodes[n].of /\ lay[g.nt + n] = nodes[n].lay
  <2>1. g.nt + n \in 1 .. M /\ ~(g.nt + n <= g.nt) /\ (g.nt + n) - g.nt = n
    BY <1>1
  <2>2. g.nt + n \notin Tensor
    BY <1>1, <2>1 DEF Tensor
  <2> HIDE DEF M
  <2> QED BY <1>2, <2>1, <2>2
<1>12. ASSUME NEW x \in 1 .. M PROVE x \in Tensor \/ \E n \in Node : x = g.nt + n
  <2>1. CASE x <= g.nt
    BY <1>1, <2>1 DEF Tensor
  <2>2. CASE ~(x <= g.nt)
    <3>1. x - g.nt \in Node /\ x = g.nt + (x - g.nt)
      BY <1>1, <2>2
    <3> QED BY <3>1
  <2> QED BY <2>1, <2>2
<1> HIDE DEF M
<1>13. Len(p.lay) = M /\ p.lay = lay /\ Len(p.ops) = Len(schedule) /\ p.ops = ops
  BY <1>7, <1>9 DEF lay, ops
<1> QED BY <1>2, <1>5, <1>6, <1>8, <1>10, <1>11, <1>12, <1>13 DEF M

(* A layout is one that the ranks have a shape for. *)
LEMMA LayoutsCut ==
  ASSUME Lowered, NEW n \in Node
  PROVE  /\ nodes[n].lay \in {-2, -1, 0, 1} /\ nodes[n].pre \in {-2, -1, 0, 1}
         /\ nodes[n].lay # Q!Whole /\ nodes[n].of \in Tensor
<1>1. nodes[n].lay \in Strategy /\ nodes[n].pre \in Strategy /\ nodes[n].of \in Tensor
  BY LoweredGraph DEF NodeRecord
<1>2. \A s \in Strategy : s \in {-2, -1, 0, 1}
  BY ShapeAssumption, AxisAssumption DEF Strategy
<1> QED BY <1>1, <1>2 DEF Q!Whole

LEMMA TensorsFlow ==
  ASSUME Lowered, NEW b, NEW p, p = PlanOf(b), plan' = p, NEW x \in 1 .. Len(p.lay)
  PROVE  Q!Tensors(x)'
<1>1. Q!Buffers' = 1 .. Len(p.lay)
  BY DEF Q!Buffers
<1>2. CASE x \in Tensor
  <2>1. x \in 1 .. Len(p.lay) /\ p.of[x] = x /\ p.lay[x] = Q!Whole
    BY <1>2, PlanIs
  <2>2. x \notin p.hollow
    <3>1. \A n \in Node : x # g.nt + n
      BY <1>2, PlanIs
    <3> QED BY <3>1, PlanIs, HollowIs
  <2> QED BY <1>1, <2>1, <2>2 DEF Q!Tensors, Q!Whole
<1>3. ASSUME NEW n \in Node, x = g.nt + n PROVE Q!Tensors(x)'
  <2>1. /\ p.of[x] = nodes[n].of /\ p.lay[x] = nodes[n].lay
    BY <1>3, PlanIs
  <2>2. /\ nodes[n].lay \in {-2, -1, 0, 1} /\ nodes[n].lay # Q!Whole /\ nodes[n].of \in Tensor
    BY LayoutsCut
  <2>3. /\ nodes[n].of \in 1 .. Len(p.lay) /\ p.of[nodes[n].of] = nodes[n].of
        /\ p.lay[nodes[n].of] = Q!Whole
    BY <2>2, PlanIs
  <2> QED BY <1>1, <2>1, <2>2, <2>3 DEF Q!Tensors, Q!Whole
<1> QED BY <1>2, <1>3, PlanIs

(* An op is for all processes just if it has a label. *)
LEMMA ParallelJust ==
  ASSUME Lowered, NEW a \in Ops PROVE isParallel(a) <=> lab[a] # <<>>
<1>1. 1 \in 1 .. Len(Ins(a))
  <2>1. Ins(a) \in Seq(Tensor) /\ Ins(a) # <<>>
    BY LoweredGraph DEF GraphOK, TrainsOnce, Ops, Ins
  <2>2. Len(Ins(a)) \in Nat \ {0}
    BY <2>1, EmptySeq
  <2> QED BY <2>2
<1>2. ASSUME lab[a] = <<>> PROVE ~isParallel(a)
  BY <1>1, <1>2, LoweredOperand DEF isParallel
<1>3. ASSUME lab[a] # <<>> PROVE isParallel(a)
  <2>1. ~g.ops[a].sgd
    BY <1>3, LoweredGraph
  <2>2. par[a][1] # 0
    BY <1>1, <1>3, LoweredOperand DEF Node
  <2>3. ASSUME Outs(a) # <<>> PROVE chi[a][1] # 0
    <3>1. Outs(a) \in Seq(Tensor)
      BY LoweredGraph DEF GraphOK
    <3>2. Len(Outs(a)) \in Nat \ {0}
      BY <2>3, <3>1, EmptySeq
    <3>3. 1 \in 1 .. Len(Outs(a))
      BY <3>2
    <3> QED BY <1>3, <2>1, <3>3, LoweredResult DEF Node
  <2> QED BY <2>1, <2>2, <2>3 DEF isParallel
<1> QED BY <1>2, <1>3

LEMMA ScatterFlows ==
  ASSUME Lowered, NEW b, NEW p, p = PlanOf(b), plan' = p,
         NEW o \in Live, o \notin Ops, NodeOf(o).kind = "Scatter", NEW op, op = PlanOp(o)
  PROVE  op.kind = "Scatter" /\ ~op.sgd /\ Q!ScatterFlow(op)'
<1>1. o \in IrOps \ Ops
  BY LiveIn DEF Lowered
<1>2. PICK n \in Node : o = CommOp(n)
  BY <1>1, CommOps
<1>3. /\ NodeOf(o) = nodes[n] /\ Part(o) = g.nt + n
  BY <1>2, CommOps
<1>4. op.kind = "Scatter" /\ op.sgd = FALSE /\ op.pre = nodes[n].pre
      /\ op.ins = OpIns(o) /\ op.outs = OpOuts(o)
  BY <1>1, <1>3 DEF PlanOp
<1>5. op.ins = <<nodes[n].of>> /\ op.outs = <<g.nt + n>>
  BY <1>1, <1>3, <1>4, CutsGone DEF OpIns
<1>6. nodes[n].lay = nodes[n].pre /\ nodes[n].pre # -2
  BY <1>3, LoweredGraph DEF Communicable
<1>7. g.nt + n \notin Hollow
  <2>1. \A m \in Node : g.nt + m = g.nt + n => m = n
    BY LoweredGraph DEF Node
  <2>2. nodes[n].kind # "Transform"
    BY <1>3
  <2> QED BY <2>1, <2>2, HollowIs
<1>8. /\ g.nt + n \in 1 .. Len(p.lay) /\ p.of[g.nt + n] = nodes[n].of
      /\ p.lay[g.nt + n] = nodes[n].lay /\ p.hollow = Hollow
  BY PlanIs
<1>9. op.pre \in {-1, 0, 1}
  BY <1>4, <1>6, LayoutsCut
<1> QED BY <1>4, <1>5, <1>6, <1>7, <1>8, <1>9 DEF Q!ScatterFlow, Q!Buffers

LEMMA JoinFlows ==
  ASSUME Lowered, NEW b, NEW p, p = PlanOf(b), plan' = p,
         NEW o \in Live, o \notin Ops, NodeOf(o).kind = "Join", NEW op, op = PlanOp(o)
  PROVE  op.kind \in {"Gather", "Reduce"} /\ ~op.sgd /\ Q!JoinFlow(op)'
<1>1. o \in IrOps \ Ops
  BY LiveIn DEF Lowered
<1>2. PICK n \in Node : o = CommOp(n)
  BY <1>1, CommOps
<1>3. /\ NodeOf(o) = nodes[n] /\ Part(o) = g.nt + n
  BY <1>2, CommOps
<1>4. op.kind = (IF nodes[n].lay = -2 THEN "Reduce" ELSE "Gather") /\ op.sgd = FALSE
      /\ op.pre = nodes[n].pre /\ op.ins = <<g.nt + n>> /\ op.outs = <<nodes[n].of>>
  BY <1>1, <1>3 DEF PlanOp, OpIns, OpOuts
<1>6. nodes[n].lay = nodes[n].pre /\ nodes[n].pre # -1
  BY <1>3, LoweredGraph DEF Communicable
<1>7. g.nt + n \notin Hollow
  <2>1. \A m \in Node : g.nt + m = g.nt + n => m = n
    BY LoweredGraph DEF Node
  <2>2. nodes[n].kind # "Transform"
    BY <1>3
  <2> QED BY <2>1, <2>2, HollowIs
<1>8. /\ g.nt + n \in 1 .. Len(p.lay) /\ p.of[g.nt + n] = nodes[n].of
      /\ p.lay[g.nt + n] = nodes[n].lay /\ p.hollow = Hollow
  BY PlanIs
<1>9. op.pre \in {-2, 0, 1}
  BY <1>4, <1>6, LayoutsCut
<1> QED BY <1>4, <1>6, <1>7, <1>8, <1>9 DEF Q!JoinFlow, Q!Buffers

LEMMA TransformFlows ==
  ASSUME Lowered, NEW b, NEW p, p = PlanOf(b), plan' = p,
         NEW o \in Live, o \notin Ops, NodeOf(o).kind = "Transform", NEW op, op = PlanOp(o)
  PROVE  op.kind = "Transform" /\ ~op.sgd /\ Q!TransformFlow(op)'
<1>1. o \in IrOps \ Ops
  BY LiveIn DEF Lowered
<1>2. PICK n \in Node : o = CommOp(n)
  BY <1>1, CommOps
<1>3. /\ NodeOf(o) = nodes[n] /\ Part(o) = g.nt + n
  BY <1>2, CommOps
<1> PICK s : s = nodes[n].src
  OBVIOUS
<1>4. op.kind = "Transform" /\ op.sgd = FALSE
      /\ op.pre = nodes[n].pre /\ op.post = nodes[n].lay
      /\ op.ins = <<g.nt + s>> /\ op.outs = <<g.nt + n>>
  BY <1>1, <1>3, CutsGone DEF PlanOp, OpIns
<1>5. /\ s \in Node /\ nodes[s].of = nodes[n].of /\ nodes[s].lay = nodes[n].pre
      /\ nodes[n].pre >= -1 /\ nodes[n].lay >= 0 /\ nodes[n].pre # nodes[n].lay
  <2>1. /\ s \in 1 .. n - 1 /\ nodes[s].of = nodes[n].of /\ nodes[s].lay = nodes[n].pre
        /\ nodes[n].pre >= -1 /\ nodes[n].lay >= 0 /\ nodes[n].pre # nodes[n].lay
    BY <1>3 DEF Lowered, Lowering, IInv, Labels, SourcesSound, TransformsImplemented
  <2>2. s \in Node
    BY <2>1, LoweredGraph DEF Node
  <2> QED BY <2>1, <2>2
<1>6. nodes[n].lay \in {0, 1} /\ nodes[n].pre \in {-1, 0, 1}
  BY <1>5, LayoutsCut
<1>7. g.nt + n \notin Hollow => nodes[n].pre # -1 /\ g.nt + s \notin Hollow
  BY <1>3, HollowIs
<1>8. /\ g.nt + n \in 1 .. Len(p.lay) /\ p.of[g.nt + n] = nodes[n].of
      /\ p.lay[g.nt + n] = nodes[n].lay /\ p.hollow = Hollow
      /\ g.nt + s \in 1 .. Len(p.lay) /\ p.of[g.nt + s] = nodes[s].of
      /\ p.lay[g.nt + s] = nodes[s].lay
  BY <1>5, PlanIs
<1> DEFINE a == g.nt + s
           c == g.nt + n
<1>9. p.lay[c] # Q!Whole
  BY <1>8, LayoutsCut
<1>10. ASSUME c \notin p.hollow
       PROVE  /\ a \notin p.hollow /\ p.of[a] = p.of[c]
              /\ p.lay[a] = op.pre /\ p.lay[c] = op.post
              /\ <<op.post, op.pre>> \in Q!Exchange /\ op.post # Q!Whole
  <2>1. nodes[n].pre # -1 /\ a \notin p.hollow
    BY <1>7, <1>8, <1>10
  <2>2. \/ op.post = 0 /\ op.pre = 1
        \/ op.post = 1 /\ op.pre = 0
    BY <1>4, <1>5, <1>6, <2>1
  <2>3. <<op.post, op.pre>> \in Q!Exchange /\ op.post # Q!Whole
    BY <2>2 DEF Q!Exchange, Q!Whole
  <2> QED BY <1>4, <1>5, <1>8, <2>1, <2>3
<1> HIDE DEF a, c
<1>11. a \in 1 .. Len(p.lay) /\ c \in 1 .. Len(p.lay) /\ op.ins = <<a>> /\ op.outs = <<c>>
  BY <1>4, <1>8 DEF a, c
<1> QED BY <1>4, <1>9, <1>10, <1>11 DEF Q!TransformFlow, Q!Buffers, Q!Exchange, Q!Whole

(* What a kernel reads and writes has the layout of the kernel. *)
LEMMA ReadLayouts ==
  ASSUME Lowered, NEW b, NEW p, p = PlanOf(b), NEW a \in Ops, NEW x \in 1 .. Len(Ins(a)),
         NEW v, v = OpIns(a)[x]
  PROVE  /\ v \in 1 .. Len(p.lay) /\ p.of[v] = Ins(a)[x] /\ p.lay[v] # -2
         /\ p.lay[v] = Q!Whole <=> lab[a] = <<>>
         /\ lab[a] = <<>> => v = Ins(a)[x]
<1>1. v = Buf(Ins(a)[x], par[a][x])
  BY OpOperands
<1>2. CASE lab[a] = <<>>
  <2>1. v = Ins(a)[x] /\ v \in Tensor
    BY <1>1, <1>2, LoweredOperand DEF Buf
  <2>2. Q!Whole # -2
    BY DEF Q!Whole
  <2> QED BY <1>2, <2>1, <2>2, PlanIs
<1>3. CASE lab[a] # <<>>
  <2>1. par[a][x] \in Node /\ nodes[par[a][x]].of = Ins(a)[x] /\ nodes[par[a][x]].lay # -2
    BY <1>3, LoweredOperand
  <2>2. v = g.nt + par[a][x]
    BY <1>1, <2>1 DEF Buf, Node
  <2>3. nodes[par[a][x]].lay # Q!Whole
    BY <2>1, LayoutsCut
  <2> QED BY <1>3, <2>1, <2>2, <2>3, PlanIs
<1> QED BY <1>2, <1>3

LEMMA WriteLayouts ==
  ASSUME Lowered, NEW b, NEW p, p = PlanOf(b), NEW a \in Ops, ~g.ops[a].sgd,
         NEW v \in ElementsOf(OpOuts(a))
  PROVE  /\ v \in 1 .. Len(p.lay) /\ v \notin p.hollow
         /\ \E q \in 1 .. Len(Outs(a)) : p.of[v] = Outs(a)[q]
         /\ p.lay[v] = Q!Whole <=> lab[a] = <<>>
<1>1. PICK q \in 1 .. Len(Outs(a)) : v = Buf(Outs(a)[q], chi[a][q])
  BY OpResults
<1>2. CASE lab[a] = <<>>
  <2>1. v = Outs(a)[q] /\ v \in Tensor
    BY <1>1, <1>2, LoweredResult DEF Buf
  <2>2. v \notin p.hollow
    <3>1. \A n \in Node : v # g.nt + n
      BY <2>1, PlanIs
    <3> QED BY <3>1, PlanIs, HollowIs
  <2> QED BY <1>2, <2>1, <2>2, PlanIs
<1>3. CASE lab[a] # <<>>
  <2>1. chi[a][q] \in Node /\ nodes[chi[a][q]].of = Outs(a)[q] /\ nodes[chi[a][q]].kind = "Join"
    BY <1>3, LoweredResult
  <2>2. v = g.nt + chi[a][q]
    BY <1>1, <2>1 DEF Buf, Node
  <2>3. nodes[chi[a][q]].lay # Q!Whole
    BY <2>1, LayoutsCut
  <2>4. v \notin p.hollow
    <3>1. \A m \in Node : g.nt + m = v => m = chi[a][q]
      BY <2>1, <2>2, LoweredGraph DEF Node
    <3> QED BY <2>1, <3>1, PlanIs, HollowIs
  <2> QED BY <1>3, <2>1, <2>2, <2>3, <2>4, PlanIs
<1> QED BY <1>2, <1>3

(* A serial SGD op reads its weight and momentum themselves. *)
LEMMA SgdOperands ==
  ASSUME Lowered, NEW a \in Ops, g.ops[a].sgd
  PROVE  /\ 1 \in 1 .. Len(Ins(a)) /\ 3 \in 1 .. Len(Ins(a)) /\ lab[a] = <<>>
         /\ OpIns(a)[1] = Ins(a)[1] /\ OpIns(a)[3] = Ins(a)[3]
         /\ Ins(a)[1] \in States /\ Ins(a)[3] \in States
<1>1. GraphOK /\ lab[a] = <<>>
  BY LoweredGraph
<1>2. 1 \in 1 .. Len(Ins(a)) /\ 3 \in 1 .. Len(Ins(a))
  <2>1. Len(Ins(a)) = 3
    BY <1>1 DEF GraphOK, IsOp, Ins
  <2> QED BY <2>1
<1>3. Ins(a)[1] \in Tensor /\ Ins(a)[3] \in Tensor /\ par[a][1] = 0 /\ par[a][3] = 0
  BY <1>1, <1>2, LoweredOperand
<1>4. OpIns(a)[1] = Ins(a)[1] /\ OpIns(a)[3] = Ins(a)[3]
  BY <1>2, <1>3, OpOperands DEF Buf
<1> QED BY <1>1, <1>2, <1>3, <1>4 DEF States

LEMMA KernelFlows ==
  ASSUME Lowered, NEW b, NEW p, p = PlanOf(b), plan' = p,
         NEW j \in 1 .. Len(schedule), NEW o, o = schedule[j], o \in Ops, NEW op, op = PlanOp(o)
  PROVE  /\ op.kind = "Compute" /\ op.sgd \in BOOLEAN /\ Q!KernelFlow(j)'
         /\ Q!Reads(j)' \cup Q!Writes(j)' \subseteq 1 .. Len(p.lay)
         /\ op.sgd => Q!Writes(j)' = {Ins(o)[1], Ins(o)[3]} /\ Q!Writes(j)' \subseteq Q!Reads(j)' \cap States
         /\ ~op.sgd => Q!Writes(j)' = ElementsOf(OpOuts(o))
         /\ Q!Reads(j)' = ElementsOf(OpIns(o))
<1>1. /\ op.kind = "Compute" /\ op.sgd \in BOOLEAN /\ (op.sgd <=> g.ops[o].sgd)
      /\ (op.par <=> isParallel(o)) /\ op.ins = OpIns(o) /\ op.outs = OpOuts(o)
  <2>1. op.sgd = (o \in Ops /\ g.ops[o].sgd)
    BY DEF PlanOp
  <2>2. op.par = isParallel(o)
    BY DEF PlanOp
  <2>3. op.kind = "Compute" /\ op.ins = OpIns(o) /\ op.outs = OpOuts(o)
    BY DEF PlanOp
  <2> QED BY <2>1, <2>2, <2>3
<1>2. op.sgd \in BOOLEAN
  BY <1>1
<1>3. p.ops[j] = op
  BY PlanIs
<1> DEFINE R == {OpIns(o)[x] : x \in 1 .. Len(Ins(o))}
           W == IF op.sgd THEN {Ins(o)[1], Ins(o)[3]} ELSE ElementsOf(OpOuts(o))
<1>4. Q!Reads(j)' = R /\ R = ElementsOf(OpIns(o))
  <2>1. DOMAIN op.ins = 1 .. Len(Ins(o)) /\ Len(OpIns(o)) = Len(Ins(o))
    BY <1>1, OpOperands
  <2> QED BY <1>1, <1>3, <2>1 DEF Q!Reads, ElementsOf
<1>5. Q!Writes(j)' = W
  <2>1. CASE op.sgd
    BY <1>1, <1>3, <2>1, SgdOperands DEF Q!Writes, Q!Results
  <2>2. CASE ~op.sgd
    <3>1. ~g.ops[o].sgd
      BY <1>1, <2>2
    <3>2. {OpOuts(o)[x] : x \in DOMAIN OpOuts(o)} = ElementsOf(OpOuts(o))
      BY <3>1, OpResults
    <3> QED BY <1>1, <1>3, <2>2, <3>2 DEF Q!Writes, Q!Results
  <2> QED BY <1>1, <1>2, <2>1, <2>2
<1>6. op.sgd => W \subseteq R /\ W \subseteq States
  BY <1>1, SgdOperands
<1> HIDE DEF W
<1>7. ASSUME NEW v \in R
      PROVE  v \in 1 .. Len(p.lay) /\ p.lay[v] # -2 /\ (p.lay[v] = Q!Whole <=> lab[o] = <<>>)
  BY ReadLayouts
<1>8. ASSUME NEW v \in W
      PROVE  /\ v \in 1 .. Len(p.lay) /\ (p.lay[v] = Q!Whole <=> lab[o] = <<>>)
             /\ v \notin p.hollow
             /\ ~op.sgd => p.of[v] \notin States
  <2>1. CASE op.sgd
    <3>1. v \in Tensor
      BY <1>6, <2>1 DEF States
    <3>2. \A n \in Node : v # g.nt + n
      BY <3>1, PlanIs
    <3> QED BY <1>6, <1>7, <2>1, <3>2, PlanIs, HollowIs
  <2>2. CASE ~op.sgd
    <3>1. v \in ElementsOf(OpOuts(o)) /\ ~g.ops[o].sgd
      BY <1>1, <2>2 DEF W
    <3>2. /\ v \in 1 .. Len(p.lay) /\ v \notin p.hollow
          /\ \E q \in 1 .. Len(Outs(o)) : p.of[v] = Outs(o)[q]
          /\ p.lay[v] = Q!Whole <=> lab[o] = <<>>
      BY <3>1, WriteLayouts
    <3>3. p.of[v] \notin States
      BY <3>2, StatesGiven
    <3> QED BY <3>2, <3>3
  <2> QED BY <1>1, <1>2, <2>1, <2>2
<1>9. op.par <=> lab[o] # <<>>
  BY <1>1, ParallelJust
<1>10. p.states = States
  BY PlanIs
<1> HIDE DEF R
<1>11. Q!KernelFlow(j)'
  BY <1>3, <1>4, <1>5, <1>7, <1>8, <1>9, <1>10 DEF Q!KernelFlow
<1>12. R \cup W \subseteq 1 .. Len(p.lay)
  BY <1>7, <1>8
<1>13. op.sgd => W = {Ins(o)[1], Ins(o)[3]}
  BY DEF W
<1>14. ~op.sgd => W = ElementsOf(OpOuts(o))
  BY DEF W
<1> QED BY <1>1, <1>2, <1>4, <1>5, <1>6, <1>11, <1>12, <1>13, <1>14

(* No op but an SGD op writes what is given from the beginning. *)
LEMMA WritesNew ==
  ASSUME Lowered, NEW o \in IrOps, NEW v \in ElementsOf(OpOuts(o))
  PROVE  v \notin States /\ ~(v \in Tensor /\ ~Produced(v))
<1>1. CASE MakesTensor(o, v)
  <2>1. PICK a \in Ops : \E q \in 1 .. Len(Outs(a)) : ~g.ops[a].sgd /\ Outs(a)[q] = v
    BY <1>1 DEF MakesTensor
  <2>2. PICK q \in 1 .. Len(Outs(a)) : ~g.ops[a].sgd /\ Outs(a)[q] = v
    BY <2>1
  <2>3. chi[a][q] # 0 => nodes[chi[a][q]].kind # "Tile"
    BY <2>2, LoweredResult
  <2> QED BY <2>2, <2>3, StatesGiven DEF Produced
<1>2. CASE MakesPart(o, v)
  <2>1. PICK m \in Node : v = g.nt + m
    BY <1>2 DEF MakesPart
  <2>2. v \notin Tensor
    BY <2>1, PlanIs
  <2> QED BY <2>2 DEF States
<1> QED BY <1>1, <1>2, MakerOf

(* A communication op has one operand and one result. *)
LEMMA CommFlows ==
  ASSUME Lowered, NEW b, NEW p, p = PlanOf(b), plan' = p,
         NEW j \in 1 .. Len(schedule), NEW o, o = schedule[j], o \notin Ops, NEW op, op = PlanOp(o)
  PROVE  /\ op.sgd = FALSE /\ op.kind # "Compute"
         /\ op.kind = "Scatter" => Q!ScatterFlow(op)'
         /\ op.kind \in {"Gather", "Reduce"} => Q!JoinFlow(op)'
         /\ op.kind = "Transform" => Q!TransformFlow(op)'
         /\ Q!Reads(j)' \cup Q!Writes(j)' \subseteq 1 .. Len(p.lay)
         /\ Q!Reads(j)' = ElementsOf(OpIns(o)) /\ Q!Writes(j)' = ElementsOf(OpOuts(o))
<1>1. o \in Live /\ o \in IrOps /\ p.ops[j] = op
  BY PlanIs
<1>2. NodeOf(o).kind \in {"Scatter", "Transform", "Join"}
  BY <1>1, CommOps, LoweredGraph
<1>3. op.sgd = FALSE /\ op.ins = OpIns(o) /\ op.outs = OpOuts(o)
  BY DEF PlanOp
<1>4. Q!Buffers' = 1 .. Len(p.lay)
  BY DEF Q!Buffers
<1>5. \A x \in 1 .. Len(p.lay) : p.of[x] \in 1 .. Len(p.lay)
  BY <1>4, TensorsFlow DEF Q!Tensors
<1>6. /\ op.kind # "Compute"
      /\ op.kind = "Scatter" => Q!ScatterFlow(op)'
      /\ op.kind \in {"Gather", "Reduce"} => Q!JoinFlow(op)'
      /\ op.kind = "Transform" => Q!TransformFlow(op)'
      /\ op.kind \in {"Scatter", "Gather", "Reduce", "Transform"}
  <2>1. CASE NodeOf(o).kind = "Scatter"
    <3>1. op.kind = "Scatter" /\ Q!ScatterFlow(op)'
      BY <1>1, <2>1, ScatterFlows
    <3> QED BY <3>1
  <2>2. CASE NodeOf(o).kind = "Join"
    <3>1. op.kind \in {"Gather", "Reduce"} /\ Q!JoinFlow(op)'
      BY <1>1, <2>2, JoinFlows
    <3> QED BY <3>1
  <2>3. CASE NodeOf(o).kind = "Transform"
    <3>1. op.kind = "Transform" /\ Q!TransformFlow(op)'
      BY <1>1, <2>3, TransformFlows
    <3> QED BY <3>1
  <2> QED BY <1>2, <2>1, <2>2, <2>3
<1>7. \E u, v \in 1 .. Len(p.lay) : op.ins = <<u>> /\ op.outs = <<v>>
  <2>1. CASE op.kind = "Scatter"
    BY <1>4, <1>5, <1>6, <2>1 DEF Q!ScatterFlow
  <2>2. CASE op.kind \in {"Gather", "Reduce"}
    BY <1>4, <1>5, <1>6, <2>2 DEF Q!JoinFlow
  <2>3. CASE op.kind = "Transform"
    BY <1>4, <1>6, <2>3 DEF Q!TransformFlow
  <2> QED BY <1>6, <2>1, <2>2, <2>3
<1>8. PICK u, v \in 1 .. Len(p.lay) : op.ins = <<u>> /\ op.outs = <<v>>
  BY <1>7
<1>9. /\ {op.ins[x] : x \in DOMAIN op.ins} = {u} /\ ElementsOf(OpIns(o)) = {u}
      /\ {op.outs[x] : x \in DOMAIN op.outs} = {v} /\ ElementsOf(OpOuts(o)) = {v}
  <2>1. ASSUME NEW s, NEW w, s = <<w>>
        PROVE  {s[x] : x \in DOMAIN s} = {w} /\ ElementsOf(s) = {w}
    BY <2>1, OneElement
  <2>2. {op.ins[x] : x \in DOMAIN op.ins} = {u} /\ ElementsOf(op.ins) = {u}
    BY <1>8, <2>1
  <2>3. {op.outs[x] : x \in DOMAIN op.outs} = {v} /\ ElementsOf(op.outs) = {v}
    BY <1>8, <2>1
  <2> QED BY <1>3, <2>2, <2>3
<1>10. Q!Reads(j)' = {u}
  BY <1>1, <1>9 DEF Q!Reads
<1>11. Q!Writes(j)' = {v}
  BY <1>1, <1>3, <1>9 DEF Q!Writes, Q!Results
<1> QED BY <1>3, <1>6, <1>9, <1>10, <1>11

LEMMA OpsFlow ==
  ASSUME Lowered, NEW b, NEW p, p = PlanOf(b), plan' = p, NEW j \in 1 .. Len(schedule)
  PROVE  Q!OpFlow(j)'
<1> PICK o : o = schedule[j]
  OBVIOUS
<1> PICK op : op = PlanOp(o)
  OBVIOUS
<1>1. o \in Live /\ o \in IrOps /\ p.ops[j] = op
  BY PlanIs
<1>2. Q!Buffers' = 1 .. Len(p.lay)
  BY DEF Q!Buffers
<1>3. p.states = States /\ p.data = {t \in Tensor : t \notin States /\ ~Produced(t)}
  BY PlanIs
<1>4. ASSUME ~op.sgd, Q!Writes(j)' = ElementsOf(OpOuts(o))
      PROVE  Q!Writes(j)' \cap (p.states \cup p.data) = {}
  BY <1>1, <1>3, <1>4, WritesNew
<1>5. CASE o \in Ops
  <2>1. /\ op.kind = "Compute" /\ op.sgd \in BOOLEAN /\ Q!KernelFlow(j)'
        /\ Q!Reads(j)' \cup Q!Writes(j)' \subseteq 1 .. Len(p.lay)
        /\ op.sgd => Q!Writes(j)' \subseteq Q!Reads(j)' \cap States
        /\ ~op.sgd => Q!Writes(j)' = ElementsOf(OpOuts(o))
    BY <1>5, KernelFlows
  <2> QED BY <1>1, <1>2, <1>3, <1>4, <2>1 DEF Q!OpFlow
<1>6. CASE o \notin Ops
  <2>1. /\ op.sgd = FALSE /\ op.kind # "Compute"
        /\ op.kind = "Scatter" => Q!ScatterFlow(op)'
        /\ op.kind \in {"Gather", "Reduce"} => Q!JoinFlow(op)'
        /\ op.kind = "Transform" => Q!TransformFlow(op)'
        /\ Q!Reads(j)' \cup Q!Writes(j)' \subseteq 1 .. Len(p.lay)
        /\ Q!Writes(j)' = ElementsOf(OpOuts(o))
    BY <1>6, CommFlows
  <2> QED BY <1>1, <1>2, <1>3, <1>4, <2>1 DEF Q!OpFlow
<1> QED BY <1>5, <1>6

(* What an op of the plan reads and writes is what the op of the graph does. *)
LEMMA OpsAre ==
  ASSUME Lowered, NEW b, NEW p, p = PlanOf(b), plan' = p, NEW j \in 1 .. Len(schedule),
         NEW o, o = schedule[j]
  PROVE  /\ Q!Reads(j)' = ElementsOf(OpIns(o))
         /\ o \in Ops /\ g.ops[o].sgd => p.ops[j].sgd /\ Q!Writes(j)' = {Ins(o)[1], Ins(o)[3]}
         /\ ~(o \in Ops /\ g.ops[o].sgd) => ~p.ops[j].sgd /\ Q!Writes(j)' = ElementsOf(OpOuts(o))
<1> PICK op : op = PlanOp(o)
  OBVIOUS
<1>1. p.ops[j] = op
  BY PlanIs
<1>2. op.sgd = (o \in Ops /\ g.ops[o].sgd)
  BY DEF PlanOp
<1>3. CASE o \in Ops
  <2>1. /\ Q!Reads(j)' = ElementsOf(OpIns(o))
        /\ op.sgd => Q!Writes(j)' = {Ins(o)[1], Ins(o)[3]}
        /\ ~op.sgd => Q!Writes(j)' = ElementsOf(OpOuts(o))
    BY <1>3, KernelFlows
  <2> QED BY <1>1, <1>2, <1>3, <2>1
<1>4. CASE o \notin Ops
  <2>1. /\ op.sgd = FALSE /\ Q!Reads(j)' = ElementsOf(OpIns(o))
        /\ Q!Writes(j)' = ElementsOf(OpOuts(o))
    BY <1>4, CommFlows
  <2> QED BY <1>1, <1>4, <2>1
<1> QED BY <1>3, <1>4

LEMMA OneWriterNext ==
  ASSUME Lowered, NEW b, NEW p, p = PlanOf(b), plan' = p,
         NEW j \in 1 .. Len(schedule), NEW m \in 1 .. Len(schedule), NEW v,
         v \in Q!Writes(j)', v \in Q!Writes(m)'
  PROVE  j = m
<1> PICK o : o = schedule[j]
  OBVIOUS
<1> PICK r : r = schedule[m]
  OBVIOUS
<1> DEFINE Sgd(a) == a \in Ops /\ g.ops[a].sgd
<1>1. o \in IrOps /\ r \in IrOps
  BY PlanIs
<1>2. ASSUME o = r PROVE j = m
  <2>1. PICK above : Ordered(schedule, above)
    BY Scheduled DEF Lowered
  <2> QED BY <1>2, <2>1 DEF Ordered
<1>3. /\ Sgd(o) => v \in {Ins(o)[1], Ins(o)[3]}
      /\ ~Sgd(o) => v \in ElementsOf(OpOuts(o))
  BY OpsAre
<1>4. /\ Sgd(r) => v \in {Ins(r)[1], Ins(r)[3]}
      /\ ~Sgd(r) => v \in ElementsOf(OpOuts(r))
  BY OpsAre
<1>5. \A a \in Ops : Sgd(a) => {Ins(a)[1], Ins(a)[3]} \subseteq States
  BY SgdOperands
<1>6. CASE ~Sgd(o) /\ ~Sgd(r)
  BY <1>1, <1>2, <1>3, <1>4, <1>6, OneMaker
<1>7. CASE Sgd(o) /\ Sgd(r)
  <2>1. TrainsOnce(g)
    BY LoweredGraph
  <2>2. {Ins(o)[1], Ins(o)[3]} \cap {Ins(r)[1], Ins(r)[3]} # {}
    BY <1>3, <1>4, <1>7
  <2>3. o = r
    BY <1>7, <2>1, <2>2 DEF TrainsOnce, Ops, Ins
  <2> QED BY <1>2, <2>3
<1>8. CASE Sgd(o) /\ ~Sgd(r)
  BY <1>1, <1>3, <1>4, <1>5, <1>8, WritesNew
<1>9. CASE ~Sgd(o) /\ Sgd(r)
  BY <1>1, <1>3, <1>4, <1>5, <1>9, WritesNew
<1> QED BY <1>6, <1>7, <1>8, <1>9

LEMMA MadeBeforeNext ==
  ASSUME Lowered, NEW b, NEW p, p = PlanOf(b), plan' = p, ~p.benchmark,
         NEW j \in 1 .. Len(schedule), NEW v, v \in Q!Reads(j)'
  PROVE  Q!MadeBefore(j, v)'
<1>1. v \in ElementsOf(OpIns(schedule[j])) /\ ~g.benchmark
  BY OpsAre, PlanIs
<1>2. /\ p.states = States /\ p.data = {t \in Tensor : t \notin States /\ ~Produced(t)}
      /\ Len(p.ops) = Len(schedule) /\ Len(schedule) \in Nat
  BY PlanIs
<1>3. Q!OpsOf' = 1 .. Len(schedule)
  BY <1>2 DEF Q!OpsOf
<1>4. CASE v \in Tensor /\ ~Produced(v)
  BY <1>2, <1>4 DEF Q!MadeBefore
<1>5. ASSUME NEW m \in 1 .. j - 1, v \in ElementsOf(OpOuts(schedule[m]))
      PROVE  Q!MadeBefore(j, v)'
  <2>1. m \in 1 .. Len(schedule) /\ m < j
    BY <1>2
  <2>2. ~(schedule[m] \in Ops /\ g.ops[schedule[m]].sgd)
    BY <1>5, NoElement DEF OpOuts
  <2>3. ~p.ops[m].sgd /\ v \in Q!Writes(m)'
    BY <1>5, <2>1, <2>2, OpsAre
  <2> QED BY <1>3, <2>1, <2>3 DEF Q!MadeBefore
<1> QED BY <1>1, <1>4, <1>5, ReadsEarlier

(* UpdatesLast is what the invariant of the data asks of the updates. *)
LEMMA UpdatesFollow ==
  phase # "lowering" /\ ~plan.local /\ UpdatesLast => \A t \in plan.states : Q!UpdatedLast(t)
<1> SUFFICES ASSUME phase # "lowering", ~plan.local, UpdatesLast, NEW t \in plan.states
             PROVE  Q!UpdatedLast(t)
  OBVIOUS
<1>1. PICK x \in 1 .. Len(plan.ops) :
        /\ plan.ops[x].sgd /\ t \in Q!Results(plan.ops[x])
        /\ \A y \in (1 .. Len(plan.ops)) \ {x} : \A z \in DOMAIN plan.ops[y].ins :
             plan.of[plan.ops[y].ins[z]] = t => y < x
  BY DEF UpdatesLast, P!Results, Q!Results
<1> QED BY <1>1 DEF Q!UpdatedLast, Q!Updates, Q!OpsOf, Q!Reads, Q!Writes

LEMMA UpdatesFollowNext ==
  (phase # "lowering" /\ ~plan.local /\ UpdatesLast)' => (\A t \in plan.states : Q!UpdatedLast(t))'
  BY UpdatesFollow, PTL

(***************************************************************************)
(* The data of every lowered graph flows.                                  *)
(***************************************************************************)
LEMMA DataPlanned ==
  ASSUME Lowered, NEW b, plan' = PlanOf(b), phase' # "lowering", ~plan'.local, UpdatesLast'
  PROVE  Q!DataPlan'
<1> PICK p : p = PlanOf(b)
  OBVIOUS
<1>1. plan' = p
  OBVIOUS
<1>2. /\ Len(p.lay) \in Nat /\ Len(p.ops) = Len(schedule)
      /\ p.states = States /\ p.data = {t \in Tensor : t \notin States /\ ~Produced(t)}
      /\ \A t \in Tensor : t \in 1 .. Len(p.lay) /\ p.lay[t] = Q!Whole
  <2>1. Len(p.lay) = g.nt + Len(nodes)
    BY PlanIs
  <2>2. Len(p.lay) \in Nat
    BY <2>1, LoweredGraph
  <2> QED BY <2>2, PlanIs
<1>3. p.states \subseteq Tensor /\ p.data \subseteq Tensor /\ p.states \cap p.data = {}
  BY <1>2 DEF States
<1>4. Q!Buffers' = 1 .. Len(p.lay) /\ Q!OpsOf' = 1 .. Len(schedule)
  BY <1>1, <1>2 DEF Q!Buffers, Q!OpsOf
<1>5. \A x \in 1 .. Len(p.lay) : Q!Tensors(x)'
  BY <1>1, TensorsFlow
<1>6. \A j \in 1 .. Len(schedule) : Q!OpFlow(j)'
  BY <1>1, OpsFlow
<1>7. Q!OneWriter'
  <2>1. \A j, m \in 1 .. Len(schedule) : \A v : v \in Q!Writes(j)' /\ v \in Q!Writes(m)' => j = m
    BY <1>1, OneWriterNext
  <2> QED BY <1>4, <2>1 DEF Q!OneWriter
<1>8. ~p.benchmark => \A j \in 1 .. Len(schedule) : \A v \in Q!Reads(j)' : Q!MadeBefore(j, v)'
  BY <1>1, MadeBeforeNext
<1>9. (\A t \in plan.states : Q!UpdatedLast(t))'
  BY UpdatesFollowNext
<1> QED BY <1>1, <1>2, <1>3, <1>4, <1>5, <1>6, <1>7, <1>8, <1>9 DEF Q!DataPlan

-----------------------------------------------------------------------------
(***************************************************************************)
(* From the labelled graph to the data: unless a step breaks the order in  *)
(* which the weights are read and updated, every serial training program   *)
(* has a plan whose data flows.                                            *)
(***************************************************************************)
DataProgInv ==
  /\ ProgInv /\ Weights /\ Parts /\ DataFollows
  /\ phase # "lowering" /\ ~plan.local /\ UpdatesLast => Q!DataPlan

LEMMA DataProgBegins == ProgInit => DataProgInv
<1> SUFFICES ASSUME ProgInit PROVE DataProgInv
  OBVIOUS
<1>1. Init /\ phase = "lowering"
  BY DEF ProgInit
<1> QED BY <1>1, ProgBegins, WeightsBegin, PartsBegin DEF DataProgInv, DataFollows

(* The plan that code is generated from. *)
LEMMA GenerateFlows ==
  ASSUME DataProgInv, Generate, ~plan'.local, UpdatesLast'
  PROVE  Q!DataPlan'
<1>1. PICK b \in 0 .. MaxBuffered : plan' = PlanOf(b)
  BY DEF Generate
<1>2. pc = "done"
  BY DEF Generate
<1>3. \A a \in Ops : ~Optimizer(a)
  <2>1. PlanOf(b).local = (\E a \in Ops : Optimizer(a))
    BY DEF PlanOf
  <2> QED BY <1>1, <2>1
<1>4. Lowered
  BY <1>2, <1>3 DEF DataProgInv, ProgInv, Lowered
<1>5. phase' # "lowering"
  BY DEF Generate
<1> QED BY <1>1, <1>4, <1>5, DataPlanned

LEMMA StepKeepsPlan ==
  ASSUME [ProgNext]_allVars
  PROVE  /\ [Next]_vars
         /\ Generate \/ (UNCHANGED plan /\ (phase' # "lowering" => phase # "lowering"))
<1>1. CASE Lower \/ UNCHANGED allVars
  <2>1. UNCHANGED progVars /\ [Next]_vars
    BY <1>1 DEF Lower, allVars, vars
  <2> QED BY <2>1 DEF progVars
<1>2. CASE Generate
  BY <1>2 DEF Generate, vars
<1>3. CASE Emit
  <2>1. P!EmitNext /\ UNCHANGED vars
    BY <1>3 DEF Emit, vars
  <2>2. phase # "lowering" /\ plan' = plan
    BY <2>1 DEF P!EmitNext, P!EmitTensorInitializations, P!EmitTwoSided, P!EmitOther,
                P!EmitSumTransform, P!EndFuncCalls
  <2> QED BY <2>1, <2>2
<1>4. CASE Launch
  <2>1. UNCHANGED vars
    BY <1>4 DEF Launch, vars
  <2>2. phase # "lowering" /\ plan' = plan
    BY <1>4 DEF Launch, P!Launch
  <2> QED BY <2>1, <2>2
<1>5. ASSUME NEW r \in P!Rank, Run(r)
      PROVE  [Next]_vars /\ UNCHANGED plan /\ phase # "lowering"
  <2>1. P!RankStep(r) /\ UNCHANGED vars
    BY <1>5 DEF Run, vars
  <2>2. phase = "running" /\ plan' = plan
    BY <2>1 DEF P!RankStep, P!emitVars, P!Begin, P!CanBegin, P!Post, P!CanPost, P!Receive,
                P!CanReceive, P!Return, P!CanReturn, P!Local, P!CanCompute, P!Running
  <2> QED BY <2>1, <2>2
<1> QED BY <1>1, <1>2, <1>3, <1>4, <1>5 DEF ProgNext

LEMMA DataProgStep == DataProgInv /\ [ProgNext]_allVars => DataProgInv'
<1> SUFFICES ASSUME DataProgInv, [ProgNext]_allVars PROVE DataProgInv'
  OBVIOUS
<1>1. ProgInv' /\ DataFollows'
  BY ProgStep, DataFollowsStep DEF DataProgInv
<1>2. [Next]_vars
  BY StepKeepsPlan
<1>3. Weights' /\ Parts'
  BY <1>2, WeightsStep, PartsStep DEF DataProgInv, ProgInv, Lowering
<1>4. ASSUME phase' # "lowering", ~plan'.local, UpdatesLast' PROVE Q!DataPlan'
  <2>1. CASE Generate
    BY <1>4, <2>1, GenerateFlows
  <2>2. CASE UNCHANGED plan /\ phase # "lowering"
    <3>1. UpdatesLast /\ ~plan.local
      BY <1>4, <2>2 DEF UpdatesLast, P!Results
    <3>2. Q!DataPlan' <=> Q!DataPlan
      BY <2>2, Q!DataPlanKept
    <3> QED BY <2>2, <3>1, <3>2 DEF DataProgInv
  <2> QED BY <1>4, <2>1, <2>2, StepKeepsPlan
<1> QED BY <1>1, <1>3, <1>4 DEF DataProgInv

THEOREM DataProgInvariance == ProgSpec => []DataProgInv
  BY DataProgBegins, DataProgStep, PTL DEF ProgSpec

(* The properties that are composed here and those of SPMDDataProofs are one. *)
LEMMA SameData ==
  /\ P!OperandsCurrent <=> Q!OperandsCurrent
  /\ P!SnapshotCurrent <=> Q!SnapshotCurrent
<1> USE DEF P!Whole, Q!Whole, P!Rank, Q!Rank, P!OpAt, Q!OpAt, P!Shape, Q!Shape, P!Size,
            Q!Size, P!Pick, Q!Pick, P!All, Q!All, P!Global, Q!Global, P!Stamp, Q!Stamp,
            P!Part, Q!Part, P!Place, Q!Place, P!Read, Q!Read, P!Running, Q!Running,
            P!Version, Q!Version, P!Current, Q!Current, P!OperandsCurrent,
            Q!OperandsCurrent, P!SnapshotCurrent, Q!SnapshotCurrent
<1>1. P!OperandsCurrent <=> Q!OperandsCurrent
  OBVIOUS
<1>2. P!SnapshotCurrent <=> Q!SnapshotCurrent
  OBVIOUS
<1> QED BY <1>1, <1>2

(***************************************************************************)
(* Whatever the graph and its strategies, wherever its tensors are cut and *)
(* however the ranks interleave: a kernel of a training program whose      *)
(* optimizer is serial finds in each operand this iteration's part of the  *)
(* right tensor, of a weight or momentum the last iteration's.  So no      *)
(* exchange of the lowering is of the wrong block, to the wrong rank or    *)
(* too late.  UpdatesLast is about the schedule: no SGD op is put before   *)
(* a reader of what it updates.                                            *)
(***************************************************************************)
THEOREM ProgramReadsCurrent == ProgSpec => [](UpdatesLast => OperandsCurrent)
<1>1. ASSUME DataProgInv, UpdatesLast, phase = "running", ~plan.local
      PROVE  P!OperandsCurrent
  <2>1. Q!DataInv
    BY <1>1 DEF DataProgInv, DataFollows
  <2> QED BY <2>1, JobFits, ShapesFit, Q!KernelReads, SameData
<1>2. plan.local => P!OperandsCurrent
  BY DEF P!OperandsCurrent
<1>3. DataProgInv => (UpdatesLast => OperandsCurrent)
  BY <1>1, <1>2 DEF OperandsCurrent
<1> QED BY <1>3, DataProgInvariance, PTL

(***************************************************************************)
(* Whenever rank 0 comes to the snapshot, its original weights and momenta *)
(* are those of the iterations it has counted, in benchmark mode too.      *)
(***************************************************************************)
THEOREM ProgramSnapshots == ProgSpec => [](UpdatesLast => SnapshotCurrent)
<1>1. ASSUME DataProgInv, UpdatesLast, phase = "running", ~plan.local
      PROVE  P!SnapshotCurrent
  <2>1. Q!DataInv
    BY <1>1 DEF DataProgInv, DataFollows
  <2> QED BY <2>1, JobFits, ShapesFit, Q!SnapshotReads, SameData
<1>2. plan.local \/ phase # "running" => P!SnapshotCurrent
  BY DEF P!SnapshotCurrent
<1>3. DataProgInv => (UpdatesLast => SnapshotCurrent)
  BY <1>1, <1>2 DEF SnapshotCurrent
<1> QED BY <1>3, DataProgInvariance, PTL

=============================================================================
