---------------------------- MODULE ParallelProgram ----------------------------
(***************************************************************************)
(* From a labelled graph to the run of its program: the parallel lowering, *)
(* the elimination of what nothing needs, the order the topology gives,    *)
(* the emission, and the ranks running the result.                         *)
(***************************************************************************)
EXTENDS ParallelLowering, FiniteSets

CONSTANTS NProcs, Rows, Cols, MaxIter,
          MaxBuffered   \* the most messages to one rank an MPI library is taken to keep

(***************************************************************************)
(* There is a process beside rank 0; a tensor has two axes, and a cut axis *)
(* can be divided among all processes.                                     *)
(***************************************************************************)
ASSUME ShapeAssumption ==
  /\ NProcs \in Nat \ {0, 1} /\ Rows \in Nat /\ Cols \in Nat
  /\ Rows % NProcs = 0 /\ Cols % NProcs = 0 /\ MaxAxis <= 1
  /\ MaxIter \in Nat /\ MaxBuffered \in Nat

(***************************************************************************)
(* isParallel's comment: an op has a parent.  What TensorNode::autoDiff    *)
(* makes of a weight: one SGD op, with a momentum of its own, a new Tensor *)
(* that nothing produces, and a mirror of the weight that nothing reads.   *)
(***************************************************************************)
TrainsOnce(G) ==
  /\ \A a \in 1 .. Len(G.ops) : G.ops[a].ins # <<>>
  /\ \A a \in {c \in 1 .. Len(G.ops) : G.ops[c].sgd} : \A b \in 1 .. Len(G.ops) :
       LET sgd == G.ops[a]
           op == G.ops[b]
       IN  /\ op.sgd /\ {sgd.ins[1], sgd.ins[3]} \cap {op.ins[1], op.ins[3]} # {} => a = b
           /\ \A q \in 1 .. Len(op.outs) : op.outs[q] # sgd.ins[3]
           /\ \A p \in 1 .. Len(op.ins) : op.ins[p] # sgd.outs[1]

ASSUME TrainingAssumption == \A G \in Graphs : TrainsOnce(G)

VARIABLES plan, phase, at, hetero, writer, master, worker, ran,
          ip, sub, posted, got, iter, mem, alias, chan

P == INSTANCE SPMD WITH Schedules <- {}

progVars == <<plan, phase, at, hetero, writer, master, worker, ran,
              ip, sub, posted, got, iter, mem, alias, chan>>

allVars == <<g, pc, k, i, lab, par, chi, tl, nodes, cut, progVars>>

-----------------------------------------------------------------------------
(***************************************************************************)
(* The lowered graph.  Buffers are the original tensors and, after them,   *)
(* the nodes; ops those of the graph and, after them, the communication op *)
(* of each node, in the order they were pushed.  A Tile has no op of its   *)
(* own and no storage of its own.                                          *)
(***************************************************************************)
Buf(t, n) == IF n = 0 THEN t ELSE g.nt + n

CommOp(n) == Len(g.ops) + n

IrOps == Ops \cup {CommOp(n) : n \in {m \in Node : nodes[m].kind # "Tile"}}

NodeOf(o) == nodes[o - Len(g.ops)]
Part(o) == g.nt + o - Len(g.ops)

OpIns(o) ==
  IF o \in Ops THEN [p \in 1 .. Len(Ins(o)) |-> Buf(Ins(o)[p], par[o][p])]
  ELSE IF NodeOf(o).kind = "Join" THEN <<Part(o)>>
  ELSE IF NodeOf(o).kind = "Transform" THEN <<g.nt + NodeOf(o).src>>
  ELSE <<NodeOf(o).of>>

OpOuts(o) ==
  IF o \in Ops
  THEN IF g.ops[o].sgd THEN <<>> ELSE [q \in 1 .. Len(Outs(o)) |-> Buf(Outs(o)[q], chi[o][q])]
  ELSE IF NodeOf(o).kind = "Join" THEN <<NodeOf(o).of>>
  ELSE IF o - Len(g.ops) \in cut THEN <<>> ELSE <<Part(o)>>

ElementsOf(s) == {s[x] : x \in 1 .. Len(s)}

Edges ==
  {e \in IrOps \X IrOps : ElementsOf(OpOuts(e[1])) \cap ElementsOf(OpIns(e[2])) # {}}

Rounds == 0 .. Cardinality(IrOps)

(***************************************************************************)
(* EliminationPass, in reverse topological order: an op stays if it is, or *)
(* leads to, a logical output: an SGD op's result in training; in          *)
(* inference, what had no reader before the lowering.  A result nothing    *)
(* reads is taken out only if it is the only one of its op, so an op of    *)
(* several results stays as well.                                          *)
(***************************************************************************)
Unread(t) == \A a \in Ops : t \notin ElementsOf(Ins(a))

LogicalOut(o) ==
  IF \E a \in Ops : g.ops[a].sgd THEN o \in Ops /\ g.ops[o].sgd
  ELSE \/ o \in Ops /\ Outs(o) = <<>>
       \/ \E t \in ElementsOf(OpOuts(o)) \cap Tensor : Unread(t)

Stays(o) == LogicalOut(o) \/ Len(OpOuts(o)) > 1

Live ==
  LET edges == Edges
      L[n \in Rounds] ==
        IF n = 0 THEN {o \in IrOps : Stays(o)}
        ELSE LET live == L[n - 1] IN live \cup {e[1] : e \in {f \in edges : f[2] \in live}}
  IN  L[Cardinality(IrOps)]

(***************************************************************************)
(* updateTopology and schedule: by the longest path from the inputs, and   *)
(* in one level in the order of _ops.  From(n) are the ops of level n and  *)
(* higher.                                                                 *)
(***************************************************************************)
Sorted(S) ==
  [x \in 1 .. Cardinality(S) |-> CHOOSE o \in S : Cardinality({q \in S : q < o}) = x - 1]

(***************************************************************************)
(* Mutant: by demand.  What the first SGD op needs, and that op, comes     *)
(* first, by levels; then the rest.                                        *)
(***************************************************************************)
scheduleByDemand ==
  LET edges == Edges
      live == Live
      sgds == {o \in live \cap Ops : g.ops[o].sgd}
      Needed[n \in Rounds] ==
        IF n = 0 THEN {o \in sgds : \A q \in sgds : o <= q}
        ELSE LET later == Needed[n - 1] IN later \cup {e[1] : e \in {f \in edges : f[2] \in later}}
      first == Needed[Cardinality(IrOps)]
      From[n \in Rounds] ==
        IF n = 0 THEN first
        ELSE LET above == From[n - 1] IN {e[2] : e \in {f \in edges : f[1] \in above}} \cap first
      UpTo[n \in Rounds] ==
        IF n = 0 THEN <<>> ELSE UpTo[n - 1] \o Sorted(From[n - 1] \ From[n])
  IN  UpTo[Cardinality(IrOps)] \o Sorted(live \ first)

schedule ==
  LET edges == Edges
      live == Live
      From[n \in Rounds] ==
        IF n = 0 THEN live
        ELSE LET above == From[n - 1] IN {e[2] : e \in {f \in edges : f[1] \in above}} \cap live
      UpTo[n \in Rounds] ==
        IF n = 0 THEN <<>> ELSE UpTo[n - 1] \o Sorted(From[n - 1] \ From[n])
  IN  UpTo[Cardinality(IrOps)]

(***************************************************************************)
(* isParallel: the first parent and the first child are on all processes.  *)
(* The result of an SGD op is given no device, whatever it is a part of.   *)
(***************************************************************************)
isParallel(a) ==
  /\ par[a][1] # 0
  /\ ~g.ops[a].sgd
  /\ Outs(a) # <<>> => chi[a][1] # 0

PlanOp(o) ==
  LET join == o \notin Ops /\ NodeOf(o).kind = "Join"
  IN  [kind |-> IF o \in Ops THEN "Compute"
                ELSE IF join THEN IF NodeOf(o).lay = -2 THEN "Reduce" ELSE "Gather"
                ELSE NodeOf(o).kind,
       pre |-> IF o \in Ops THEN 0 ELSE NodeOf(o).pre,
       post |-> IF o \in Ops THEN 0 ELSE NodeOf(o).lay,
       par |-> IF o \in Ops THEN isParallel(o) ELSE NodeOf(o).kind = "Transform",
       once |-> FALSE,
       ins |-> OpIns(o), outs |-> OpOuts(o),
       sgd |-> o \in Ops /\ g.ops[o].sgd]

States == {t \in Tensor : \E a \in Ops : g.ops[a].sgd /\ t \in {Ins(a)[1], Ins(a)[3]}}

Hollow ==
  LET H[n \in 0 .. Len(nodes)] ==
        n # 0 /\ nodes[n].kind = "Transform" /\ (nodes[n].pre = -1 \/ H[nodes[n].src])
  IN  {g.nt + n : n \in {m \in Node : H[m]}}

PlanOf(buffered) ==
  LET order == schedule
  IN  [ops |-> [x \in 1 .. Len(order) |-> PlanOp(order[x])],
       inits |-> <<>>,
       of |-> [b \in 1 .. g.nt + Len(nodes) |-> IF b <= g.nt THEN b ELSE nodes[b - g.nt].of],
       lay |-> [b \in 1 .. g.nt + Len(nodes) |->
                  IF b <= g.nt THEN P!Whole ELSE nodes[b - g.nt].lay],
       states |-> States,
       data |-> {t \in Tensor : t \notin States /\ ~Produced(t)},
       hollow |-> Hollow,
       local |-> \E a \in Ops : Optimizer(a),
       benchmark |-> g.benchmark,
       buffered |-> buffered]

-----------------------------------------------------------------------------
ProgInit ==
  /\ Init
  /\ plan = [ops |-> <<>>]
  /\ phase = "lowering"
  /\ at = 1
  /\ hetero = FALSE
  /\ writer = <<>> /\ master = <<>> /\ worker = <<>>
  /\ ran = {}
  /\ P!Start

Lower == Next /\ UNCHANGED progVars

(* The graph is lowered: code generation begins. *)
Generate ==
  /\ phase = "lowering" /\ pc = "done"
  /\ \E buffered \in 0 .. MaxBuffered : plan' = PlanOf(buffered)
  /\ phase' = "init"
  /\ UNCHANGED <<g, pc, k, i, lab, par, chi, tl, nodes, cut>>
  /\ UNCHANGED <<at, hetero, writer, master, worker, ran,
                 ip, sub, posted, got, iter, mem, alias, chan>>

Emit ==
  /\ P!EmitNext
  /\ UNCHANGED <<g, pc, k, i, lab, par, chi, tl, nodes, cut>>
  /\ UNCHANGED <<ip, sub, posted, got, iter, mem, alias, chan>>

Run(r) == P!RankStep(r) /\ UNCHANGED <<g, pc, k, i, lab, par, chi, tl, nodes, cut>>

Launch == P!Launch /\ UNCHANGED <<g, pc, k, i, lab, par, chi, tl, nodes, cut>>

ProgNext == Lower \/ Generate \/ Emit \/ Launch \/ \E r \in P!Rank : Run(r)

ProgSpec ==
  ProgInit /\ [][ProgNext]_allVars /\ \A r \in P!Rank : WF_progVars(Run(r))

-----------------------------------------------------------------------------
OperandsCurrent == phase = "running" => P!OperandsCurrent
ReplicaPartsFilled == phase = "running" => P!ReplicaPartsFilled

(***************************************************************************)
(* The schedule has a serial SGD op behind everything that reads its       *)
(* weight or momentum, or a part of it, which rank 0 may have in the       *)
(* original's own memory.  No edge of the graph says so of a reader that   *)
(* does not lead to the gradient, as the transposition of a later layer's  *)
(* weight, which only leads to the gradients of the layers before it: it   *)
(* is for the levels to put it first.                                      *)
(***************************************************************************)
UpdatesLast ==
  phase # "lowering" /\ ~plan.local =>
    \A t \in plan.states : \E x \in 1 .. Len(plan.ops) :
      /\ plan.ops[x].sgd /\ t \in P!Results(plan.ops[x])
      /\ \A y \in (1 .. Len(plan.ops)) \ {x} : \A z \in DOMAIN plan.ops[y].ins :
           plan.of[plan.ops[y].ins[z]] = t => y < x

SnapshotCurrent == P!SnapshotCurrent
LocalUpdates == P!LocalUpdates
CollectivesAgree == P!CollectivesAgree
Drained == P!Drained
NoneStuck == P!NoneStuck
PlanRunnable == phase # "lowering" => P!Runnable(plan)
RunTypeOK == phase = "running" => P!RunTypeOK

(***************************************************************************)
(* Whatever MPI buffers, no rank waits for ever: a program that was begun  *)
(* ends on all of them.                                                    *)
(***************************************************************************)
ProgramEnds == phase = "running" ~> P!Ended
================================================================================
