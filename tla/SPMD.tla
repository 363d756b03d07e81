---------------------------------- MODULE SPMD ----------------------------------
(***************************************************************************)
(* The processes of the MPI job run the emitted program: every rank        *)
(* executes its lines, iteration after iteration, on its own memory, and   *)
(* exchanges blocks of tensors with the others.  Memory is modelled cell   *)
(* by cell, as the strided MPI datatypes address it; a cell holds a stamp  *)
(* that says which element of which tensor it is, and of which iteration.  *)
(***************************************************************************)
EXTENDS SPMDCodegen

CONSTANTS
  NProcs,       \* nprocs
  Rows, Cols,   \* the shape of every original tensor
  MaxIter       \* max_iter

(***************************************************************************)
(* A plan that is run says more than IsPlan.  of[b] and lay[b] are buffer  *)
(* b's original tensor and its layout (Whole: the original itself, on rank *)
(* 0 only); an op has its operands ins and results outs among the buffers, *)
(* but an SGD op updates its first and third operand in place.  states are *)
(* the tensors that outlive an iteration, data those the loader fills.     *)
(* hollow are the parts that come of a Transform from a replica; local     *)
(* says that SGD ops work on parts; benchmark is the configuration's, and  *)
(* buffered how many messages to one rank the MPI library keeps.           *)
(***************************************************************************)
Whole == -3

Rank == 0 .. NProcs - 1

VARIABLES
  ip,       \* ip[r]: the line rank r is at
  sub,      \* sub[r]: where it is in the loop over ranks of that line
  posted,   \* posted[r]: it has sent what this turn of the loop sends
  got,      \* got[r]: it has received what this turn receives
  iter,     \* iter[r]: the iteration rank r is in
  mem,      \* mem[r][b]: the contents of buffer b on rank r; <<>> before the start
  alias,    \* the parts whose pointer rank 0 has set to the original's
  chan      \* chan[s][d]: messages from rank s to rank d, in order

runVars == <<ip, sub, posted, got, iter, mem, alias, chan>>

RankRole(r) == IF r = 0 THEN "master" ELSE "worker"

OpAt(r) == plan.ops[writer[ip[r]].op]
Side(r) == writer[ip[r]].side

Buffers == 1 .. Len(plan.lay)

-----------------------------------------------------------------------------
(***************************************************************************)
(* Blocks.  MPI_Type_vector(count, num, stride) at an offset names the     *)
(* cells offset + i * stride + j, i < count and j < num; the generator     *)
(* takes count and stride from the shape before and from the cut axis on,  *)
(* num = stride / p, and offset = num * r.                                 *)
(***************************************************************************)
Shape(lay) ==
  IF lay = 0 THEN <<Rows \div NProcs, Cols>>
  ELSE IF lay = 1 THEN <<Rows, Cols \div NProcs>> ELSE <<Rows, Cols>>

Size(lay) == Shape(lay)[1] * Shape(lay)[2]

Count(shape, axis) == IF axis = 0 THEN 1 ELSE shape[1]
Stride(shape, axis) == IF axis = 0 THEN shape[1] * shape[2] ELSE shape[2]

(* Mutant: the stride of the part, not of the tensor it is cut from. *)
VectorPacked(shape, axis, r) ==
  LET num == Stride(shape, axis) \div NProcs
  IN  [c \in 1 .. Count(shape, axis) * num |-> num * r + c]

(* The cells of the r-th block along axis, in a tensor of that shape, in order. *)
Vector(shape, axis, r) ==
  LET stride == Stride(shape, axis)
      num == stride \div NProcs
  IN  [c \in 1 .. Count(shape, axis) * num |->
         num * r + ((c - 1) \div num) * stride + ((c - 1) % num) + 1]

Pick(cells, buffer) == [c \in DOMAIN cells |-> buffer[cells[c]]]

Put(cells, data, buffer) ==
  [x \in DOMAIN buffer |->
     IF \E c \in DOMAIN cells : cells[c] = x
     THEN data[CHOOSE c \in DOMAIN cells : cells[c] = x] ELSE buffer[x]]

All(lay) == [c \in 1 .. Size(lay) |-> c]

(***************************************************************************)
(* Reference: cell c of rank r's part of a tensor in a layout is this cell *)
(* of the tensor, by its row and column.                                   *)
(***************************************************************************)
Global(lay, r, c) ==
  LET row == ((c - 1) \div Shape(lay)[2]) + (IF lay = 0 THEN r * Shape(lay)[1] ELSE 0)
      col == ((c - 1) % Shape(lay)[2]) + (IF lay = 1 THEN r * Shape(lay)[2] ELSE 0)
  IN  row * Cols + col + 1

Stamp(t, cell, version) == [t |-> t, cell |-> cell, version |-> version]

Part(t, lay, r, version) ==
  [c \in 1 .. Size(lay) |-> Stamp(t, Global(lay, r, c), version)]

(* What rank r's part holds if it holds one rank's summand of a sum. *)
Summand(t, r, version) ==
  [c \in 1 .. Size(-2) |-> [t |-> t, cell |-> c, version |-> version, rank |-> r]]

Unset == [t |-> 0, cell |-> 0, version |-> 0]

-----------------------------------------------------------------------------
(***************************************************************************)
(* Memory of a rank.  On rank 0 the part of a Scatter along axis 0, or of  *)
(* a replication, is no buffer of its own but the beginning of the         *)
(* original ("tname = fname").                                             *)
(***************************************************************************)
Place(r, b) == IF r = 0 /\ b \in alias THEN plan.of[b] ELSE b

Read(r, b) == Pick(All(plan.lay[b]), mem[r][Place(r, b)])

Write(r, b, cells, data) ==
  mem' = [mem EXCEPT ![r][Place(r, b)] = Put(cells, data, @)]

Start ==
  /\ ip = [r \in Rank |-> 0]
  /\ sub = [r \in Rank |-> 0]
  /\ posted = [r \in Rank |-> FALSE]
  /\ got = [r \in Rank |-> FALSE]
  /\ iter = [r \in Rank |-> 0]
  /\ mem = <<>>
  /\ alias = {}
  /\ chan = [s \in Rank |-> [d \in Rank |-> <<>>]]

(***************************************************************************)
(* The program starts: memory is allocated and the tensors that have an    *)
(* initialiser are filled, on rank 0.                                      *)
(***************************************************************************)
Launch ==
  /\ phase = "emitted"
  /\ phase' = "running"
  /\ mem' = [r \in Rank |-> [b \in Buffers |->
               IF r = 0 /\ b \in plan.states THEN Part(b, Whole, 0, 0)
               ELSE [c \in 1 .. Size(plan.lay[b]) |-> Unset]]]
  /\ UNCHANGED <<plan, at, hetero, writer, master, worker, ran>>
  /\ UNCHANGED <<ip, sub, posted, got, iter, alias, chan>>

-----------------------------------------------------------------------------
(***************************************************************************)
(* The turns of a line's loop over ranks: the ranks a turn sends to, what  *)
(* it sends, the ranks it receives from.  A turn without either is local.  *)
(* Scatter and Gather serve the other ranks first and rank 0 last; in a    *)
(* Transform everyone exchanges with the ranks i before and after it,      *)
(* beginning with itself, which is left out in benchmark mode.             *)
(***************************************************************************)
Moves(r) == OpAt(r).kind = "Transform" /\ OpAt(r).pre >= 0

FirstTurn(op) == IF op.kind = "Transform" /\ ~plan.benchmark THEN 0 ELSE 1

LastTurn(r) ==
  IF Side(r) = "master" /\ OpAt(r).pre >= 0 THEN NProcs
  ELSE IF Moves(r) THEN NProcs - 1 ELSE FirstTurn(OpAt(r))

Others == Rank \ {0}

Ahead(r) == (r + NProcs + sub[r]) % NProcs
Behind(r) == (r + NProcs - sub[r]) % NProcs

Dests(r) ==
  IF OpAt(r).kind = "Scatter" /\ Side(r) = "master"
  THEN IF OpAt(r).pre = -1 THEN Others ELSE {sub[r]} \cap Others
  ELSE IF OpAt(r).kind = "Gather" /\ Side(r) = "worker" THEN {0}
  ELSE IF OpAt(r).kind = "Reduce" /\ r # 0 THEN {0}
  ELSE IF Moves(r) THEN {Ahead(r)} ELSE {}

Sources(r) ==
  IF OpAt(r).kind = "Scatter" /\ Side(r) = "worker" THEN {0}
  ELSE IF OpAt(r).kind = "Gather" /\ Side(r) = "master" THEN {sub[r]} \cap Others
  ELSE IF OpAt(r).kind = "Reduce" /\ r = 0 THEN Others
  ELSE IF Moves(r) THEN {Behind(r)} ELSE {}

(***************************************************************************)
(* Tags are the part's tensor (getMPISendRecvTag); collective calls have   *)
(* their own order and no tag, so what they match is recorded instead.     *)
(***************************************************************************)
Collective(op) == op.kind = "Reduce" \/ (op.kind = "Scatter" /\ op.pre = -1)

Tag(op) == IF op.kind \in {"Scatter", "Transform"} THEN op.outs[1] ELSE op.ins[1]

Message(r, d) ==
  LET op == OpAt(r)
      from == Read(r, op.ins[1])
  IN  [collective |-> Collective(op),
       tag |-> Tag(op),
       data |-> IF op.kind = "Scatter" /\ op.pre >= 0
                THEN Pick(Vector(<<Rows, Cols>>, op.pre, d), from)
                ELSE IF op.kind = "Transform"
                THEN Pick(Vector(Shape(op.pre), op.post, d), from)
                ELSE from]

Running(r) == phase = "running" /\ ip[r] # 0

(* Mutant: MPI_Recv, then MPI_Send, in place of MPI_Sendrecv. *)
CanPostLast(r) ==
  /\ Running(r) /\ ~posted[r] /\ Dests(r) # {}
  /\ Sources(r) # {} => got[r]

CanPost(r) == Running(r) /\ ~posted[r] /\ Dests(r) # {}

(***************************************************************************)
(* MPI_Send, and the sending half of the others.  The call returns when    *)
(* the message was taken, or when no more than plan.buffered are left to  *)
(* the library (Sent).                                                     *)
(***************************************************************************)
Post(r) ==
  /\ CanPost(r)
  /\ chan' = [chan EXCEPT ![r] =
                [d \in Rank |-> IF d \in Dests(r) THEN Append(@[d], Message(r, d)) ELSE @[d]]]
  /\ posted' = [posted EXCEPT ![r] = TRUE]
  /\ alias' = IF OpAt(r).kind = "Scatter" /\ OpAt(r).pre = -1
              THEN alias \cup {OpAt(r).outs[1]} ELSE alias
  /\ UNCHANGED <<ip, sub, got, iter, mem>>

(* Mutant: MPI_Isend, and nothing waits for it. *)
SentAtOnce(r) == posted[r]

Sent(r) == posted[r] /\ \A d \in Dests(r) : Len(chan[r][d]) <= plan.buffered

(***************************************************************************)
(* MPI_Recv and the receiving half of the others: the first message from   *)
(* that rank which has the tag, or is the next collective one.             *)
(***************************************************************************)
Fits(r, m) ==
  /\ m.collective = Collective(OpAt(r))
  /\ m.collective \/ m.tag = Tag(OpAt(r))

Matching(r, s) == {x \in 1 .. Len(chan[s][r]) : Fits(r, chan[s][r][x])}

First(S) == CHOOSE x \in S : \A y \in S : x <= y

Taken(r, s) == chan[s][r][First(Matching(r, s))]

Without(q, x) == SubSeq(q, 1, x - 1) \o SubSeq(q, x + 1, Len(q))

(* MPI_SUM over the ranks' summands, cell by cell. *)
Sum(r, t) ==
  [c \in 1 .. Size(-2) |->
     LET own == Read(r, OpAt(r).ins[1])[c]
     IN  IF own = Unset THEN Unset
         ELSE IF \A s \in Others : Taken(r, s).data[c] = [own EXCEPT !.rank = s]
         THEN Stamp(t, c, own.version) ELSE Unset]

Received(r, s) ==
  LET op == OpAt(r)
      to == op.outs[1]
  IN  IF op.kind = "Gather"
      THEN Write(r, to, Vector(<<Rows, Cols>>, op.pre, s), Taken(r, s).data)
      ELSE IF op.kind = "Transform"
      THEN Write(r, to, Vector(Shape(op.post), op.pre, s), Taken(r, s).data)
      ELSE IF op.kind = "Reduce" THEN Write(r, to, All(-2), Sum(r, plan.of[to]))
      ELSE Write(r, to, All(plan.lay[to]), Taken(r, s).data)

CanReceive(r) ==
  /\ Running(r) /\ ~got[r] /\ Sources(r) # {}
  /\ \A s \in Sources(r) : Matching(r, s) # {}

Receive(r) ==
  /\ CanReceive(r)
  /\ \E s \in Sources(r) : Received(r, s)
  /\ chan' = [s \in Rank |->
                IF s \in Sources(r)
                THEN [chan[s] EXCEPT ![r] = Without(@, First(Matching(r, s)))] ELSE chan[s]]
  /\ got' = [got EXCEPT ![r] = TRUE]
  /\ UNCHANGED <<ip, sub, posted, iter, alias>>

(***************************************************************************)
(* To the next turn, the next line for this rank, or the end of the loop   *)
(* body.                                                                   *)
(***************************************************************************)
LinesFrom(r, x) == {y \in x .. Len(writer) : Runs(RankRole(r), writer[y])}

GoTo(r, x) ==
  IF LinesFrom(r, x) = {}
  THEN ip' = [ip EXCEPT ![r] = 0] /\ sub' = [sub EXCEPT ![r] = 0]
  ELSE LET y == First(LinesFrom(r, x))
       IN  /\ ip' = [ip EXCEPT ![r] = y]
           /\ sub' = [sub EXCEPT ![r] = FirstTurn(plan.ops[writer[y].op])]

Advance(r) ==
  /\ IF sub[r] < LastTurn(r) THEN sub' = [sub EXCEPT ![r] = @ + 1] /\ UNCHANGED ip
     ELSE GoTo(r, ip[r] + 1)
  /\ posted' = [posted EXCEPT ![r] = FALSE]
  /\ got' = [got EXCEPT ![r] = FALSE]

CanReturn(r) ==
  /\ Running(r) /\ Dests(r) \cup Sources(r) # {}
  /\ Dests(r) # {} => Sent(r)
  /\ Sources(r) # {} => got[r]

Return(r) ==
  /\ CanReturn(r)
  /\ Advance(r)
  /\ UNCHANGED <<iter, mem, alias, chan>>

-----------------------------------------------------------------------------
(***************************************************************************)
(* Local turns.  Rank 0's own part of a Scatter or Gather is copied, or,   *)
(* along axis 0, shared; in benchmark mode neither.  A Transform of a      *)
(* replica is a comment and no code.                                       *)
(***************************************************************************)
OwnPart(r) ==
  LET op == OpAt(r)
      to == op.outs[1]
      cells == Vector(<<Rows, Cols>>, op.pre, 0)
  IN  IF plan.benchmark THEN UNCHANGED <<mem, alias>>
      ELSE IF op.kind = "Gather"
      THEN Write(r, to, cells, Read(r, op.ins[1])) /\ UNCHANGED alias
      ELSE IF op.pre = 0 THEN alias' = alias \cup {to} /\ UNCHANGED mem
      ELSE Write(r, to, All(op.pre), Pick(cells, Read(r, op.ins[1]))) /\ UNCHANGED alias

(* Mutant: the momentum is passed by value. *)
ResultsWeight(op) == IF op.sgd THEN {op.ins[1]} ELSE {op.outs[x] : x \in DOMAIN op.outs}

(* The kernel: an SGD op updates its weight and momentum in place. *)
Results(op) == IF op.sgd THEN {op.ins[1], op.ins[3]} ELSE {op.outs[x] : x \in DOMAIN op.outs}

Result(r, b) ==
  IF plan.lay[b] = -2 THEN Summand(plan.of[b], r, iter[r])
  ELSE Part(plan.of[b], plan.lay[b], r, iter[r])

Kernel(r) ==
  /\ mem' = [mem EXCEPT ![r] =
               [x \in Buffers |->
                  IF \E b \in Results(OpAt(r)) : Place(r, b) = x
                  THEN LET b == CHOOSE b \in Results(OpAt(r)) : Place(r, b) = x
                       IN  Put(All(plan.lay[b]), Result(r, b), @[x])
                  ELSE @[x]]]
  /\ UNCHANGED alias

CanCompute(r) == Running(r) /\ Dests(r) \cup Sources(r) = {}

Local(r) ==
  /\ CanCompute(r)
  /\ IF OpAt(r).kind = "Compute" THEN Kernel(r)
     ELSE IF OpAt(r).kind \in {"Scatter", "Gather"} THEN OwnPart(r)
     ELSE UNCHANGED <<mem, alias>>
  /\ Advance(r)
  /\ UNCHANGED <<iter, chan>>

(***************************************************************************)
(* The head of the loop: rank 0 loads a batch into the input tensors.      *)
(***************************************************************************)
CanBegin(r) == phase = "running" /\ ip[r] = 0 /\ iter[r] < MaxIter

Begin(r) ==
  /\ CanBegin(r)
  /\ iter' = [iter EXCEPT ![r] = @ + 1]
  /\ GoTo(r, 1)
  /\ mem' = IF r = 0 /\ ~plan.benchmark
            THEN [mem EXCEPT ![0] =
                    [b \in Buffers |->
                       IF b \in plan.data
                       THEN Part(b, Whole, 0, iter[0] + 1) ELSE @[b]]]
            ELSE mem
  /\ UNCHANGED <<posted, got, alias, chan>>

RankStep(r) ==
  /\ Begin(r) \/ Post(r) \/ Receive(r) \/ Return(r) \/ Local(r)
  /\ UNCHANGED emitVars

RunNext == Launch \/ \E r \in Rank : RankStep(r)

(***************************************************************************)
(* What the ranks rely on in a plan: its Transforms are of whole data,     *)
(* its Scatters and Gathers of cut or replicated data, and it has no op of *)
(* the initialisation.                                                     *)
(***************************************************************************)
RunnableOp(op) ==
  /\ op.kind \in Kind /\ op.pre \in Int /\ op.par \in BOOLEAN /\ ~op.once
  /\ op.kind = "Scatter" => op.pre >= -1
  /\ op.kind = "Gather" => op.pre >= 0
  /\ op.kind = "Transform" => op.pre >= -1 /\ op.par

Runnable(p) ==
  /\ Len(p.ops) \in Nat /\ p.inits = <<>>
  /\ \A j \in 1 .. Len(p.ops) : RunnableOp(p.ops[j])
  /\ p.buffered \in Nat /\ p.benchmark \in BOOLEAN

(* A plan is turned into a program, and the ranks run it. *)
RunInit ==
  /\ Runnable(plan)
  /\ phase = "init" /\ at = 1 /\ hetero = FALSE
  /\ writer = <<>> /\ master = <<>> /\ worker = <<>> /\ ran = {}
  /\ Start

RunSpec ==
  RunInit /\ [][(EmitNext /\ UNCHANGED runVars) \/ RunNext]_<<emitVars, runVars>>

-----------------------------------------------------------------------------
(* The ranks stay within the program and the loop. *)
RunTypeOK ==
  \A r \in Rank :
    /\ ip[r] \in 0 .. Len(writer)
    /\ ip[r] # 0 => Runs(RankRole(r), writer[ip[r]]) /\ sub[r] \in 0 .. LastTurn(r)
    /\ posted[r] \in BOOLEAN /\ got[r] \in BOOLEAN
    /\ iter[r] \in 0 .. MaxIter
    /\ \A d \in Rank : Len(chan[r][d]) <= plan.buffered + 1

(***************************************************************************)
(* Whenever a rank calls a kernel, each operand holds, cell by cell, that  *)
(* rank's part of the tensor as this iteration has computed it, or, of a   *)
(* weight or momentum, as the last iteration left it: no block went to the *)
(* wrong rank or place, no conversion was overtaken, and no weight was     *)
(* updated before its last reader.                                         *)
(***************************************************************************)
Version(r, b) == IF plan.of[b] \in plan.states THEN iter[r] - 1 ELSE iter[r]

Current(r, b) == Read(r, b) = Part(plan.of[b], plan.lay[b], r, Version(r, b))

OperandsCurrent ==
  ~plan.benchmark /\ ~plan.local =>
    \A r \in Rank :
      Running(r) /\ OpAt(r).kind = "Compute" =>
        \A x \in DOMAIN OpAt(r).ins :
          OpAt(r).ins[x] \notin plan.hollow => Current(r, OpAt(r).ins[x])

(***************************************************************************)
(* TransformOp::getCost and the dispatcher on a Transform from a replica:  *)
(* "each worker already has replicate", so its part is pointed to or       *)
(* copied without communication.                                           *)
(***************************************************************************)
ReplicaPartsFilled ==
  ~plan.benchmark =>
    \A r \in Rank :
      Running(r) /\ OpAt(r).kind = "Compute" =>
        \A x \in DOMAIN OpAt(r).ins :
          OpAt(r).ins[x] \in plan.hollow => Current(r, OpAt(r).ins[x])

(***************************************************************************)
(* When rank 0 comes to save a snapshot, the original weights and momenta  *)
(* are those of the iterations it has counted.                             *)
(***************************************************************************)
SnapshotCurrent ==
  phase = "running" /\ ip[0] = 0 /\ ~plan.local =>
    \A t \in plan.states : Read(0, t) = Part(t, Whole, 0, iter[0])

(***************************************************************************)
(* The lowering's comment on decentralized optimizers: an SGD op on parts  *)
(* of a weight is a local update, of every process's own part.             *)
(***************************************************************************)
LocalUpdates ==
  phase = "running" =>
    \A j \in 1 .. Len(plan.ops) : \A r \in Rank :
      /\ plan.ops[j].kind = "Compute" /\ plan.ops[j].sgd
      /\ plan.lay[plan.ops[j].ins[1]] # Whole
      /\ ip[r] = 0
      => LET b == plan.ops[j].ins[1]
         IN  iter[r] > 0 => Read(r, b) = Part(plan.of[b], plan.lay[b], r, iter[r])

(***************************************************************************)
(* Ranks take part in the same collective calls in the same order: what a  *)
(* rank gets in one is what was given for it.                              *)
(***************************************************************************)
CollectivesAgree ==
  \A r \in Rank :
    Running(r) /\ ~got[r] =>
      \A s \in Sources(r) :
        Matching(r, s) # {} => Taken(r, s).tag = Tag(OpAt(r))

(***************************************************************************)
(* Every message sent is received: none is left for a later receive to be  *)
(* mistaken for its own.                                                   *)
(***************************************************************************)
Ended == \A r \in Rank : ip[r] = 0 /\ iter[r] = MaxIter

Drained ==
  phase = "running" /\ Ended => \A s, d \in Rank : chan[s][d] = <<>>

(***************************************************************************)
(* However few messages the library keeps, the ranks never all wait for    *)
(* one another: until the last has ended, one can go on.                   *)
(***************************************************************************)
CanStep(r) == CanBegin(r) \/ CanPost(r) \/ CanReceive(r) \/ CanReturn(r) \/ CanCompute(r)

NoneStuck == phase = "running" /\ ~Ended => \E r \in Rank : CanStep(r)
=================================================================================
