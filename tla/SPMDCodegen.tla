------------------------------ MODULE SPMDCodegen ------------------------------
(***************************************************************************)
(* The emission of the SPMD program: ParallelCodegen walks the scheduled   *)
(* ops and writes one text that every process of the MPI job runs.  Code   *)
(* of a Scatter or Gather has two sides, collected in two buffers while a  *)
(* run of such ops lasts (a hetero section) and written out behind         *)
(* "if(rank == 0)" and "if(rank != 0)" when the run ends.  One action is   *)
(* one iteration of a loop over ops.                                       *)
(***************************************************************************)
EXTENDS Integers, Sequences

CONSTANT Schedules    \* the scheduled graphs (IsPlan)

(***************************************************************************)
(* What the emission asks of a scheduled op: its kind; pre and post, the   *)
(* layouts a communication op names; par, whether its first parent and     *)
(* child are on every process (isParallel); once, whether setRunOnce was   *)
(* called.  inits lists the Scatters whose result has                      *)
(* TensorInitType::PARENTOP: they run when the tensors are initialised.    *)
(***************************************************************************)
Kind == {"Scatter", "Gather", "Reduce", "Transform", "Compute"}

IsPlan(p) ==
  /\ p.ops \in Seq([kind : Kind, pre : Int, post : Int, par : BOOLEAN, once : BOOLEAN])
  /\ p.inits \in Seq(1 .. Len(p.ops))
  /\ \A x \in 1 .. Len(p.inits) : p.ops[p.inits[x]].kind = "Scatter"
  /\ \A j \in 1 .. Len(p.ops) : p.ops[j].kind = "Transform" => p.ops[j].par

ASSUME PlanAssumption == \A p \in Schedules : IsPlan(p)

VARIABLES
  plan,     \* the scheduled graph; never changes
  phase,    \* "init": tensor initialisations, "calls": emitFuncCalls, "emitted"
  at,       \* the op emitFuncCalls is at
  hetero,   \* hetero_pending_
  writer,   \* writer_: the lines of the program
  master,   \* masterWriter_
  worker,   \* workerWriter_
  ran       \* the run-once ops whose run_ has been cleared

emitVars == <<plan, phase, at, hetero, writer, master, worker, ran>>

Role == {"master", "worker"}

(***************************************************************************)
(* A line stands for all that is written for one side of an op: side is    *)
(* whose part it plays, guard who comes to execute it, given the rank      *)
(* tests it ends up behind.                                                *)
(***************************************************************************)
Line(j, side, guard) == [op |-> j, side |-> side, guard |-> guard]

Runs(role, line) == line.guard \in {"all", role}

TwoSided(j) == plan.ops[j].kind \in {"Scatter", "Gather"}

Runable(j) == j \notin ran

Ran(js) == ran \cup {j \in js : plan.ops[j].once}

EmitInit ==
  /\ plan \in Schedules
  /\ phase = "init"
  /\ at = 1
  /\ hetero = FALSE
  /\ writer = <<>> /\ master = <<>> /\ worker = <<>>
  /\ ran = {}

(***************************************************************************)
(* emitTensorInitializations: both sides of the PARENTOP Scatters go to    *)
(* the buffers although no hetero section is open, so no rank test will    *)
(* precede them there.  Only the worker's loop asks runable().             *)
(***************************************************************************)
InitLines(side) == [x \in 1 .. Len(plan.inits) |-> Line(plan.inits[x], side, "all")]

EmitTensorInitializations ==
  /\ phase = "init"
  /\ master' = InitLines("master")
  /\ worker' = InitLines("worker")
  /\ ran' = Ran({plan.inits[x] : x \in 1 .. Len(plan.inits)})
  /\ phase' = "calls"
  /\ UNCHANGED <<plan, at, hetero, writer>>

(* Mutant: the iteration is counted for each side. *)
EmitTwoSidedTwice ==
  /\ phase = "calls" /\ at \in 1 .. Len(plan.ops)
  /\ TwoSided(at)
  /\ hetero' = TRUE
  /\ master' = IF Runable(at) THEN Append(master, Line(at, "master", "master")) ELSE master
  /\ worker' = worker
  /\ ran' = Ran({at})
  /\ at' = at + 2
  /\ UNCHANGED <<plan, phase, writer>>

(* Mutant: the op that opens a section is dispatched for one side only. *)
EmitTwoSidedOpening ==
  /\ phase = "calls" /\ at \in 1 .. Len(plan.ops)
  /\ TwoSided(at)
  /\ hetero' = TRUE
  /\ master' = Append(master, Line(at, "master", "master"))
  /\ worker' = IF hetero THEN Append(worker, Line(at, "worker", "worker")) ELSE worker
  /\ at' = at + 1
  /\ UNCHANGED <<plan, phase, writer, ran>>

(* Mutant: of the pieces of a Scatter only rank 0's side is dispatched. *)
EmitTwoSidedUnmatched ==
  /\ phase = "calls" /\ at \in 1 .. Len(plan.ops)
  /\ TwoSided(at)
  /\ hetero' = TRUE
  /\ master' = Append(master, Line(at, "master", "master"))
  /\ worker' = IF plan.ops[at].kind = "Scatter" /\ plan.ops[at].pre >= 0 THEN worker
               ELSE Append(worker, Line(at, "worker", "worker"))
  /\ at' = at + 1
  /\ UNCHANGED <<plan, phase, writer, ran>>

(***************************************************************************)
(* A Scatter or Gather: dispatched for the master's side, then for the     *)
(* worker's.  run_ is cleared by the first of the two.                     *)
(***************************************************************************)
EmitTwoSided ==
  /\ phase = "calls" /\ at \in 1 .. Len(plan.ops)
  /\ TwoSided(at)
  /\ hetero' = TRUE
  /\ master' = IF Runable(at) THEN Append(master, Line(at, "master", "master")) ELSE master
  /\ worker' = IF Runable(at) /\ ~plan.ops[at].once
               THEN Append(worker, Line(at, "worker", "worker")) ELSE worker
  /\ ran' = Ran({at})
  /\ at' = at + 1
  /\ UNCHANGED <<plan, phase, writer>>

(* Mutant: the buffers are cleared before they are written. *)
FlushedCleared == writer

(***************************************************************************)
(* Any other op first ends the hetero section, if one is open: heteroEnd   *)
(* writes the master's buffer, then the worker's, and clears both.         *)
(***************************************************************************)
Flushed == writer \o (IF hetero THEN master \o worker ELSE <<>>)

Left(buffer) == IF hetero THEN <<>> ELSE buffer

(* Mutant: the section is left open. *)
EmitOtherInSection ==
  /\ phase = "calls" /\ at \in 1 .. Len(plan.ops)
  /\ ~TwoSided(at) /\ ~(plan.ops[at].kind = "Transform" /\ plan.ops[at].pre = -2)
  /\ writer' = IF Runable(at) THEN Append(writer, Line(at, "all", "all")) ELSE writer
  /\ ran' = Ran({at})
  /\ at' = at + 1
  /\ UNCHANGED <<plan, phase, hetero, master, worker>>

(***************************************************************************)
(* A reduction, and an op whose first parent and child are on all          *)
(* processes, is for all ranks; any other op is for rank 0.                *)
(***************************************************************************)
ForAll(j) == plan.ops[j].kind = "Reduce" \/ plan.ops[j].par

SumTransform(j) == plan.ops[j].kind = "Transform" /\ plan.ops[j].pre = -2

EmitOther ==
  /\ phase = "calls" /\ at \in 1 .. Len(plan.ops)
  /\ ~TwoSided(at) /\ ~SumTransform(at)
  /\ writer' = IF Runable(at)
               THEN Append(Flushed, Line(at, "all", IF ForAll(at) THEN "all" ELSE "master"))
               ELSE Flushed
  /\ master' = Left(master)
  /\ worker' = Left(worker)
  /\ hetero' = FALSE
  /\ ran' = Ran({at})
  /\ at' = at + 1
  /\ UNCHANGED <<plan, phase>>

(***************************************************************************)
(* A Transform of partial sums: MPI_Reduce for all, then a hetero section  *)
(* of its own, in which rank 0 sends the parts.                            *)
(***************************************************************************)
EmitSumTransform ==
  /\ phase = "calls" /\ at \in 1 .. Len(plan.ops)
  /\ SumTransform(at)
  /\ IF Runable(at)
     THEN /\ writer' = Append(Flushed, Line(at, "all", "all"))
                         \o Append(Left(master), Line(at, "master", "master"))
                         \o Append(Left(worker), Line(at, "worker", "worker"))
          /\ master' = <<>>
          /\ worker' = <<>>
     ELSE /\ writer' = Flushed
          /\ master' = Left(master)
          /\ worker' = Left(worker)
  /\ hetero' = FALSE
  /\ ran' = Ran({at})
  /\ at' = at + 1
  /\ UNCHANGED <<plan, phase>>

(***************************************************************************)
(* The loop over the ops ends; a section that is still open stays in the   *)
(* buffers.                                                                *)
(***************************************************************************)
EndFuncCalls ==
  /\ phase = "calls" /\ at \notin 1 .. Len(plan.ops)
  /\ phase' = "emitted"
  /\ UNCHANGED <<plan, at, hetero, writer, master, worker, ran>>

EmitNext ==
  \/ EmitTensorInitializations
  \/ EmitTwoSided \/ EmitOther \/ EmitSumTransform
  \/ EndFuncCalls

EmitSpec == EmitInit /\ [][EmitNext]_emitVars

-----------------------------------------------------------------------------
Lines == Seq([op : Nat, side : {"master", "worker", "all"},
              guard : {"master", "worker", "all"}])

(* Every variable has its type. *)
EmitTypeOK ==
  /\ IsPlan(plan)
  /\ phase \in {"init", "calls", "emitted"}
  /\ at \in 1 .. Len(plan.ops) + 1
  /\ hetero \in BOOLEAN
  /\ writer \in Lines /\ master \in Lines /\ worker \in Lines
  /\ ran \subseteq 1 .. Len(plan.ops)

(***************************************************************************)
(* What a process of each role has been given: the text so far, and what   *)
(* waits for it in its buffer.  The initialisations come before the calls. *)
(***************************************************************************)
Emitted(role) == writer \o (IF role = "master" THEN master ELSE worker)

OfCalls(line) == line.op \notin {plan.inits[x] : x \in 1 .. Len(plan.inits)}

(***************************************************************************)
(* Neither role meets the ops in another order than the schedule's, though *)
(* their code is kept apart while a section lasts: else a rank would send  *)
(* what it has not computed, or two ranks would pass each other in their   *)
(* communications.                                                         *)
(***************************************************************************)
ProgramOrder ==
  \A role \in Role :
    \A x, y \in 1 .. Len(Emitted(role)) :
      /\ x < y
      /\ OfCalls(Emitted(role)[x]) /\ Runs(role, Emitted(role)[x])
      /\ OfCalls(Emitted(role)[y]) /\ Runs(role, Emitted(role)[y])
      => Emitted(role)[x].op <= Emitted(role)[y].op

(***************************************************************************)
(* Every op the loop has passed has been written for each role it          *)
(* concerns: a send never without its receive.  At the end all of it is in *)
(* the program, but for the Scatters and Gathers after the last other op,  *)
(* whose section nothing ends.  (Run-once ops are those initialisation     *)
(* runs.)                                                                  *)
(***************************************************************************)
Concerns(j, role) == role = "master" \/ TwoSided(j) \/ ForAll(j)

Closed(j) == phase = "emitted" /\ \E m \in j .. Len(plan.ops) : ~TwoSided(m)

NothingLost ==
  \A role \in Role : \A j \in 1 .. at - 1 :
    Concerns(j, role) /\ ~plan.ops[j].once =>
      \E x \in 1 .. Len(IF Closed(j) THEN writer ELSE Emitted(role)) :
        /\ Emitted(role)[x].op = j
        /\ Emitted(role)[x].side \in {role, "all"}
        /\ Runs(role, Emitted(role)[x])
================================================================================
