------------------------------- MODULE SPMDProofs -------------------------------
(***************************************************************************)
(* Proofs about the ranks at run time: for every number of processes and   *)
(* of iterations, every plan and every depth of the library's buffers,     *)
(* each message is received by the call it was sent for, none is left      *)
(* over, and the ranks never all wait for one another.                     *)
(***************************************************************************)
EXTENDS SPMD, SequenceTheorems, WellFoundedInduction, TLAPS

(* The sizes of the job. *)
JobOK == NProcs \in Nat /\ NProcs > 1 /\ MaxIter \in Nat

IsSeq(s) == Len(s) \in Nat /\ s = [x \in 1 .. Len(s) |-> s[x]]

-----------------------------------------------------------------------------
(***************************************************************************)
(* The emission of a runnable plan.  Both sides of a Scatter or Gather are *)
(* written, in two buffers of the same length, and every role meets its    *)
(* lines in the order of the ops, each op once.                            *)
(***************************************************************************)
OpsOf == 1 .. Len(plan.ops)

LineOf(line) ==
  /\ line.op \in OpsOf
  /\ TwoSided(line.op) => line.side \in Role /\ line.guard = line.side
  /\ ~TwoSided(line.op) =>
       line.side = "all" /\ line.guard = IF ForAll(line.op) THEN "all" ELSE "master"

(* A line of a buffer, of that side. *)
SideLine(line, role) ==
  line.op \in OpsOf /\ TwoSided(line.op) /\ line.side = role /\ line.guard = role

Buffered ==
  /\ IsSeq(master) /\ IsSeq(worker) /\ Len(worker) = Len(master)
  /\ ~hetero => Len(master) = 0
  /\ \A x \in 1 .. Len(master) :
       /\ SideLine(master[x], "master") /\ SideLine(worker[x], "worker")
       /\ worker[x].op = master[x].op /\ master[x].op < at
       /\ \A y \in 1 .. Len(writer) : writer[y].op < master[x].op
  /\ \A x, y \in 1 .. Len(master) : x < y => master[x].op < master[y].op

Increasing(text) ==
  \A role \in Role : \A x, y \in 1 .. Len(text) :
    x < y /\ Runs(role, text[x]) /\ Runs(role, text[y]) => text[x].op < text[y].op

(* A Scatter or Gather that one role meets, the other meets too. *)
Paired(text) ==
  \A x \in 1 .. Len(text) : TwoSided(text[x].op) =>
    \A role \in Role : \E y \in 1 .. Len(text) :
      text[y].op = text[x].op /\ Runs(role, text[y])

TextOK(text) ==
  /\ IsSeq(text)
  /\ \A x \in 1 .. Len(text) : LineOf(text[x]) /\ text[x].op < at
  /\ Increasing(text) /\ Paired(text)

Emission ==
  /\ Runnable(plan)
  /\ phase \in {"init", "calls", "emitted", "running"}
  /\ at \in 1 .. Len(plan.ops) + 1 /\ hetero \in BOOLEAN /\ ran = {}
  /\ phase = "init" => at = 1 /\ Len(writer) = 0 /\ Len(master) = 0 /\ ~hetero
  /\ Buffered /\ TextOK(writer)

-----------------------------------------------------------------------------
(***************************************************************************)
(* The transfers of the program: from rank s to rank d there is at most    *)
(* one in each op, at a turn of the sender's loop and a turn of the        *)
(* receiver's.                                                             *)
(***************************************************************************)
InText(j) == \E x \in 1 .. Len(writer) : writer[x].op = j

Around(s, d) == IF d >= s THEN d - s ELSE d - s + NProcs

Sends(op, s, d) ==
  \/ op.kind = "Scatter" /\ s = 0 /\ d # 0
  \/ op.kind \in {"Gather", "Reduce"} /\ s # 0 /\ d = 0
  \/ op.kind = "Transform" /\ op.pre >= 0 /\ (plan.benchmark => s # d)

Transfer(s, d, j) == j \in OpsOf /\ InText(j) /\ Sends(plan.ops[j], s, d)

SendTurn(op, s, d) ==
  IF op.kind = "Transform" THEN Around(s, d)
  ELSE IF op.kind = "Scatter" /\ op.pre >= 0 THEN d ELSE 1

RecvTurn(op, s, d) ==
  IF op.kind = "Transform" THEN Around(s, d)
  ELSE IF op.kind = "Gather" THEN s ELSE 1

(* Rank r is past turn t of op j of iteration n, or in it and has done its part. *)
Past(r, n, j, t, done) ==
  \/ n < iter[r]
  \/ /\ n = iter[r]
     /\ \/ ip[r] = 0
        \/ writer[ip[r]].op > j
        \/ writer[ip[r]].op = j /\ (sub[r] > t \/ (sub[r] = t /\ done))

HasSent(s, d, n, j) == Past(s, n, j, SendTurn(plan.ops[j], s, d), posted[s])

HasReceived(s, d, n, j) == Past(d, n, j, RecvTurn(plan.ops[j], s, d), got[d])

(* The transfers under way, each an iteration and an op. *)
Moment == (Nat \ {0}) \X Nat

Earlier(m, n) == m[1] < n[1] \/ (m[1] = n[1] /\ m[2] < n[2])

UnderWay(s, d, m) ==
  /\ m \in Moment
  /\ Transfer(s, d, m[2]) /\ HasSent(s, d, m[1], m[2]) /\ ~HasReceived(s, d, m[1], m[2])

(***************************************************************************)
(* The queue from s to d holds the transfers under way, in order: sent at  *)
(* the moments e.                                                          *)
(***************************************************************************)
Queue(s, d, e) ==
  /\ e \in [1 .. Len(chan[s][d]) -> Moment]
  /\ \A x, y \in 1 .. Len(chan[s][d]) : x < y => Earlier(e[x], e[y])
  /\ \A x \in 1 .. Len(chan[s][d]) :
       /\ UnderWay(s, d, e[x])
       /\ chan[s][d][x].tag = Tag(plan.ops[e[x][2]])
       /\ chan[s][d][x].collective = Collective(plan.ops[e[x][2]])
  /\ \A m \in Moment : UnderWay(s, d, m) => \E x \in 1 .. Len(chan[s][d]) : e[x] = m

Queues == \A s, d \in Rank : \E e : Queue(s, d, e)

(* What was received had been sent. *)
Causal ==
  \A s, d \in Rank : \A m \in Moment :
    Transfer(s, d, m[2]) /\ HasReceived(s, d, m[1], m[2]) => HasSent(s, d, m[1], m[2])

(* Each rank is in the program; it has posted or got only what there is. *)
Control ==
  \A r \in Rank :
    /\ ip[r] \in 0 .. Len(writer) /\ iter[r] \in 0 .. MaxIter
    /\ ip[r] = 0 => ~posted[r] /\ ~got[r]
    /\ ip[r] # 0 =>
         /\ iter[r] # 0 /\ Runs(RankRole(r), writer[ip[r]])
         /\ FirstTurn(OpAt(r)) <= sub[r] /\ sub[r] <= LastTurn(r)

(* No more is left to the library than it keeps, and what is being sent. *)
Bounded ==
  \A r, d \in Rank :
    /\ Len(chan[r][d]) <= plan.buffered + 1
    /\ ~(posted[r] /\ d \in Dests(r)) => Len(chan[r][d]) <= plan.buffered

Typed ==
  /\ ip \in [Rank -> Nat] /\ sub \in [Rank -> Nat] /\ iter \in [Rank -> Nat]
  /\ posted \in [Rank -> BOOLEAN] /\ got \in [Rank -> BOOLEAN]
  /\ chan = [s \in Rank |-> [d \in Rank |-> chan[s][d]]]
  /\ \A s, d \in Rank : IsSeq(chan[s][d])

Idle ==
  phase # "running" => \A r \in Rank : ip[r] = 0 /\ iter[r] = 0

-----------------------------------------------------------------------------
(* Any set of numbers has a least one, which First finds. *)
LEMMA Least ==
  ASSUME NEW S \in SUBSET Nat, S # {}
  PROVE  \E n \in S : \A m \in S : n <= m
<1>1. PICK n \in S : \A m \in S : <<m, n>> \notin OpToRel(<, Nat)
  BY NatLessThanWellFounded, WFMin, Zenon
<1>2. ASSUME NEW m \in S PROVE n <= m
  <2>1. <<m, n>> \notin {p \in Nat \X Nat : p[1] < p[2]}
    BY <1>1, Zenon DEF OpToRel
  <2> QED BY <2>1
<1> QED BY <1>2

LEMMA FirstIsLeast ==
  ASSUME NEW S \in SUBSET Nat, S # {}
  PROVE  First(S) \in S /\ \A y \in S : First(S) <= y
  BY Least DEF First

(* Sequences of anything. *)
LEMMA Elements ==
  ASSUME NEW s, IsSeq(s) PROVE s \in Seq({s[x] : x \in 1 .. Len(s)})
<1> DEFINE T == {s[x] : x \in 1 .. Len(s)}
<1>1. s \in [1 .. Len(s) -> T]
  BY DEF IsSeq
<1> QED BY <1>1, SeqDef DEF IsSeq

LEMMA Larger ==
  ASSUME NEW S, NEW T, S \subseteq T, NEW s \in Seq(S) PROVE s \in Seq(T)
  BY SeqDef

LEMMA Proper == ASSUME NEW T, NEW s \in Seq(T) PROVE IsSeq(s)
  BY LenProperties DEF IsSeq

LEMMA AppendAny ==
  ASSUME NEW s, NEW a, IsSeq(s)
  PROVE  /\ IsSeq(Append(s, a)) /\ Len(Append(s, a)) = Len(s) + 1
         /\ \A x \in 1 .. Len(s) : Append(s, a)[x] = s[x]
         /\ Append(s, a)[Len(s) + 1] = a
<1> DEFINE T == {s[x] : x \in 1 .. Len(s)} \cup {a}
<1>1. {s[x] : x \in 1 .. Len(s)} \subseteq T /\ a \in T
  OBVIOUS
<1>2. s \in Seq({s[x] : x \in 1 .. Len(s)})
  BY Elements
<1> HIDE DEF T
<1>3. s \in Seq(T)
  BY <1>1, <1>2, Larger
<1>4. /\ Append(s, a) \in Seq(T) /\ Len(Append(s, a)) = Len(s) + 1
      /\ \A x \in 1 .. Len(s) : Append(s, a)[x] = s[x]
      /\ Append(s, a)[Len(s) + 1] = a
  <2>1. a \in T
    BY <1>1
  <2> QED BY <1>3, <2>1, AppendProperties
<1>5. IsSeq(Append(s, a))
  BY <1>4, Proper
<1> QED BY <1>4, <1>5

LEMMA ConcatAny ==
  ASSUME NEW s, NEW t, IsSeq(s), IsSeq(t)
  PROVE  /\ IsSeq(s \o t) /\ Len(s \o t) = Len(s) + Len(t)
         /\ \A x \in 1 .. Len(s) : (s \o t)[x] = s[x]
         /\ \A x \in 1 .. Len(t) : (s \o t)[Len(s) + x] = t[x]
<1> DEFINE T == {s[x] : x \in 1 .. Len(s)} \cup {t[x] : x \in 1 .. Len(t)}
<1>1. {s[x] : x \in 1 .. Len(s)} \subseteq T /\ {t[x] : x \in 1 .. Len(t)} \subseteq T
  OBVIOUS
<1>2. s \in Seq({s[x] : x \in 1 .. Len(s)}) /\ t \in Seq({t[x] : x \in 1 .. Len(t)})
  BY Elements
<1> HIDE DEF T
<1>3. s \in Seq(T) /\ t \in Seq(T)
  BY <1>1, <1>2, Larger
<1>4. /\ s \o t \in Seq(T) /\ Len(s \o t) = Len(s) + Len(t)
      /\ \A i \in 1 .. Len(s) + Len(t) : (s \o t)[i] = IF i <= Len(s) THEN s[i] ELSE t[i - Len(s)]
  BY <1>3, ConcatProperties
<1>5. IsSeq(s \o t)
  BY <1>4, Proper
<1>6. Len(s) \in Nat /\ Len(t) \in Nat
  BY DEF IsSeq
<1>7. ASSUME NEW x \in 1 .. Len(t) PROVE (s \o t)[Len(s) + x] = t[x]
  BY <1>4, <1>6
<1> QED BY <1>4, <1>5, <1>6, <1>7

LEMMA DropFirst ==
  ASSUME NEW s, IsSeq(s), Len(s) > 0
  PROVE  /\ IsSeq(Without(s, 1)) /\ Len(Without(s, 1)) = Len(s) - 1
         /\ \A x \in 1 .. Len(s) - 1 : Without(s, 1)[x] = s[x + 1]
<1> DEFINE T == {s[x] : x \in 1 .. Len(s)}
           u == SubSeq(s, 2, Len(s))
<1>1. s \in Seq(T)
  BY Elements
<1> HIDE DEF T
<1>2. SubSeq(s, 1, 0) = <<>>
  BY <1>1
<1>3. u \in Seq(T) /\ Len(u) = Len(s) - 1 /\ \A x \in 1 .. Len(s) - 1 : u[x] = s[x + 1]
  <2>1. \A x \in 2 .. Len(s) : s[x] \in T
    BY <1>1 DEF IsSeq
  <2> QED BY <2>1, SubSeqProperties DEF IsSeq
<1>4. Without(s, 1) = <<>> \o u
  BY <1>2 DEF Without
<1> HIDE DEF u
<1>5. Without(s, 1) = u
  BY <1>3, <1>4
<1> QED BY <1>3, <1>5, Proper

LEMMA NoElements == IsSeq(<<>>) /\ Len(<<>>) = 0
  BY DEF IsSeq

-----------------------------------------------------------------------------
(* The emission. *)

LEMMA PlanFacts ==
  ASSUME Runnable(plan), NEW j \in OpsOf
  PROVE  ~plan.ops[j].once /\ RunnableOp(plan.ops[j])
  BY DEF Runnable, OpsOf, RunnableOp

LEMMA EmissionBegins == ASSUME RunInit PROVE Emission
<1>1. /\ IsSeq(writer) /\ IsSeq(master) /\ IsSeq(worker)
      /\ Len(writer) = 0 /\ Len(master) = 0 /\ Len(worker) = 0
  BY NoElements DEF RunInit
<1>2. Len(plan.ops) \in Nat
  BY DEF RunInit, Runnable
<1>3. Buffered
  BY <1>1 DEF Buffered
<1>4. TextOK(writer)
  BY <1>1 DEF TextOK, Increasing, Paired
<1>5. at \in 1 .. Len(plan.ops) + 1
  BY <1>2 DEF RunInit
<1>6. /\ Runnable(plan) /\ phase = "init" /\ hetero = FALSE /\ ran = {} /\ at = 1
  BY DEF RunInit
<1> QED
  BY <1>1, <1>3, <1>4, <1>5, <1>6 DEF Emission

LEMMA InitStep == ASSUME Emission, EmitTensorInitializations PROVE Emission'
<1>1. Len(plan.inits) = 0 /\ ran' = {}
  BY DEF Emission, Runnable, EmitTensorInitializations, Ran
<1>2. master' = <<>> /\ worker' = <<>>
  BY <1>1 DEF EmitTensorInitializations, InitLines
<1>3. /\ IsSeq(master') /\ IsSeq(worker') /\ Len(master') = 0 /\ Len(worker') = 0
  BY <1>2, NoElements
<1>4. Buffered'
  BY <1>3 DEF Buffered, IsSeq
<1>5. TextOK(writer)'
  BY DEF Emission, EmitTensorInitializations, TextOK, Increasing, Paired, IsSeq, LineOf,
         TwoSided, ForAll, OpsOf, Runs
<1> QED
  BY <1>1, <1>3, <1>4, <1>5 DEF Emission, EmitTensorInitializations

LEMMA TwoSidedStep == ASSUME Emission, EmitTwoSided PROVE Emission'
<1> PICK j \in OpsOf : j = at
  BY DEF Emission, EmitTwoSided, OpsOf
<1> DEFINE up == Line(j, "master", "master")
           down == Line(j, "worker", "worker")
<1>1. /\ at \in OpsOf /\ TwoSided(at) /\ ran' = {} /\ at' = at + 1 /\ hetero'
      /\ plan' = plan /\ phase' = phase /\ writer' = writer /\ phase = "calls"
      /\ master' = Append(master, up) /\ worker' = Append(worker, down)
  <2>1. at \in OpsOf /\ ~plan.ops[at].once
    BY PlanFacts DEF Emission, EmitTwoSided, OpsOf
  <2> QED BY <2>1 DEF Emission, EmitTwoSided, Runable, Ran
<1>2. /\ IsSeq(master') /\ IsSeq(worker')
      /\ Len(master') = Len(master) + 1 /\ Len(worker') = Len(master) + 1
      /\ \A x \in 1 .. Len(master) : master'[x] = master[x] /\ worker'[x] = worker[x]
      /\ master'[Len(master) + 1] = up /\ worker'[Len(master) + 1] = down
  BY <1>1, AppendAny DEF Emission, Buffered
<1>3. /\ up.op = j /\ down.op = j /\ j = at
      /\ SideLine(up, "master")' /\ SideLine(down, "worker")'
  BY <1>1 DEF Line, SideLine, TwoSided, OpsOf
<1>4. Len(master) \in Nat /\ Len(writer) \in Nat /\ Len(plan.ops) \in Nat /\ at \in Nat
  BY DEF Emission, Buffered, TextOK, IsSeq, Runnable
<1> HIDE DEF up, down
<1>5. Buffered'
  <2>1. ASSUME NEW x \in 1 .. Len(master)'
        PROVE  /\ SideLine(master[x], "master")' /\ SideLine(worker[x], "worker")'
               /\ worker[x].op' = master[x].op' /\ master[x].op' < at'
               /\ \A y \in 1 .. Len(writer)' : writer[y].op' < master[x].op'
    <3>1. CASE x \in 1 .. Len(master)
      BY <1>1, <1>2, <1>4, <3>1 DEF Emission, Buffered, SideLine, TwoSided, OpsOf
    <3>2. CASE x = Len(master) + 1
      BY <1>1, <1>2, <1>3, <1>4, <3>2 DEF Emission, TextOK
    <3> QED BY <1>2, <1>4, <3>1, <3>2
  <2>2. ASSUME NEW x \in 1 .. Len(master)', NEW y \in 1 .. Len(master)', x < y
        PROVE  master[x].op' < master[y].op'
    <3>1. x \in 1 .. Len(master)
      BY <1>2, <1>4, <2>2
    <3>2. CASE y \in 1 .. Len(master)
      BY <1>2, <2>2, <3>1, <3>2 DEF Emission, Buffered
    <3>3. CASE y = Len(master) + 1
      BY <1>2, <1>3, <3>1, <3>3 DEF Emission, Buffered
    <3> QED BY <1>2, <1>4, <3>2, <3>3
  <2> QED BY <1>1, <1>2, <1>4, <2>1, <2>2 DEF Buffered
<1>6. TextOK(writer)'
  BY <1>1, <1>4 DEF Emission, TextOK, Increasing, Paired, IsSeq, LineOf, TwoSided, ForAll, OpsOf, Runs
<1> QED
  BY <1>1, <1>4, <1>5, <1>6 DEF Emission, OpsOf

(* The text once the buffers are written behind it. *)
LEMMA Flushing ==
  ASSUME Emission
  PROVE  /\ IsSeq(Flushed) /\ Len(Flushed) = Len(writer) + Len(master) + Len(master)
         /\ \A x \in 1 .. Len(writer) : Flushed[x] = writer[x]
         /\ \A x \in 1 .. Len(master) :
              /\ Flushed[Len(writer) + x] = master[x]
              /\ Flushed[Len(writer) + Len(master) + x] = worker[x]
<1>1. /\ IsSeq(writer) /\ IsSeq(master) /\ IsSeq(worker) /\ Len(worker) = Len(master)
      /\ Len(writer) \in Nat /\ Len(master) \in Nat
  BY DEF Emission, Buffered, TextOK, IsSeq
<1>2. CASE hetero
  <2> DEFINE both == master \o worker
  <2>1. /\ IsSeq(both) /\ Len(both) = Len(master) + Len(master)
        /\ \A x \in 1 .. Len(master) : both[x] = master[x]
        /\ \A x \in 1 .. Len(master) : both[Len(master) + x] = worker[x]
    BY <1>1, ConcatAny
  <2>2. Flushed = writer \o both
    BY <1>2 DEF Flushed
  <2> HIDE DEF both
  <2>3. /\ IsSeq(Flushed) /\ Len(Flushed) = Len(writer) + Len(both)
        /\ \A x \in 1 .. Len(writer) : Flushed[x] = writer[x]
        /\ \A x \in 1 .. Len(both) : Flushed[Len(writer) + x] = both[x]
    <3>1. IsSeq(writer) /\ IsSeq(both)
      BY <1>1, <2>1
    <3> QED BY <2>2, <3>1, ConcatAny
  <2>4. ASSUME NEW x \in 1 .. Len(master)
        PROVE  /\ Flushed[Len(writer) + x] = master[x]
               /\ Flushed[Len(writer) + Len(master) + x] = worker[x]
    <3>1. x \in 1 .. Len(both) /\ Len(master) + x \in 1 .. Len(both)
      BY <1>1, <2>1
    <3>2. Len(writer) + Len(master) + x = Len(writer) + (Len(master) + x)
      BY <1>1
    <3> QED BY <2>1, <2>3, <3>1, <3>2
  <2> QED BY <1>1, <2>1, <2>3, <2>4
<1>3. CASE ~hetero
  <2>1. Flushed = writer \o <<>> /\ Len(master) = 0
    BY <1>3 DEF Flushed, Emission, Buffered
  <2>2. /\ IsSeq(Flushed) /\ Len(Flushed) = Len(writer) + 0
        /\ \A x \in 1 .. Len(writer) : Flushed[x] = writer[x]
    BY <1>1, <2>1, ConcatAny, NoElements
  <2> QED BY <1>1, <2>1, <2>2
<1> QED BY <1>2, <1>3 DEF Emission

(* Where a line of the flushed text comes from. *)
LEMMA Parts ==
  ASSUME Emission, NEW x \in 1 .. Len(Flushed)
  PROVE  \/ x \in 1 .. Len(writer) /\ Flushed[x] = writer[x]
         \/ /\ x - Len(writer) \in 1 .. Len(master)
            /\ Flushed[x] = master[x - Len(writer)]
         \/ /\ x - Len(writer) - Len(master) \in 1 .. Len(master)
            /\ Flushed[x] = worker[x - Len(writer) - Len(master)]
<1>1. Len(writer) \in Nat /\ Len(master) \in Nat
  BY DEF Emission, Buffered, TextOK, IsSeq
<1>2. CASE x \in 1 .. Len(writer)
  BY <1>2, Flushing
<1>3. CASE x - Len(writer) \in 1 .. Len(master)
  <2>1. x = Len(writer) + (x - Len(writer))
    BY <1>1
  <2> QED BY <1>3, <2>1, Flushing
<1>4. CASE x - Len(writer) - Len(master) \in 1 .. Len(master)
  <2>1. x = Len(writer) + Len(master) + (x - Len(writer) - Len(master))
    BY <1>1
  <2> QED BY <1>4, <2>1, Flushing
<1> QED BY <1>1, <1>2, <1>3, <1>4, Flushing

LEMMA FlushedOK == ASSUME Emission PROVE TextOK(Flushed)
<1>0. Len(writer) \in Nat /\ Len(master) \in Nat
  BY DEF Emission, Buffered, TextOK, IsSeq
<1>1. ASSUME NEW x \in 1 .. Len(Flushed) PROVE LineOf(Flushed[x]) /\ Flushed[x].op < at
  BY Parts DEF Emission, Buffered, TextOK, SideLine, LineOf, Role
<1>2. ASSUME NEW role \in Role, NEW x \in 1 .. Len(Flushed), NEW y \in 1 .. Len(Flushed),
             x < y, Runs(role, Flushed[x]), Runs(role, Flushed[y])
      PROVE  Flushed[x].op < Flushed[y].op
  <2>1. CASE x \in 1 .. Len(writer) /\ Flushed[x] = writer[x]
    <3>1. CASE y \in 1 .. Len(writer) /\ Flushed[y] = writer[y]
      BY <1>2, <2>1, <3>1 DEF Emission, TextOK, Increasing
    <3>2. CASE /\ y - Len(writer) \in 1 .. Len(master)
               /\ Flushed[y] = master[y - Len(writer)]
      BY <2>1, <3>2 DEF Emission, Buffered
    <3>3. CASE /\ y - Len(writer) - Len(master) \in 1 .. Len(master)
               /\ Flushed[y] = worker[y - Len(writer) - Len(master)]
      BY <2>1, <3>3 DEF Emission, Buffered
    <3> QED BY <3>1, <3>2, <3>3, Parts
  <2>2. CASE /\ x - Len(writer) \in 1 .. Len(master)
             /\ Flushed[x] = master[x - Len(writer)]
    <3>1. role = "master"
      BY <1>2, <2>2 DEF Emission, Buffered, SideLine, Runs, Role
    <3>2. y \notin 1 .. Len(writer)
      BY <1>0, <1>2, <2>2
    <3>3. CASE /\ y - Len(writer) \in 1 .. Len(master)
               /\ Flushed[y] = master[y - Len(writer)]
      <4>1. x - Len(writer) < y - Len(writer)
        BY <1>0, <1>2
      <4> QED BY <2>2, <3>3, <4>1 DEF Emission, Buffered
    <3>4. CASE /\ y - Len(writer) - Len(master) \in 1 .. Len(master)
               /\ Flushed[y] = worker[y - Len(writer) - Len(master)]
      BY <1>2, <3>1, <3>4 DEF Emission, Buffered, SideLine, Runs, Role
    <3> QED BY <3>2, <3>3, <3>4, Parts
  <2>3. CASE /\ x - Len(writer) - Len(master) \in 1 .. Len(master)
             /\ Flushed[x] = worker[x - Len(writer) - Len(master)]
    <3>1. y \notin 1 .. Len(writer) /\ y - Len(writer) \notin 1 .. Len(master)
      BY <1>0, <1>2, <2>3
    <3>2. PICK i, k \in 1 .. Len(master) :
            i < k /\ Flushed[x] = worker[i] /\ Flushed[y] = worker[k]
      <4>1. /\ y - Len(writer) - Len(master) \in 1 .. Len(master)
            /\ Flushed[y] = worker[y - Len(writer) - Len(master)]
        BY <3>1, Parts
      <4>2. x - Len(writer) - Len(master) < y - Len(writer) - Len(master)
        BY <1>0, <1>2
      <4> QED BY <2>3, <4>1, <4>2
    <3> QED BY <3>2 DEF Emission, Buffered
  <2> QED BY <2>1, <2>2, <2>3, Parts
<1>3. ASSUME NEW x \in 1 .. Len(Flushed), TwoSided(Flushed[x].op), NEW role \in Role
      PROVE  \E y \in 1 .. Len(Flushed) : Flushed[y].op = Flushed[x].op /\ Runs(role, Flushed[y])
  <2>1. CASE x \in 1 .. Len(writer) /\ Flushed[x] = writer[x]
    <3>1. PICK y \in 1 .. Len(writer) : writer[y].op = writer[x].op /\ Runs(role, writer[y])
      BY <1>3, <2>1 DEF Emission, TextOK, Paired
    <3>2. y \in 1 .. Len(Flushed) /\ Flushed[y] = writer[y]
      BY <1>0, Flushing
    <3> QED BY <2>1, <3>1, <3>2
  <2>2. ASSUME NEW i \in 1 .. Len(master), Flushed[x] = master[i] \/ Flushed[x] = worker[i]
        PROVE  \E y \in 1 .. Len(Flushed) : Flushed[y].op = Flushed[x].op /\ Runs(role, Flushed[y])
    <3>1. /\ Len(writer) + i \in 1 .. Len(Flushed)
          /\ Len(writer) + Len(master) + i \in 1 .. Len(Flushed)
      BY <1>0, Flushing
    <3>2. /\ Flushed[Len(writer) + i] = master[i]
          /\ Flushed[Len(writer) + Len(master) + i] = worker[i]
      BY Flushing
    <3>3. /\ worker[i].op = master[i].op
          /\ Runs("master", master[i]) /\ Runs("worker", worker[i])
      BY DEF Emission, Buffered, SideLine, Runs
    <3> QED BY <2>2, <3>1, <3>2, <3>3 DEF Role
  <2> QED BY <2>1, <2>2, Parts
<1> QED
  BY <1>1, <1>2, <1>3, Flushing DEF TextOK, Increasing, Paired

LEMMA OtherStep == ASSUME Emission, EmitOther PROVE Emission'
<1> PICK j \in OpsOf : j = at
  BY DEF Emission, EmitOther, OpsOf
<1> PICK text, last :
       text = Flushed /\ last = Line(j, "all", IF ForAll(j) THEN "all" ELSE "master")
  OBVIOUS
<1>1. /\ ~TwoSided(j) /\ ran' = {} /\ at' = j + 1 /\ hetero' = FALSE
      /\ plan' = plan /\ phase' = phase /\ phase = "calls"
      /\ writer' = Append(text, last)
      /\ master' = Left(master) /\ worker' = Left(worker)
  <2>1. ~plan.ops[j].once
    BY PlanFacts DEF Emission
  <2> QED BY <2>1 DEF Emission, EmitOther, Runable, Ran
<1>2. /\ TextOK(text) /\ IsSeq(text) /\ Len(text) \in Nat
  BY FlushedOK DEF TextOK, IsSeq
<1>3. /\ IsSeq(writer') /\ Len(writer') = Len(text) + 1
      /\ \A x \in 1 .. Len(text) : writer'[x] = text[x]
      /\ writer'[Len(text) + 1] = last
  BY <1>1, <1>2, AppendAny
<1>4. /\ IsSeq(master') /\ IsSeq(worker') /\ Len(master') = 0 /\ Len(worker') = 0
  BY <1>1, NoElements DEF Left, Emission, Buffered
<1>5. /\ \A n : TwoSided(n)' <=> TwoSided(n)
      /\ \A line : LineOf(line)' <=> LineOf(line)
  BY <1>1 DEF TwoSided, LineOf, ForAll, OpsOf
<1>6. LineOf(last) /\ last.op = j
  BY <1>1 DEF LineOf, Line
<1>7. \A x \in 1 .. Len(text) : text[x].op < j /\ LineOf(text[x])
  BY <1>2 DEF TextOK
<1>8. j \in Nat /\ Len(plan.ops) \in Nat /\ \A x \in 1 .. Len(text) : text[x].op \in Nat
  BY <1>7 DEF OpsOf, LineOf, Emission, Runnable
<1>9. ASSUME NEW x \in 1 .. Len(writer)' PROVE LineOf(writer[x])' /\ writer[x].op' < at'
  <2>1. CASE x \in 1 .. Len(text)
    <3>1. writer'[x] = text[x]
      BY <1>3, <2>1
    <3>2. LineOf(text[x])' /\ text[x].op < j + 1
      <4>1. LineOf(text[x]) /\ text[x].op < j /\ text[x].op \in Nat
        BY <1>7, <1>8, <2>1
      <4> QED BY <1>5, <1>8, <4>1
    <3> QED BY <1>1, <3>1, <3>2
  <2>2. CASE x = Len(text) + 1
    BY <1>1, <1>3, <1>5, <1>6, <1>8, <2>2
  <2> QED BY <1>2, <1>3, <2>1, <2>2
<1>10. Increasing(writer)'
  <2> SUFFICES ASSUME NEW role \in Role, NEW x \in 1 .. Len(writer'), NEW y \in 1 .. Len(writer'),
                      x < y, Runs(role, writer'[x]), Runs(role, writer'[y])
               PROVE  writer'[x].op < writer'[y].op
    BY DEF Increasing, Runs
  <2>1. x \in 1 .. Len(text)
    BY <1>2, <1>3
  <2>2. CASE y \in 1 .. Len(text)
    BY <1>2, <1>3, <2>1, <2>2 DEF TextOK, Increasing
  <2>3. CASE y = Len(text) + 1
    BY <1>3, <1>6, <1>7, <2>1, <2>3
  <2> QED BY <1>2, <1>3, <2>2, <2>3
<1>11. Paired(writer)'
  <2> SUFFICES ASSUME NEW x \in 1 .. Len(writer'), TwoSided(writer'[x].op), NEW role \in Role
               PROVE  \E y \in 1 .. Len(writer') :
                        writer'[y].op = writer'[x].op /\ Runs(role, writer'[y])
    BY <1>5 DEF Paired, Runs
  <2>1. x \in 1 .. Len(text)
    BY <1>1, <1>2, <1>3, <1>6
  <2>2. PICK y \in 1 .. Len(text) : text[y].op = text[x].op /\ Runs(role, text[y])
    BY <1>2, <1>3, <2>1 DEF TextOK, Paired
  <2> QED BY <1>2, <1>3, <2>1, <2>2
<1>12. Buffered'
  BY <1>4 DEF Buffered
<1>13. TextOK(writer)'
  BY <1>3, <1>9, <1>10, <1>11 DEF TextOK, IsSeq
<1>14. Runnable(plan)' /\ (at \in 1 .. Len(plan.ops) + 1)'
  BY <1>1, <1>8 DEF Emission, OpsOf, Runnable, RunnableOp
<1>15. phase' \in {"init", "calls", "emitted", "running"} /\ hetero' \in BOOLEAN /\ ran' = {}
  BY <1>1
<1>16. (phase = "init" => at = 1 /\ Len(writer) = 0 /\ Len(master) = 0 /\ ~hetero)'
  BY <1>1
<1> QED
  BY <1>12, <1>13, <1>14, <1>15, <1>16 DEF Emission

LEMMA SumStep == ASSUME Emission, EmitSumTransform PROVE FALSE
<1>1. at \in OpsOf /\ RunnableOp(plan.ops[at])
  BY PlanFacts DEF Emission, EmitSumTransform, OpsOf
<1> QED BY <1>1 DEF EmitSumTransform, SumTransform, RunnableOp

(* What does not touch the text leaves it as it is. *)
LEMMA TextKept ==
  ASSUME Emission, UNCHANGED <<plan, at, hetero, writer, master, worker, ran>>,
         phase' = phase \/ phase' \in {"calls", "emitted", "running"}
  PROVE  Emission'
<1>1. Buffered'
  BY DEF Emission, Buffered, IsSeq, SideLine, TwoSided, OpsOf
<1>2. TextOK(writer)'
  BY DEF Emission, TextOK, Increasing, Paired, IsSeq, LineOf, TwoSided, ForAll, OpsOf, Runs
<1>3. Runnable(plan)' /\ (at \in 1 .. Len(plan.ops) + 1)'
  <2>1. plan' = plan /\ at' = at
    OBVIOUS
  <2> QED BY <2>1 DEF Emission, Runnable, RunnableOp
<1>4. phase' \in {"init", "calls", "emitted", "running"}
  BY DEF Emission
<1>5. (phase = "init" => at = 1 /\ Len(writer) = 0 /\ Len(master) = 0 /\ ~hetero)'
  BY DEF Emission
<1> QED BY <1>1, <1>2, <1>3, <1>4, <1>5 DEF Emission

LEMMA EmitStep == ASSUME Emission, EmitNext PROVE Emission'
<1>1. CASE EndFuncCalls
  BY <1>1, TextKept DEF EndFuncCalls
<1> QED
  BY <1>1, InitStep, TwoSidedStep, OtherStep, SumStep DEF EmitNext

-----------------------------------------------------------------------------
(* The line a rank is at, and the turns of its loop. *)

LEMMA AtLine ==
  ASSUME JobOK, Emission, Typed, Control, NEW r \in Rank, ip[r] # 0
  PROVE  /\ ip[r] \in 1 .. Len(writer) /\ Len(writer) \in Nat
         /\ writer[ip[r]].op \in OpsOf /\ writer[ip[r]].op \in Nat
         /\ InText(writer[ip[r]].op)
         /\ RunnableOp(OpAt(r)) /\ OpAt(r) = plan.ops[writer[ip[r]].op]
         /\ OpAt(r).kind \in {"Scatter", "Gather"} => Side(r) = RankRole(r)
         /\ OpAt(r).kind \notin {"Scatter", "Gather"} => Side(r) = "all"
         /\ Runs(RankRole(r), writer[ip[r]])
<1>1. ip[r] \in 1 .. Len(writer) /\ Len(writer) \in Nat
  BY DEF Control, Emission, TextOK, IsSeq
<1>2. LineOf(writer[ip[r]]) /\ Runs(RankRole(r), writer[ip[r]])
  BY <1>1 DEF Control, Emission, TextOK
<1>3. writer[ip[r]].op \in OpsOf /\ Len(plan.ops) \in Nat
  BY <1>2 DEF LineOf, Emission, Runnable
<1>4. RunnableOp(OpAt(r)) /\ OpAt(r) = plan.ops[writer[ip[r]].op]
  BY <1>3, PlanFacts DEF OpAt, Emission
<1>5. /\ OpAt(r).kind \in {"Scatter", "Gather"} => Side(r) = RankRole(r)
      /\ OpAt(r).kind \notin {"Scatter", "Gather"} => Side(r) = "all"
  BY <1>2, <1>4 DEF LineOf, TwoSided, Runs, Side, RankRole, Role
<1>6. writer[ip[r]].op \in Nat /\ InText(writer[ip[r]].op)
  BY <1>1, <1>3 DEF InText, OpsOf
<1> QED BY <1>1, <1>2, <1>3, <1>4, <1>5, <1>6

(* A remainder, of what is not much larger than the divisor. *)
LEMMA Remainder ==
  ASSUME NEW n \in Nat, n > 0, NEW a \in n .. 3 * n - 1
  PROVE  a % n = IF a < 2 * n THEN a - n ELSE a - 2 * n
<1> DEFINE q == a \div n
           m == a % n
<1>1. a \in Nat /\ n \in Nat \ {0}
  OBVIOUS
<1>2. q \in Int /\ m \in 0 .. n - 1 /\ a = n * q + m
  BY <1>1
<1> HIDE DEF q, m
<1>3. q >= 1
  <2>1. ASSUME q <= 0 PROVE FALSE
    <3>1. n * q <= 0
      BY <1>2, <2>1
    <3> QED BY <1>2, <3>1
  <2> QED BY <1>2, <2>1
<1>4. q <= 2
  <2>1. ASSUME q >= 3 PROVE FALSE
    <3>1. n * q >= n * 3
      BY <1>2, <2>1
    <3> QED BY <1>2, <3>1
  <2> QED BY <1>2, <2>1
<1>5. CASE q = 1
  <2>1. m = a - n
    BY <1>2, <1>5
  <2> QED BY <1>2, <2>1 DEF m
<1>6. CASE q = 2
  <2>1. m = a - 2 * n
    BY <1>2, <1>6
  <2> QED BY <1>2, <2>1 DEF m
<1> QED BY <1>2, <1>3, <1>4, <1>5, <1>6

LEMMA Ring ==
  ASSUME JobOK, NEW r \in Rank, NEW d \in Rank, sub[r] \in 0 .. NProcs - 1
  PROVE  /\ Ahead(r) = d <=> Around(r, d) = sub[r]
         /\ Behind(r) = d <=> Around(d, r) = sub[r]
         /\ Ahead(r) \in Rank /\ Behind(r) \in Rank
<1>1. /\ Ahead(r) = IF r + sub[r] < NProcs THEN r + sub[r] ELSE r + sub[r] - NProcs
  <2>1. r + NProcs + sub[r] \in NProcs .. 3 * NProcs - 1
    BY DEF JobOK, Rank
  <2> QED BY <2>1, Remainder DEF JobOK, Ahead, Rank
<1>2. /\ Behind(r) = IF r >= sub[r] THEN r - sub[r] ELSE r - sub[r] + NProcs
  <2>1. CASE r >= sub[r]
    <3>1. r + NProcs - sub[r] \in NProcs .. 3 * NProcs - 1
      BY <2>1 DEF JobOK, Rank
    <3> QED BY <2>1, <3>1, Remainder DEF JobOK, Behind, Rank
  <2>2. CASE r < sub[r]
    <3>1. r + NProcs - sub[r] \in 0 .. NProcs - 1
      BY <2>2 DEF JobOK, Rank
    <3> QED BY <2>2, <3>1 DEF JobOK, Behind, Rank
  <2> QED BY <2>1, <2>2 DEF JobOK, Rank
<1> QED BY <1>1, <1>2 DEF JobOK, Around, Rank

(***************************************************************************)
(* The turns of a rank's loop are those of its transfers: it sends to d,   *)
(* or receives from it, in the turn the transfer has, which the loop has.  *)
(***************************************************************************)
LEMMA Turns ==
  ASSUME JobOK, Emission, Typed, Control, NEW r \in Rank, ip[r] # 0,
         NEW d \in Rank, NEW j, j = writer[ip[r]].op
  PROVE  /\ d \in Dests(r) <=> Transfer(r, d, j) /\ SendTurn(plan.ops[j], r, d) = sub[r]
         /\ d \in Sources(r) <=> Transfer(d, r, j) /\ RecvTurn(plan.ops[j], d, r) = sub[r]
         /\ Transfer(r, d, j) =>
              /\ FirstTurn(plan.ops[j]) <= SendTurn(plan.ops[j], r, d)
              /\ SendTurn(plan.ops[j], r, d) <= LastTurn(r)
         /\ Transfer(d, r, j) =>
              /\ FirstTurn(plan.ops[j]) <= RecvTurn(plan.ops[j], d, r)
              /\ RecvTurn(plan.ops[j], d, r) <= LastTurn(r)
         /\ Dests(r) \subseteq Rank /\ Sources(r) \subseteq Rank
         /\ FirstTurn(plan.ops[j]) <= LastTurn(r)
<1> PICK op : op = plan.ops[j]
  OBVIOUS
<1>1. /\ OpAt(r) = op /\ RunnableOp(op) /\ (Transfer(r, d, j) <=> Sends(op, r, d))
      /\ (Transfer(d, r, j) <=> Sends(op, d, r))
      /\ op.kind \in {"Scatter", "Gather"} => Side(r) = RankRole(r)
      /\ op.kind \notin {"Scatter", "Gather"} => Side(r) = "all"
  BY AtLine DEF Transfer
<1>2. /\ FirstTurn(op) <= sub[r] /\ sub[r] <= LastTurn(r) /\ sub[r] \in Nat
      /\ NProcs \in Nat /\ NProcs > 1
      /\ r \in 0 .. NProcs - 1 /\ d \in 0 .. NProcs - 1 /\ 0 \in Rank
  BY <1>1 DEF Control, Typed, JobOK, Rank
<1>3. CASE op.kind = "Scatter"
  BY <1>1, <1>2, <1>3 DEF RunnableOp, Dests, Sources, Sends, SendTurn, RecvTurn, FirstTurn,
       LastTurn, RankRole, Others, Rank, Moves
<1>4. CASE op.kind = "Gather"
  BY <1>1, <1>2, <1>4 DEF RunnableOp, Dests, Sources, Sends, SendTurn, RecvTurn, FirstTurn,
       LastTurn, RankRole, Others, Rank, Moves
<1>5. CASE op.kind = "Reduce"
  BY <1>1, <1>2, <1>5 DEF RunnableOp, Dests, Sources, Sends, SendTurn, RecvTurn, FirstTurn,
       LastTurn, RankRole, Others, Rank, Moves
<1>6. CASE op.kind = "Compute" \/ (op.kind = "Transform" /\ ~(op.pre >= 0))
  <2>1. /\ ~Moves(r) /\ LastTurn(r) = FirstTurn(op)
        /\ Dests(r) = {} /\ Sources(r) = {}
    BY <1>1, <1>6 DEF Moves, LastTurn, Dests, Sources
  <2>2. ~Sends(op, r, d) /\ ~Sends(op, d, r) /\ FirstTurn(op) \in Nat
    BY <1>6 DEF Sends, FirstTurn
  <2> QED BY <1>1, <2>1, <2>2
<1>7. CASE op.kind = "Transform" /\ op.pre >= 0
  <2>1. Moves(r) /\ LastTurn(r) = NProcs - 1
    BY <1>1, <1>7 DEF Moves, LastTurn
  <2>2. Dests(r) = {Ahead(r)} /\ Sources(r) = {Behind(r)}
    BY <1>1, <1>7, <2>1 DEF Dests, Sources
  <2>3. sub[r] \in 0 .. NProcs - 1
    BY <1>2, <2>1
  <2>4. /\ Ahead(r) = d <=> Around(r, d) = sub[r]
        /\ Behind(r) = d <=> Around(d, r) = sub[r]
        /\ Ahead(r) \in Rank /\ Behind(r) \in Rank
    BY <2>3, Ring
  <2>5. /\ Around(r, d) \in 0 .. NProcs - 1 /\ Around(d, r) \in 0 .. NProcs - 1
        /\ (Around(r, d) = 0 <=> r = d) /\ (Around(d, r) = 0 <=> r = d)
    BY <1>2 DEF Around
  <2>6. plan.benchmark \in BOOLEAN /\ FirstTurn(op) = IF plan.benchmark THEN 1 ELSE 0
    BY <1>7 DEF FirstTurn, Emission, Runnable
  <2>7. /\ SendTurn(op, r, d) = Around(r, d) /\ RecvTurn(op, d, r) = Around(d, r)
        /\ Sends(op, r, d) <=> (plan.benchmark => r # d)
        /\ Sends(op, d, r) <=> (plan.benchmark => r # d)
    BY <1>7 DEF SendTurn, RecvTurn, Sends
  <2> QED BY <1>1, <1>2, <2>1, <2>2, <2>4, <2>5, <2>6, <2>7
<1> QED BY <1>1, <1>3, <1>4, <1>5, <1>6, <1>7 DEF RunnableOp, Kind

(* Both ends of a transfer have a line of its op. *)
LEMMA HasLine ==
  ASSUME JobOK, Emission, NEW s \in Rank, NEW d \in Rank, NEW j, Transfer(s, d, j),
         NEW r \in {s, d}
  PROVE  \E x \in 1 .. Len(writer) : writer[x].op = j /\ Runs(RankRole(r), writer[x])
<1>1. PICK x \in 1 .. Len(writer) : writer[x].op = j
  BY DEF Transfer, InText
<1>2. LineOf(writer[x]) /\ RankRole(r) \in Role
  BY DEF Emission, TextOK, RankRole, Role
<1>3. CASE TwoSided(j)
  BY <1>1, <1>2, <1>3 DEF Emission, TextOK, Paired
<1>4. CASE ~TwoSided(j)
  <2>1. plan.ops[j].kind \in {"Reduce", "Transform"} /\ RunnableOp(plan.ops[j])
    BY <1>4, PlanFacts DEF Transfer, Sends, TwoSided, Emission
  <2>2. ForAll(j)
    BY <2>1 DEF ForAll, RunnableOp
  <2> QED BY <1>1, <1>2, <1>4, <2>2 DEF LineOf, Runs
<1> QED BY <1>3, <1>4

(***************************************************************************)
(* Going to the next line from z on: where a rank arrives, and that it is  *)
(* then past an op exactly if that op's line is before z.                  *)
(***************************************************************************)
LEMMA Going ==
  ASSUME JobOK, Emission, Typed, NEW r \in Rank, NEW z \in Nat \ {0}, GoTo(r, z)
  PROVE  /\ ip' \in [Rank -> Nat] /\ sub' \in [Rank -> Nat]
         /\ \A q \in Rank \ {r} : ip'[q] = ip[q] /\ sub'[q] = sub[q]
         /\ \/ ip'[r] = 0 /\ \A x \in z .. Len(writer) : ~Runs(RankRole(r), writer[x])
            \/ /\ ip'[r] \in z .. Len(writer) /\ Runs(RankRole(r), writer[ip'[r]])
               /\ \A x \in z .. Len(writer) : Runs(RankRole(r), writer[x]) => ip'[r] <= x
               /\ sub'[r] = FirstTurn(plan.ops[writer[ip'[r]].op])
<1>1. CASE LinesFrom(r, z) = {}
  <2>1. /\ ip' = [ip EXCEPT ![r] = 0] /\ sub' = [sub EXCEPT ![r] = 0]
    BY <1>1 DEF GoTo
  <2>2. \A x \in z .. Len(writer) : ~Runs(RankRole(r), writer[x])
    BY <1>1 DEF LinesFrom
  <2> QED BY <2>1, <2>2 DEF Typed
<1>2. CASE LinesFrom(r, z) # {}
  <2> PICK y : y = First(LinesFrom(r, z))
    OBVIOUS
  <2>1. LinesFrom(r, z) \in SUBSET Nat
    BY DEF LinesFrom
  <2>2. y \in LinesFrom(r, z) /\ \A x \in LinesFrom(r, z) : y <= x
    BY <1>2, <2>1, FirstIsLeast
  <2>3. /\ ip' = [ip EXCEPT ![r] = y]
        /\ sub' = [sub EXCEPT ![r] = FirstTurn(plan.ops[writer[y].op])]
    BY <1>2 DEF GoTo
  <2>4. /\ y \in Nat /\ y \in z .. Len(writer) /\ Runs(RankRole(r), writer[y])
        /\ \A x \in z .. Len(writer) : Runs(RankRole(r), writer[x]) => y <= x
    BY <2>1, <2>2 DEF LinesFrom
  <2>5. FirstTurn(plan.ops[writer[y].op]) \in Nat
    BY DEF FirstTurn
  <2> QED BY <2>3, <2>4, <2>5 DEF Typed
<1> QED BY <1>1, <1>2

LEMMA Passing ==
  ASSUME JobOK, Emission, Typed, NEW r \in Rank, NEW z \in Nat \ {0}, GoTo(r, z),
         NEW x \in 1 .. Len(writer), Runs(RankRole(r), writer[x]),
         NEW t \in Nat, FirstTurn(plan.ops[writer[x].op]) <= t
  PROVE  (\/ ip'[r] = 0
          \/ writer[ip'[r]].op > writer[x].op
          \/ writer[ip'[r]].op = writer[x].op /\ sub'[r] > t) <=> x < z
<1>1. /\ Len(writer) \in Nat /\ Increasing(writer) /\ RankRole(r) \in Role
      /\ \A y \in 1 .. Len(writer) : writer[y].op \in Nat
  BY DEF Emission, TextOK, IsSeq, LineOf, OpsOf, RankRole, Role
<1>2. CASE ip'[r] = 0 /\ \A y \in z .. Len(writer) : ~Runs(RankRole(r), writer[y])
  BY <1>1, <1>2
<1>3. CASE /\ ip'[r] \in z .. Len(writer) /\ Runs(RankRole(r), writer[ip'[r]])
           /\ \A y \in z .. Len(writer) : Runs(RankRole(r), writer[y]) => ip'[r] <= y
           /\ sub'[r] = FirstTurn(plan.ops[writer[ip'[r]].op])
  <2> PICK y : y = ip'[r]
    OBVIOUS
  <2>1. y \in 1 .. Len(writer) /\ y # 0 /\ y \in Nat /\ x \in Nat /\ z <= y
    BY <1>1, <1>3
  <2>2. CASE x < z
    <3>1. writer[x].op < writer[y].op
      BY <1>1, <1>3, <2>1, <2>2 DEF Increasing
    <3> QED BY <2>2, <3>1
  <2>3. CASE ~(x < z)
    <3>1. y <= x
      BY <1>1, <1>3, <2>3
    <3>2. CASE y = x
      BY <1>1, <1>3, <2>1, <2>3, <3>2 DEF FirstTurn
    <3>3. CASE y # x
      <4>1. writer[y].op < writer[x].op
        BY <1>1, <1>3, <2>1, <3>1, <3>3 DEF Increasing
      <4> QED BY <1>1, <2>1, <2>3, <4>1
    <3> QED BY <3>2, <3>3
  <2> QED BY <2>2, <2>3
<1> QED BY <1>2, <1>3, Going

(***************************************************************************)
(* A rank that leaves a turn in which it has done its part has done no     *)
(* less and no more than before; nor has one that begins an iteration.     *)
(***************************************************************************)
LEMMA Advanced ==
  ASSUME JobOK, Emission, Typed, Control, NEW r \in Rank, ip[r] # 0,
         Advance(r), UNCHANGED <<plan, writer, iter>>,
         NEW n \in Nat, NEW j, NEW x \in 1 .. Len(writer),
         writer[x].op = j, Runs(RankRole(r), writer[x]),
         NEW t \in Nat, FirstTurn(plan.ops[j]) <= t, NEW done \in BOOLEAN,
         writer[ip[r]].op = j => t <= LastTurn(r) /\ (t = sub[r] => done)
  PROVE  Past(r, n, j, t, done) <=> Past(r, n, j, t, FALSE)'
<1>1. /\ ip[r] \in 1 .. Len(writer) /\ Len(writer) \in Nat
      /\ Runs(RankRole(r), writer[ip[r]])
      /\ writer[ip[r]].op \in Nat /\ j \in Nat /\ iter[r] \in Nat /\ sub[r] \in Nat
      /\ sub[r] <= LastTurn(r) /\ LastTurn(r) \in Nat
  <2>1. writer[x].op \in Nat
    BY DEF Emission, TextOK, LineOf, OpsOf
  <2>2. LastTurn(r) \in Nat
    BY DEF LastTurn, FirstTurn, JobOK
  <2> QED BY <2>1, <2>2, AtLine DEF Control, Typed
<1>2. /\ x < ip[r] => j < writer[ip[r]].op
      /\ x > ip[r] => writer[ip[r]].op < j
  BY <1>1 DEF Emission, TextOK, Increasing, RankRole, Role
<1>3. CASE sub[r] < LastTurn(r)
  <2>1. ip' = ip /\ sub'[r] = sub[r] + 1
    BY <1>3 DEF Advance, Typed
  <2> QED BY <1>1, <2>1 DEF Past
<1>4. CASE ~(sub[r] < LastTurn(r))
  <2>1. GoTo(r, ip[r] + 1) /\ ip[r] + 1 \in Nat \ {0}
    BY <1>1, <1>4 DEF Advance
  <2>2. (\/ ip'[r] = 0
         \/ writer[ip'[r]].op > j
         \/ writer[ip'[r]].op = j /\ sub'[r] > t) <=> x < ip[r] + 1
    BY <2>1, Passing
  <2>3. Past(r, n, j, t, FALSE)' <=> n < iter[r] \/ (n = iter[r] /\ x < ip[r] + 1)
    BY <2>2 DEF Past
  <2>4. Past(r, n, j, t, done) <=> n < iter[r] \/ (n = iter[r] /\ x < ip[r] + 1)
    <3>1. CASE x = ip[r]
      BY <1>1, <1>4, <3>1 DEF Past
    <3>2. CASE x < ip[r]
      BY <1>1, <1>2, <3>2 DEF Past
    <3>3. CASE x > ip[r]
      BY <1>1, <1>2, <3>3 DEF Past
    <3> QED BY <1>1, <3>1, <3>2, <3>3
  <2> QED BY <2>3, <2>4
<1> QED BY <1>3, <1>4

LEMMA Begun ==
  ASSUME JobOK, Emission, Typed, Control, NEW r \in Rank, ip[r] = 0,
         GoTo(r, 1), UNCHANGED <<plan, writer>>, iter' = [iter EXCEPT ![r] = @ + 1],
         NEW n \in Nat, NEW j, NEW x \in 1 .. Len(writer),
         writer[x].op = j, Runs(RankRole(r), writer[x]),
         NEW t \in Nat, FirstTurn(plan.ops[j]) <= t
  PROVE  Past(r, n, j, t, FALSE) <=> Past(r, n, j, t, FALSE)'
<1>1. iter[r] \in Nat /\ iter'[r] = iter[r] + 1
  BY DEF Typed
<1>2. ~(\/ ip'[r] = 0
        \/ writer[ip'[r]].op > j
        \/ writer[ip'[r]].op = j /\ sub'[r] > t)
  BY Passing
<1> QED BY <1>1, <1>2 DEF Past

(* The two ends of a transfer, and the turns it has there. *)
LEMMA Ends ==
  ASSUME JobOK, Emission, NEW s \in Rank, NEW d \in Rank, NEW j, Transfer(s, d, j)
  PROVE  /\ SendTurn(plan.ops[j], s, d) \in Nat /\ RecvTurn(plan.ops[j], s, d) \in Nat
         /\ FirstTurn(plan.ops[j]) <= SendTurn(plan.ops[j], s, d)
         /\ FirstTurn(plan.ops[j]) <= RecvTurn(plan.ops[j], s, d)
<1>1. s \in 0 .. NProcs - 1 /\ d \in 0 .. NProcs - 1 /\ NProcs \in Nat
  BY DEF JobOK, Rank
<1>2. Around(s, d) \in Nat /\ (Around(s, d) = 0 => s = d)
  BY <1>1 DEF Around
<1>3. Sends(plan.ops[j], s, d) /\ plan.benchmark \in BOOLEAN
  BY DEF Transfer, Emission, Runnable
<1> QED BY <1>1, <1>2, <1>3 DEF Sends, SendTurn, RecvTurn, FirstTurn

LEMMA Settled ==
  ASSUME JobOK, Emission, Typed, Control, NEW r \in Rank, ip[r] # 0,
         Advance(r), UNCHANGED <<plan, writer, iter>>,
         Dests(r) # {} => posted[r], Sources(r) # {} => got[r],
         NEW s \in Rank, NEW d \in Rank, NEW m \in Moment, Transfer(s, d, m[2])
  PROVE  /\ HasSent(s, d, m[1], m[2]) <=> HasSent(s, d, m[1], m[2])'
         /\ HasReceived(s, d, m[1], m[2]) <=> HasReceived(s, d, m[1], m[2])'
<1> PICK n, j : n = m[1] /\ j = m[2]
  OBVIOUS
<1> PICK t, u : t = SendTurn(plan.ops[j], s, d) /\ u = RecvTurn(plan.ops[j], s, d)
  OBVIOUS
<1>1. /\ n \in Nat /\ t \in Nat /\ u \in Nat
      /\ FirstTurn(plan.ops[j]) <= t /\ FirstTurn(plan.ops[j]) <= u
  BY Ends DEF Moment
<1>2. posted'[r] = FALSE /\ got'[r] = FALSE
  BY DEF Advance, Typed
<1>3. \A q \in Rank \ {r} :
        /\ ip'[q] = ip[q] /\ sub'[q] = sub[q] /\ posted'[q] = posted[q] /\ got'[q] = got[q]
  <2>1. CASE sub[r] < LastTurn(r)
    BY <2>1 DEF Advance, Typed
  <2>2. CASE ~(sub[r] < LastTurn(r))
    <3>1. GoTo(r, ip[r] + 1) /\ ip[r] + 1 \in Nat \ {0}
      BY <2>2, AtLine DEF Advance
    <3>2. \A q \in Rank \ {r} : ip'[q] = ip[q] /\ sub'[q] = sub[q]
      BY <3>1, Going
    <3> QED BY <3>2 DEF Advance, Typed
  <2> QED BY <2>1, <2>2
<1>4. HasSent(s, d, n, j) <=> HasSent(s, d, n, j)'
  <2>1. CASE s # r
    BY <1>3, <2>1 DEF HasSent, Past, SendTurn, Around
  <2>2. CASE s = r
    <3>1. PICK x \in 1 .. Len(writer) : writer[x].op = j /\ Runs(RankRole(s), writer[x])
      BY HasLine
    <3>2. writer[ip[r]].op = j => t <= LastTurn(r) /\ (t = sub[r] => posted[r])
      BY <2>2, Turns
    <3>3. posted[r] \in BOOLEAN
      BY DEF Typed
    <3>4. Past(r, n, j, t, posted[r]) <=> Past(r, n, j, t, FALSE)'
      <4> PICK done \in BOOLEAN : done = posted[r]
        BY <3>3
      <4>1. Past(r, n, j, t, done) <=> Past(r, n, j, t, FALSE)'
        BY <1>1, <2>2, <3>1, <3>2, Advanced
      <4> QED BY <4>1
    <3>5. HasSent(s, d, n, j)' <=> Past(r, n, j, t, FALSE)'
      BY <1>2, <2>2 DEF HasSent, Past, SendTurn, Around
    <3> QED BY <2>2, <3>4, <3>5 DEF HasSent
  <2> QED BY <2>1, <2>2
<1>5. HasReceived(s, d, n, j) <=> HasReceived(s, d, n, j)'
  <2>1. CASE d # r
    BY <1>3, <2>1 DEF HasReceived, Past, RecvTurn, Around
  <2>2. CASE d = r
    <3>1. PICK x \in 1 .. Len(writer) : writer[x].op = j /\ Runs(RankRole(d), writer[x])
      BY HasLine
    <3>2. writer[ip[r]].op = j => u <= LastTurn(r) /\ (u = sub[r] => got[r])
      BY <2>2, Turns
    <3>3. got[r] \in BOOLEAN
      BY DEF Typed
    <3>4. Past(r, n, j, u, got[r]) <=> Past(r, n, j, u, FALSE)'
      <4> PICK done \in BOOLEAN : done = got[r]
        BY <3>3
      <4>1. Past(r, n, j, u, done) <=> Past(r, n, j, u, FALSE)'
        BY <1>1, <2>2, <3>1, <3>2, Advanced
      <4> QED BY <4>1
    <3>5. HasReceived(s, d, n, j)' <=> Past(r, n, j, u, FALSE)'
      BY <1>2, <2>2 DEF HasReceived, Past, RecvTurn, Around
    <3> QED BY <2>2, <3>4, <3>5 DEF HasReceived
  <2> QED BY <2>1, <2>2
<1> QED BY <1>4, <1>5

LEMMA Started ==
  ASSUME JobOK, Emission, Typed, Control, NEW r \in Rank, ip[r] = 0,
         GoTo(r, 1), UNCHANGED <<plan, writer, posted, got>>,
         iter' = [iter EXCEPT ![r] = @ + 1],
         NEW s \in Rank, NEW d \in Rank, NEW m \in Moment, Transfer(s, d, m[2])
  PROVE  /\ HasSent(s, d, m[1], m[2]) <=> HasSent(s, d, m[1], m[2])'
         /\ HasReceived(s, d, m[1], m[2]) <=> HasReceived(s, d, m[1], m[2])'
<1> PICK n, j : n = m[1] /\ j = m[2]
  OBVIOUS
<1> PICK t, u : t = SendTurn(plan.ops[j], s, d) /\ u = RecvTurn(plan.ops[j], s, d)
  OBVIOUS
<1>1. /\ n \in Nat /\ t \in Nat /\ u \in Nat
      /\ FirstTurn(plan.ops[j]) <= t /\ FirstTurn(plan.ops[j]) <= u
  BY Ends DEF Moment
<1>2. ~posted[r] /\ ~got[r]
  BY DEF Control
<1>3. \A q \in Rank \ {r} : ip'[q] = ip[q] /\ sub'[q] = sub[q] /\ iter'[q] = iter[q]
  BY Going DEF Typed
<1>4. HasSent(s, d, n, j) <=> HasSent(s, d, n, j)'
  <2>1. CASE s # r
    BY <1>3, <2>1 DEF HasSent, Past, SendTurn, Around
  <2>2. CASE s = r
    <3>1. PICK x \in 1 .. Len(writer) : writer[x].op = j /\ Runs(RankRole(s), writer[x])
      BY HasLine
    <3>2. Past(r, n, j, t, FALSE) <=> Past(r, n, j, t, FALSE)'
      BY <1>1, <2>2, <3>1, Begun
    <3>3. HasSent(s, d, n, j)' <=> Past(r, n, j, t, FALSE)'
      BY <1>2, <2>2 DEF HasSent, Past, SendTurn, Around
    <3> QED BY <1>2, <2>2, <3>2, <3>3 DEF HasSent, Past
  <2> QED BY <2>1, <2>2
<1>5. HasReceived(s, d, n, j) <=> HasReceived(s, d, n, j)'
  <2>1. CASE d # r
    BY <1>3, <2>1 DEF HasReceived, Past, RecvTurn, Around
  <2>2. CASE d = r
    <3>1. PICK x \in 1 .. Len(writer) : writer[x].op = j /\ Runs(RankRole(d), writer[x])
      BY HasLine
    <3>2. Past(r, n, j, u, FALSE) <=> Past(r, n, j, u, FALSE)'
      BY <1>1, <2>2, <3>1, Begun
    <3>3. HasReceived(s, d, n, j)' <=> Past(r, n, j, u, FALSE)'
      BY <1>2, <2>2 DEF HasReceived, Past, RecvTurn, Around
    <3> QED BY <1>2, <2>2, <3>2, <3>3 DEF HasReceived, Past
  <2> QED BY <2>1, <2>2
<1> QED BY <1>4, <1>5

-----------------------------------------------------------------------------
(* The queues. *)

LEMMA Unmoved ==
  ASSUME Queues, Causal, UNCHANGED <<chan, plan, writer>>,
         \A s, d \in Rank : \A m \in Moment : Transfer(s, d, m[2]) =>
           /\ HasSent(s, d, m[1], m[2]) <=> HasSent(s, d, m[1], m[2])'
           /\ HasReceived(s, d, m[1], m[2]) <=> HasReceived(s, d, m[1], m[2])'
  PROVE  /\ Queues' /\ Causal'
         /\ \A s, d \in Rank : \A e : Queue(s, d, e) => Queue(s, d, e)'
<1>1. ASSUME NEW s, NEW d, NEW j PROVE Transfer(s, d, j) <=> Transfer(s, d, j)'
  BY DEF Transfer, InText, OpsOf, Sends
<1>2. ASSUME NEW s \in Rank, NEW d \in Rank, NEW m \in Moment
      PROVE  UnderWay(s, d, m) <=> UnderWay(s, d, m)'
  BY <1>1 DEF UnderWay
<1>3. ASSUME NEW s \in Rank, NEW d \in Rank, NEW e, Queue(s, d, e) PROVE Queue(s, d, e)'
  BY <1>2, <1>3 DEF Queue, Tag, Collective
<1>4. Queues'
  BY <1>3 DEF Queues
<1>5. Causal'
  BY <1>1 DEF Causal
<1> QED BY <1>3, <1>4, <1>5

(* What is past a later op is past an earlier one. *)
LEMMA PastBefore ==
  ASSUME JobOK, Emission, Typed, Control, NEW r \in Rank, NEW m \in Moment, NEW p \in Moment,
         Earlier(m, p), NEW t, NEW u, NEW done, NEW made, Past(r, p[1], p[2], u, made)
  PROVE  Past(r, m[1], m[2], t, done)
<1>1. /\ m[1] \in Nat /\ m[2] \in Nat /\ p[1] \in Nat /\ p[2] \in Nat /\ iter[r] \in Nat
  BY DEF Moment, Typed
<1>2. ip[r] # 0 => writer[ip[r]].op \in Nat
  BY AtLine
<1> QED BY <1>1, <1>2 DEF Past, Earlier

(* The moment a rank is at. *)
Now(r) == <<iter[r], writer[ip[r]].op>>

LEMMA AtNow ==
  ASSUME JobOK, Emission, Typed, Control, NEW r \in Rank, ip[r] # 0
  PROVE  Now(r) \in Moment /\ Now(r)[1] = iter[r] /\ Now(r)[2] = writer[ip[r]].op
<1>1. iter[r] \in Nat \ {0} /\ writer[ip[r]].op \in Nat
  BY AtLine DEF Typed, Control
<1> QED BY <1>1 DEF Moment, Now

(***************************************************************************)
(* The message a rank waits for is the first from its sender, if there is  *)
(* one: what was sent before has been received, for the receiver is past   *)
(* it, and the sender does not run ahead without sending this one.         *)
(***************************************************************************)
LEMMA Awaited ==
  ASSUME JobOK, Emission, Typed, Control, NEW r \in Rank, ip[r] # 0, ~got[r],
         NEW s \in Sources(r), s \in Rank, NEW e, Queue(s, r, e), Len(chan[s][r]) > 0
  PROVE  e[1] = Now(r)
<1> PICK j : j = writer[ip[r]].op
  OBVIOUS
<1> PICK c : c = Len(chan[s][r])
  OBVIOUS
<1> PICK m : m = Now(r)
  OBVIOUS
<1>1. m \in Moment /\ m[1] = iter[r] /\ m[2] = j /\ j \in Nat /\ iter[r] \in Nat /\ sub[r] \in Nat
  BY AtNow, AtLine DEF Typed
<1>2. Transfer(s, r, j) /\ RecvTurn(plan.ops[j], s, r) = sub[r]
  BY Turns
<1>3. ~HasReceived(s, r, m[1], m[2])
  BY <1>1, <1>2 DEF HasReceived, Past
<1>4. c \in Nat /\ 1 \in 1 .. c /\ e[1] \in Moment /\ UnderWay(s, r, e[1])
  BY DEF Queue, Typed, IsSeq
<1> PICK p : p = e[1]
  OBVIOUS
<1>5. p \in Moment /\ p[1] \in Nat /\ p[2] \in Nat /\ p = <<p[1], p[2]>> /\ m = <<m[1], m[2]>>
  BY <1>1, <1>4 DEF Moment
<1>6. p = m \/ Earlier(m, p)
  <2>1. ~HasReceived(s, r, p[1], p[2])
    BY <1>4 DEF UnderWay
  <2>2. ~Earlier(p, m)
    <3>1. ASSUME Earlier(p, m) PROVE HasReceived(s, r, p[1], p[2])
      BY <1>1, <1>5, <3>1 DEF Earlier, HasReceived, Past
    <3> QED BY <2>1, <3>1
  <2> QED BY <1>1, <1>5, <2>2 DEF Earlier
<1>7. ASSUME Earlier(m, p) PROVE FALSE
  <2>1. HasSent(s, r, p[1], p[2])
    BY <1>4 DEF UnderWay
  <2>2. HasSent(s, r, m[1], m[2])
    BY <1>1, <1>5, <1>7, <2>1, PastBefore DEF HasSent
  <2>3. UnderWay(s, r, m)
    BY <1>1, <1>2, <1>3, <2>2 DEF UnderWay
  <2>4. PICK x \in 1 .. c : e[x] = m
    BY <1>1, <2>3 DEF Queue
  <2>5. x # 1
    BY <1>1, <1>5, <1>7, <2>4 DEF Earlier
  <2>6. Earlier(p, m)
    BY <1>4, <2>4, <2>5 DEF Queue
  <2> QED BY <1>1, <1>5, <1>7, <2>6 DEF Earlier
<1> QED BY <1>6, <1>7

(* So it fits, and is the first that does. *)
LEMMA Fitting ==
  ASSUME JobOK, Emission, Typed, Control, Queues, NEW r \in Rank, ip[r] # 0, ~got[r],
         NEW s \in Sources(r), s \in Rank, Len(chan[s][r]) > 0
  PROVE  /\ Matching(r, s) # {} /\ First(Matching(r, s)) = 1
         /\ Taken(r, s).tag = Tag(OpAt(r))
<1>1. PICK e : Queue(s, r, e)
  BY DEF Queues
<1>2. e[1] = Now(r)
  BY <1>1, Awaited
<1>3. Len(chan[s][r]) \in Nat
  BY DEF Typed, IsSeq
<1>4. /\ chan[s][r][1].tag = Tag(OpAt(r))
      /\ chan[s][r][1].collective = Collective(OpAt(r))
  BY <1>1, <1>2, <1>3, AtNow DEF Queue, OpAt
<1>5. 1 \in Matching(r, s)
  BY <1>3, <1>4 DEF Matching, Fits
<1>6. Matching(r, s) \in SUBSET Nat /\ \A x \in Matching(r, s) : x >= 1
  BY <1>3 DEF Matching
<1>7. First(Matching(r, s)) = 1
  <2> PICK S : S = Matching(r, s)
    OBVIOUS
  <2>1. First(S) \in S /\ \A y \in S : First(S) <= y
    BY <1>5, <1>6, FirstIsLeast
  <2> QED BY <1>5, <1>6, <2>1
<1> QED BY <1>4, <1>5, <1>7 DEF Taken

LEMMA Waiting ==
  ASSUME Typed, NEW r \in Rank, NEW s \in Rank, Matching(r, s) # {}
  PROVE  Len(chan[s][r]) > 0
  BY DEF Typed, IsSeq, Matching

(* With nothing under way the queue is empty. *)
LEMMA Empty ==
  ASSUME Typed, NEW s \in Rank, NEW d \in Rank, NEW e, Queue(s, d, e),
         \A m \in Moment : ~UnderWay(s, d, m)
  PROVE  chan[s][d] = <<>> /\ Len(chan[s][d]) = 0
<1> PICK q : q = chan[s][d]
  OBVIOUS
<1>1. IsSeq(q)
  BY DEF Typed
<1>2. Len(q) = 0
  <2>1. ASSUME Len(q) # 0 PROVE FALSE
    <3>1. 1 \in 1 .. Len(q)
      BY <1>1, <2>1 DEF IsSeq
    <3> QED BY <3>1 DEF Queue
  <2> QED BY <2>1
<1>3. q \in Seq({q[x] : x \in 1 .. Len(q)})
  BY <1>1, Elements
<1>4. q = <<>>
  BY <1>2, <1>3, EmptySeq
<1> QED BY <1>2, <1>4

-----------------------------------------------------------------------------
(* Sending and receiving. *)

(* The moments of a queue when rank r has sent, and when it has received. *)
AfterPost(r, s, d, e) ==
  IF s = r /\ d \in Dests(r)
  THEN [x \in 1 .. Len(chan[s][d]) + 1 |-> IF x = Len(chan[s][d]) + 1 THEN Now(r) ELSE e[x]]
  ELSE e

AfterReceive(r, s, d, e) ==
  IF d = r /\ s \in Sources(r) THEN [x \in 1 .. Len(chan[s][d]) - 1 |-> e[x + 1]] ELSE e

LEMMA PostStep ==
  ASSUME JobOK, Emission, Typed, Control, Queues, Causal, Bounded,
         NEW r \in Rank, Post(r), UNCHANGED emitVars
  PROVE  /\ Typed' /\ Queues' /\ Causal' /\ Bounded'
         /\ \A s, d \in Rank : \A e : Queue(s, d, e) =>
              \E f : f = AfterPost(r, s, d, e) /\ Queue(s, d, f)'
<1> PICK j : j = writer[ip[r]].op
  OBVIOUS
<1> PICK D : D = Dests(r)
  OBVIOUS
<1> PICK now : now = Now(r)
  OBVIOUS
<1>1. /\ ip[r] # 0 /\ posted[r] = FALSE /\ posted' = [posted EXCEPT ![r] = TRUE]
      /\ UNCHANGED <<ip, sub, got, iter, plan, writer>>
  BY DEF Post, CanPost, Running, Typed, emitVars
<1>2. /\ now \in Moment /\ now[1] = iter[r] /\ now[2] = j /\ now = <<iter[r], j>>
      /\ iter[r] \in Nat /\ j \in Nat /\ sub[r] \in Nat
  BY <1>1, AtNow, AtLine DEF Typed, Now
<1>3. ASSUME NEW s \in Rank, NEW d \in Rank
      PROVE  chan'[s][d] = IF s = r /\ d \in D THEN Append(chan[s][d], Message(r, d))
                           ELSE chan[s][d]
  BY DEF Post, Typed
<1>4. ASSUME NEW s \in Rank, NEW d \in Rank
      PROVE  IsSeq(chan[s][d]) /\ IsSeq(chan'[s][d])
  <2>1. IsSeq(chan[s][d])
    BY DEF Typed
  <2> QED BY <1>3, <2>1, AppendAny
<1>5. Typed'
  <2>1. chan' = [s \in Rank |-> [d \in Rank |-> chan'[s][d]]]
    BY DEF Post, Typed
  <2>2. posted' \in [Rank -> BOOLEAN]
    BY <1>1 DEF Typed
  <2>3. \A s, d \in Rank : IsSeq(chan[s][d])'
    BY <1>4 DEF IsSeq
  <2> QED BY <1>1, <2>1, <2>2, <2>3 DEF Typed
<1>6. \A s, d, k : Transfer(s, d, k) <=> Transfer(s, d, k)'
  BY <1>1 DEF Transfer, InText, OpsOf, Sends
<1>7. ASSUME NEW s \in Rank, NEW d \in Rank, NEW m \in Moment, Transfer(s, d, m[2])
      PROVE  /\ HasReceived(s, d, m[1], m[2]) <=> HasReceived(s, d, m[1], m[2])'
             /\ HasSent(s, d, m[1], m[2])' <=>
                  \/ HasSent(s, d, m[1], m[2])
                  \/ s = r /\ d \in D /\ m = now
  <2>1. HasReceived(s, d, m[1], m[2]) <=> HasReceived(s, d, m[1], m[2])'
    BY <1>1 DEF HasReceived, Past, RecvTurn, Around
  <2>2. CASE s # r
    <3>1. posted'[s] = posted[s]
      BY <1>1, <2>2 DEF Typed
    <3>2. HasSent(s, d, m[1], m[2]) <=> HasSent(s, d, m[1], m[2])'
      BY <1>1, <3>1 DEF HasSent, Past, SendTurn, Around
    <3> QED BY <2>1, <2>2, <3>2
  <2>3. CASE s = r
    <3> PICK t : t = SendTurn(plan.ops[m[2]], s, d)
      OBVIOUS
    <3>1. posted'[r] = TRUE
      BY <1>1 DEF Typed
    <3>2. HasSent(s, d, m[1], m[2])' <=> Past(r, m[1], m[2], t, TRUE)
      BY <1>1, <2>3, <3>1 DEF HasSent, Past, SendTurn, Around
    <3>3. HasSent(s, d, m[1], m[2]) <=> Past(r, m[1], m[2], t, FALSE)
      BY <1>1, <2>3 DEF HasSent, Past
    <3>4. Past(r, m[1], m[2], t, TRUE) <=>
            Past(r, m[1], m[2], t, FALSE) \/ (m[1] = iter[r] /\ j = m[2] /\ sub[r] = t)
      BY <1>1 DEF Past
    <3>5. m = <<m[1], m[2]>>
      BY DEF Moment
    <3>6. m = now <=> m[1] = iter[r] /\ m[2] = j
      BY <1>2, <3>5
    <3>7. m[2] = j => (d \in D <=> sub[r] = t)
      BY <1>1, <1>7, <2>3, Turns
    <3>8. HasSent(s, d, m[1], m[2])' <=>
            HasSent(s, d, m[1], m[2]) \/ (m[1] = iter[r] /\ j = m[2] /\ sub[r] = t)
      BY <3>2, <3>3, <3>4
    <3> QED BY <2>1, <2>3, <3>6, <3>7, <3>8
  <2> QED BY <2>1, <2>2, <2>3
<1>8. ASSUME NEW d \in Rank, d \in D
      PROVE  /\ Transfer(r, d, j) /\ ~HasSent(r, d, now[1], now[2])
             /\ ~HasReceived(r, d, now[1], now[2])
  <2>1. Transfer(r, d, j) /\ SendTurn(plan.ops[j], r, d) = sub[r]
    BY <1>1, <1>8, Turns
  <2>2. ~HasSent(r, d, now[1], now[2])
    BY <1>1, <1>2, <2>1 DEF HasSent, Past
  <2> QED BY <1>2, <2>1, <2>2 DEF Causal
<1>9. ASSUME NEW s \in Rank, NEW d \in Rank, NEW m \in Moment
      PROVE  UnderWay(s, d, m)' <=> UnderWay(s, d, m) \/ (s = r /\ d \in D /\ m = now)
  BY <1>2, <1>6, <1>7, <1>8 DEF UnderWay
<1>10. Causal'
  BY <1>6, <1>7 DEF Causal
<1>11. ASSUME NEW s \in Rank, NEW d \in Rank, NEW e, Queue(s, d, e)
       PROVE  \E f : f = AfterPost(r, s, d, e) /\ Queue(s, d, f)'
  <2> USE <1>11
  <2> PICK c : c = Len(chan[s][d])
    OBVIOUS
  <2>1. c \in Nat /\ Queue(s, d, e)
    BY DEF Typed, IsSeq
  <2>2. CASE ~(s = r /\ d \in D)
    <3>1. chan'[s][d] = chan[s][d]
      BY <1>3, <2>2
    <3>2. Queue(s, d, e)'
      BY <1>1, <1>9, <2>1, <2>2, <3>1 DEF Queue, Tag, Collective
    <3> QED BY <2>2, <3>2 DEF AfterPost
  <2>3. CASE s = r /\ d \in D
    <3> PICK f : f = [x \in 1 .. c + 1 |-> IF x = c + 1 THEN now ELSE e[x]]
      OBVIOUS
    <3>0. f = AfterPost(r, s, d, e)
      BY <2>3 DEF AfterPost
    <3>1. /\ Len(chan'[s][d]) = c + 1
          /\ \A x \in 1 .. c : chan'[s][d][x] = chan[s][d][x]
          /\ chan'[s][d][c + 1] = Message(r, d)
      <4> PICK q, a : q = chan[s][d] /\ a = Message(r, d)
        OBVIOUS
      <4>1. chan'[s][d] = Append(q, a) /\ IsSeq(q)
        BY <1>3, <1>4, <2>3
      <4> QED BY <4>1, AppendAny
    <3>2. \A x \in 1 .. c : f[x] = e[x] /\ UnderWay(s, d, e[x])
      BY <2>1 DEF Queue
    <3>3. f[c + 1] = now
      BY <2>1
    <3>4. ASSUME NEW x \in 1 .. c PROVE Earlier(e[x], now)
      <4> PICK p : p = e[x]
        OBVIOUS
      <4>1. p \in Moment /\ p[1] \in Nat /\ p[2] \in Nat /\ p = <<p[1], p[2]>>
        BY DEF Queue, Moment
      <4>2. HasSent(s, d, p[1], p[2])
        BY <3>2 DEF UnderWay
      <4>3. ~Earlier(now, p)
        <5>1. ASSUME Earlier(now, p) PROVE HasSent(r, d, now[1], now[2])
          <6> PICK t, u, done : /\ t = SendTurn(plan.ops[now[2]], r, d) /\ done = posted[r]
                                /\ u = SendTurn(plan.ops[p[2]], s, d)
            OBVIOUS
          <6>1. Past(r, p[1], p[2], u, done)
            BY <2>3, <4>2 DEF HasSent
          <6>2. now \in Moment /\ p \in Moment /\ Earlier(now, p)
            BY <1>2, <4>1, <5>1
          <6>3. Past(r, now[1], now[2], t, done)
            BY <6>1, <6>2, PastBefore
          <6> QED BY <6>3 DEF HasSent
        <5> QED BY <1>8, <2>3, <5>1
      <4>4. p # now
        BY <1>8, <2>3, <4>2
      <4> QED BY <1>2, <4>1, <4>3, <4>4 DEF Earlier
    <3>5. f \in [1 .. c + 1 -> Moment]
      BY <1>2, <2>1 DEF Queue
    <3>6. \A x, y \in 1 .. c + 1 : x < y => Earlier(f[x], f[y])
      BY <2>1, <3>2, <3>3, <3>4 DEF Queue
    <3>7. ASSUME NEW x \in 1 .. c + 1
          PROVE  /\ UnderWay(s, d, f[x])'
                 /\ chan'[s][d][x].tag = Tag(plan.ops[f[x][2]])
                 /\ chan'[s][d][x].collective = Collective(plan.ops[f[x][2]])
      <4>1. CASE x \in 1 .. c
        <5>1. e[x] \in Moment /\ UnderWay(s, d, e[x])
          BY <4>1 DEF Queue
        <5>2. UnderWay(s, d, e[x])'
          BY <1>9, <5>1
        <5> QED BY <3>1, <3>2, <4>1, <5>2 DEF Queue
      <4>2. CASE x = c + 1
        <5>1. UnderWay(s, d, now)'
          BY <1>2, <1>9, <2>3
        <5>2. /\ Message(r, d).tag = Tag(plan.ops[j])
              /\ Message(r, d).collective = Collective(plan.ops[j])
          BY DEF Message, OpAt
        <5> QED BY <1>2, <3>1, <3>3, <4>2, <5>1, <5>2
      <4> QED BY <2>1, <4>1, <4>2
    <3>8. ASSUME NEW m \in Moment, UnderWay(s, d, m)' PROVE \E x \in 1 .. c + 1 : f[x] = m
      <4>1. CASE m = now
        BY <2>1, <3>3, <4>1
      <4>2. CASE UnderWay(s, d, m)
        <5>1. PICK x \in 1 .. c : e[x] = m
          BY <4>2 DEF Queue
        <5> QED BY <2>1, <3>2, <5>1
      <4> QED BY <1>9, <3>8, <4>1, <4>2
    <3>9. Queue(s, d, f)'
      BY <1>1, <3>1, <3>5, <3>6, <3>7, <3>8 DEF Queue, Tag, Collective
    <3> QED BY <3>0, <3>9
  <2> QED BY <2>2, <2>3
<1>12. Bounded'
  <2> SUFFICES ASSUME NEW s \in Rank, NEW d \in Rank
               PROVE  /\ Len(chan'[s][d]) <= plan.buffered + 1
                      /\ ~(posted'[s] /\ d \in Dests(s)') => Len(chan'[s][d]) <= plan.buffered
    BY <1>1 DEF Bounded
  <2>1. Dests(s)' = Dests(s)
    BY <1>1 DEF Dests, OpAt, Side, Moves, Ahead
  <2>2. /\ Len(chan[s][d]) \in Nat /\ plan.buffered \in Nat
    BY DEF Typed, IsSeq, Emission, Runnable
  <2>3. CASE s = r /\ d \in D
    <3>1. Len(chan'[s][d]) = Len(chan[s][d]) + 1
      <4> PICK q, a : q = chan[s][d] /\ a = Message(r, d)
        OBVIOUS
      <4>1. chan'[s][d] = Append(q, a) /\ IsSeq(q)
        BY <1>3, <1>4, <2>3
      <4> QED BY <4>1, AppendAny
    <3>2. Len(chan[s][d]) <= plan.buffered
      BY <1>1, <2>3 DEF Bounded
    <3>3. posted'[s] /\ d \in Dests(s)'
      BY <1>1, <2>1, <2>3 DEF Typed
    <3> QED BY <2>2, <3>1, <3>2, <3>3
  <2>4. CASE ~(s = r /\ d \in D)
    <3>1. chan'[s][d] = chan[s][d]
      BY <1>3, <2>4
    <3>2. posted[s] /\ d \in Dests(s) => posted'[s]
      BY <1>1 DEF Typed
    <3> QED BY <2>1, <3>1, <3>2 DEF Bounded
  <2> QED BY <2>3, <2>4
<1>13. Queues'
  BY <1>11 DEF Queues
<1> QED BY <1>5, <1>10, <1>11, <1>12, <1>13

LEMMA ReceiveStep ==
  ASSUME JobOK, Emission, Typed, Control, Queues, Causal, Bounded,
         NEW r \in Rank, Receive(r), UNCHANGED emitVars
  PROVE  /\ Typed' /\ Queues' /\ Causal' /\ Bounded'
         /\ \A s, d \in Rank : \A e : Queue(s, d, e) =>
              \E f : f = AfterReceive(r, s, d, e) /\ Queue(s, d, f)'
<1> PICK j : j = writer[ip[r]].op
  OBVIOUS
<1> PICK S : S = Sources(r)
  OBVIOUS
<1> PICK now : now = Now(r)
  OBVIOUS
<1>1. /\ ip[r] # 0 /\ got[r] = FALSE /\ got' = [got EXCEPT ![r] = TRUE]
      /\ UNCHANGED <<ip, sub, posted, iter, plan, writer>>
  BY DEF Receive, CanReceive, Running, Typed, emitVars
<1>2. /\ now \in Moment /\ now[1] = iter[r] /\ now[2] = j /\ now = <<iter[r], j>>
      /\ iter[r] \in Nat /\ j \in Nat /\ sub[r] \in Nat
  BY <1>1, AtNow, AtLine DEF Typed, Now
<1>3. ASSUME NEW s \in S
      PROVE  s \in Rank /\ Len(chan[s][r]) > 0 /\ First(Matching(r, s)) = 1
  <2>1. S \subseteq Rank
    BY <1>1, Turns
  <2>2. Matching(r, s) # {}
    BY DEF Receive, CanReceive
  <2>3. s \in Rank /\ Len(chan[s][r]) > 0
    BY <2>1, <2>2, Waiting
  <2> QED BY <1>1, <2>3, Fitting
<1>4. ASSUME NEW s \in Rank, NEW d \in Rank
      PROVE  chan'[s][d] = IF d = r /\ s \in S THEN Without(chan[s][d], 1) ELSE chan[s][d]
  <2>1. chan'[s] = IF s \in S THEN [chan[s] EXCEPT ![r] = Without(@, First(Matching(r, s)))]
                   ELSE chan[s]
    BY DEF Receive
  <2>2. chan[s] = [x \in Rank |-> chan[s][x]]
    BY DEF Typed
  <2> QED BY <1>3, <2>1, <2>2
<1>5. ASSUME NEW s \in Rank, NEW d \in Rank
      PROVE  /\ IsSeq(chan[s][d]) /\ IsSeq(chan'[s][d])
             /\ Len(chan[s][d]) \in Nat /\ Len(chan'[s][d]) <= Len(chan[s][d])
             /\ d = r /\ s \in S =>
                  /\ Len(chan'[s][d]) = Len(chan[s][d]) - 1 /\ Len(chan[s][d]) > 0
                  /\ \A x \in 1 .. Len(chan[s][d]) - 1 : chan'[s][d][x] = chan[s][d][x + 1]
  <2>1. IsSeq(chan[s][d]) /\ Len(chan[s][d]) \in Nat
    BY DEF Typed, IsSeq
  <2>2. CASE d = r /\ s \in S
    <3> PICK q : q = chan[s][d]
      OBVIOUS
    <3>1. chan'[s][d] = Without(q, 1) /\ Len(q) > 0 /\ IsSeq(q)
      BY <1>3, <1>4, <2>1, <2>2
    <3>2. /\ IsSeq(Without(q, 1)) /\ Len(Without(q, 1)) = Len(q) - 1
          /\ \A x \in 1 .. Len(q) - 1 : Without(q, 1)[x] = q[x + 1]
      BY <3>1, DropFirst
    <3> QED BY <2>1, <3>1, <3>2
  <2>3. CASE ~(d = r /\ s \in S)
    BY <1>4, <2>1, <2>3
  <2> QED BY <2>2, <2>3
<1>6. Typed'
  <2>1. chan' = [s \in Rank |-> [d \in Rank |-> chan'[s][d]]]
    <3>1. chan' = [s \in Rank |-> chan'[s]]
      BY DEF Receive
    <3>2. ASSUME NEW s \in Rank PROVE chan'[s] = [d \in Rank |-> chan'[s][d]]
      <4>1. chan[s] = [d \in Rank |-> chan[s][d]]
        BY DEF Typed
      <4>2. \/ chan'[s] = chan[s]
            \/ chan'[s] = [chan[s] EXCEPT ![r] = Without(@, First(Matching(r, s)))]
        BY DEF Receive
      <4> QED BY <4>1, <4>2
    <3> QED BY <3>1, <3>2
  <2>2. got' \in [Rank -> BOOLEAN]
    BY <1>1 DEF Typed
  <2>3. \A s, d \in Rank : IsSeq(chan[s][d])'
    BY <1>5 DEF IsSeq
  <2> QED BY <1>1, <2>1, <2>2, <2>3 DEF Typed
<1>7. \A s, d, k : Transfer(s, d, k) <=> Transfer(s, d, k)'
  BY <1>1 DEF Transfer, InText, OpsOf, Sends
<1>8. ASSUME NEW s \in Rank, NEW d \in Rank, NEW m \in Moment, Transfer(s, d, m[2])
      PROVE  /\ HasSent(s, d, m[1], m[2]) <=> HasSent(s, d, m[1], m[2])'
             /\ HasReceived(s, d, m[1], m[2])' <=>
                  \/ HasReceived(s, d, m[1], m[2])
                  \/ d = r /\ s \in S /\ m = now
  <2>1. HasSent(s, d, m[1], m[2]) <=> HasSent(s, d, m[1], m[2])'
    BY <1>1 DEF HasSent, Past, SendTurn, Around
  <2>2. CASE d # r
    <3>1. got'[d] = got[d]
      BY <1>1, <2>2 DEF Typed
    <3>2. HasReceived(s, d, m[1], m[2]) <=> HasReceived(s, d, m[1], m[2])'
      BY <1>1, <3>1 DEF HasReceived, Past, RecvTurn, Around
    <3> QED BY <2>1, <2>2, <3>2
  <2>3. CASE d = r
    <3> PICK t : t = RecvTurn(plan.ops[m[2]], s, d)
      OBVIOUS
    <3>1. got'[r] = TRUE
      BY <1>1 DEF Typed
    <3>2. HasReceived(s, d, m[1], m[2])' <=> Past(r, m[1], m[2], t, TRUE)
      BY <1>1, <2>3, <3>1 DEF HasReceived, Past, RecvTurn, Around
    <3>3. HasReceived(s, d, m[1], m[2]) <=> Past(r, m[1], m[2], t, FALSE)
      BY <1>1, <2>3 DEF HasReceived, Past
    <3>4. Past(r, m[1], m[2], t, TRUE) <=>
            Past(r, m[1], m[2], t, FALSE) \/ (m[1] = iter[r] /\ j = m[2] /\ sub[r] = t)
      BY <1>1 DEF Past
    <3>5. m = <<m[1], m[2]>>
      BY DEF Moment
    <3>6. m = now <=> m[1] = iter[r] /\ m[2] = j
      BY <1>2, <3>5
    <3>7. m[2] = j => (s \in S <=> sub[r] = t)
      BY <1>1, <1>8, <2>3, Turns
    <3>8. HasReceived(s, d, m[1], m[2])' <=>
            HasReceived(s, d, m[1], m[2]) \/ (m[1] = iter[r] /\ j = m[2] /\ sub[r] = t)
      BY <3>2, <3>3, <3>4
    <3> QED BY <2>1, <2>3, <3>6, <3>7, <3>8
  <2> QED BY <2>2, <2>3
<1>9. ASSUME NEW s \in Rank, NEW d \in Rank, NEW m \in Moment
      PROVE  UnderWay(s, d, m)' <=> UnderWay(s, d, m) /\ ~(d = r /\ s \in S /\ m = now)
  BY <1>7, <1>8 DEF UnderWay
<1>10. ASSUME NEW s \in S, NEW e, Queue(s, r, e) PROVE e[1] = now /\ UnderWay(s, r, now)
  <2>1. s \in Rank /\ s \in Sources(r) /\ Len(chan[s][r]) > 0 /\ ip[r] # 0 /\ ~got[r]
    BY <1>1, <1>3
  <2>2. e[1] = Now(r)
    BY <1>10, <2>1, Awaited
  <2>3. 1 \in 1 .. Len(chan[s][r])
    BY <1>5, <2>1
  <2>4. UnderWay(s, r, e[1])
    BY <1>10, <2>3 DEF Queue
  <2> QED BY <2>2, <2>4
<1>11. Causal'
  <2> SUFFICES ASSUME NEW s \in Rank, NEW d \in Rank, NEW m \in Moment,
                      Transfer(s, d, m[2]), HasReceived(s, d, m[1], m[2])'
               PROVE  HasSent(s, d, m[1], m[2])'
    BY <1>7 DEF Causal
  <2>1. CASE HasReceived(s, d, m[1], m[2])
    BY <1>8, <2>1 DEF Causal
  <2>2. CASE d = r /\ s \in S /\ m = now
    <3>1. PICK e : Queue(s, r, e)
      BY DEF Queues
    <3>2. UnderWay(s, r, now)
      BY <1>10, <2>2, <3>1
    <3>3. HasSent(s, d, m[1], m[2])
      BY <2>2, <3>2 DEF UnderWay
    <3> QED BY <1>8, <3>3
  <2> QED BY <1>8, <2>1, <2>2
<1>12. ASSUME NEW s \in Rank, NEW d \in Rank, NEW e, Queue(s, d, e)
       PROVE  \E f : f = AfterReceive(r, s, d, e) /\ Queue(s, d, f)'
  <2> USE <1>12
  <2> PICK c : c = Len(chan[s][d])
    OBVIOUS
  <2>1. c \in Nat /\ Queue(s, d, e)
    BY <1>5
  <2>2. CASE ~(d = r /\ s \in S)
    <3>1. chan'[s][d] = chan[s][d]
      BY <1>4, <2>2
    <3>2. Queue(s, d, e)'
      BY <1>1, <1>9, <2>1, <2>2, <3>1 DEF Queue, Tag, Collective
    <3> QED BY <2>2, <3>2 DEF AfterReceive
  <2>3. CASE d = r /\ s \in S
    <3> PICK f : f = [x \in 1 .. c - 1 |-> e[x + 1]]
      OBVIOUS
    <3>0. f = AfterReceive(r, s, d, e)
      BY <2>3 DEF AfterReceive
    <3>1. /\ Len(chan'[s][d]) = c - 1 /\ c > 0
          /\ \A x \in 1 .. c - 1 : chan'[s][d][x] = chan[s][d][x + 1]
      BY <1>5, <2>3
    <3>2. e[1] = now
      BY <1>10, <2>3
    <3>3. ASSUME NEW x \in 1 .. c - 1
          PROVE  f[x] = e[x + 1] /\ x + 1 \in 1 .. c /\ e[x + 1] \in Moment /\ e[x + 1] # now
      <4>1. f[x] = e[x + 1] /\ x + 1 \in 1 .. c /\ 1 \in 1 .. c /\ 1 < x + 1
        BY <2>1
      <4>2. e[x + 1] \in Moment /\ Earlier(now, e[x + 1])
        BY <3>2, <4>1 DEF Queue
      <4>3. ~Earlier(now, now)
        BY <1>2 DEF Earlier
      <4> QED BY <4>1, <4>2, <4>3
    <3>4. f \in [1 .. c - 1 -> Moment]
      BY <3>3
    <3>5. \A x, y \in 1 .. c - 1 : x < y => Earlier(f[x], f[y])
      <4> SUFFICES ASSUME NEW x \in 1 .. c - 1, NEW y \in 1 .. c - 1, x < y
                   PROVE  Earlier(f[x], f[y])
        OBVIOUS
      <4>1. x + 1 < y + 1
        BY <2>1
      <4> QED BY <3>3, <4>1 DEF Queue
    <3>6. ASSUME NEW x \in 1 .. c - 1
          PROVE  /\ UnderWay(s, d, f[x])'
                 /\ chan'[s][d][x].tag = Tag(plan.ops[f[x][2]])
                 /\ chan'[s][d][x].collective = Collective(plan.ops[f[x][2]])
      <4>1. UnderWay(s, d, e[x + 1])
        BY <3>3 DEF Queue
      <4>2. UnderWay(s, d, e[x + 1])'
        BY <1>9, <3>3, <4>1
      <4> QED BY <3>1, <3>3, <4>2 DEF Queue
    <3>7. ASSUME NEW m \in Moment, UnderWay(s, d, m)' PROVE \E x \in 1 .. c - 1 : f[x] = m
      <4>1. UnderWay(s, d, m) /\ m # now
        BY <1>9, <2>3, <3>7
      <4>2. PICK y \in 1 .. c : e[y] = m
        BY <4>1 DEF Queue
      <4>3. y # 1 /\ y - 1 \in 1 .. c - 1
        BY <2>1, <3>2, <4>1, <4>2
      <4>4. f[y - 1] = m
        BY <2>1, <3>3, <4>2, <4>3
      <4> QED BY <4>3, <4>4
    <3>8. Queue(s, d, f)'
      BY <1>1, <3>1, <3>4, <3>5, <3>6, <3>7 DEF Queue, Tag, Collective
    <3> QED BY <3>0, <3>8
  <2> QED BY <2>2, <2>3
<1>13. Bounded'
  <2> SUFFICES ASSUME NEW s \in Rank, NEW d \in Rank
               PROVE  /\ Len(chan'[s][d]) <= plan.buffered + 1
                      /\ ~(posted[s] /\ d \in Dests(s)) => Len(chan'[s][d]) <= plan.buffered
    <3>1. \A s \in Rank : Dests(s)' = Dests(s)
      BY <1>1 DEF Dests, OpAt, Side, Moves, Ahead
    <3> QED BY <1>1, <3>1 DEF Bounded
  <2>1. plan.buffered \in Nat /\ Len(chan'[s][d]) \in Nat
    BY <1>5 DEF Emission, Runnable, IsSeq
  <2> QED BY <1>5, <2>1 DEF Bounded
<1>14. Queues'
  BY <1>12 DEF Queues
<1> QED BY <1>6, <1>11, <1>12, <1>13, <1>14

-----------------------------------------------------------------------------
(***************************************************************************)
(* The invariant of a run: the text is what the emission made of the plan, *)
(* and the queues hold exactly what is under way.                          *)
(***************************************************************************)
RunInv ==
  Emission /\ Idle /\ Typed /\ Control /\ Queues /\ Causal /\ Bounded

(* What Control says of one rank. *)
InProgram(r) ==
  /\ ip[r] \in 0 .. Len(writer) /\ iter[r] \in 0 .. MaxIter
  /\ ip[r] = 0 => ~posted[r] /\ ~got[r]
  /\ ip[r] # 0 =>
       /\ iter[r] # 0 /\ Runs(RankRole(r), writer[ip[r]])
       /\ FirstTurn(OpAt(r)) <= sub[r] /\ sub[r] <= LastTurn(r)

LEMMA Arriving ==
  ASSUME JobOK, Emission, Typed, NEW r \in Rank, NEW z \in Nat \ {0}, GoTo(r, z),
         UNCHANGED <<plan, writer>>
  PROVE  /\ ip'[r] \in 0 .. Len(writer)'
         /\ ip'[r] # 0 => /\ Runs(RankRole(r), writer[ip[r]])'
                          /\ (FirstTurn(OpAt(r)) <= sub[r])' /\ (sub[r] <= LastTurn(r))'
<1>1. Len(writer) \in Nat /\ NProcs \in Nat /\ NProcs > 1
  BY DEF Emission, TextOK, IsSeq, JobOK
<1>2. CASE ip'[r] = 0
  BY <1>1, <1>2
<1>3. CASE ip'[r] # 0
  <2>1. /\ ip'[r] \in z .. Len(writer) /\ Runs(RankRole(r), writer[ip'[r]])
        /\ sub'[r] = FirstTurn(plan.ops[writer[ip'[r]].op])
    BY <1>3, Going
  <2>2. FirstTurn(OpAt(r))' = sub'[r]
    BY <2>1 DEF OpAt, FirstTurn
  <2>3. sub'[r] \in {0, 1}
    BY <2>1 DEF FirstTurn
  <2>4. sub'[r] <= LastTurn(r)'
    BY <1>1, <2>2, <2>3 DEF LastTurn
  <2> QED BY <1>1, <2>1, <2>2, <2>3, <2>4 DEF Runs
<1> QED BY <1>2, <1>3

LEMMA AdvanceStep ==
  ASSUME JobOK, RunInv, NEW r \in Rank, Running(r), Advance(r),
         UNCHANGED <<emitVars, iter, chan>>,
         Dests(r) # {} => Sent(r), Sources(r) # {} => got[r]
  PROVE  RunInv' /\ \A s, d \in Rank : \A e : Queue(s, d, e) => Queue(s, d, e)'
<1>1. /\ Emission /\ Idle /\ Typed /\ Control /\ Queues /\ Causal /\ Bounded
      /\ ip[r] # 0 /\ phase = "running"
      /\ UNCHANGED <<plan, phase, at, hetero, writer, master, worker, ran>>
  BY DEF RunInv, Running, emitVars
<1>2. Emission' /\ Idle'
  BY <1>1, TextKept DEF Idle
<1>3. posted'[r] = FALSE /\ got'[r] = FALSE
  BY <1>1 DEF Advance, Typed
<1>4. /\ ip' \in [Rank -> Nat] /\ sub' \in [Rank -> Nat]
      /\ \A q \in Rank \ {r} : ip'[q] = ip[q] /\ sub'[q] = sub[q]
      /\ ip'[r] \in 0 .. Len(writer)'
      /\ ip'[r] # 0 => /\ Runs(RankRole(r), writer[ip[r]])'
                       /\ (FirstTurn(OpAt(r)) <= sub[r])' /\ (sub[r] <= LastTurn(r))'
  <2>1. CASE sub[r] < LastTurn(r)
    <3>1. ip' = ip /\ sub' = [sub EXCEPT ![r] = @ + 1]
      BY <2>1 DEF Advance
    <3>2. /\ sub'[r] = sub[r] + 1 /\ sub[r] \in Nat /\ LastTurn(r) \in Nat
          /\ FirstTurn(OpAt(r)) \in Nat /\ FirstTurn(OpAt(r)) <= sub[r]
      BY <1>1, <3>1 DEF Typed, LastTurn, FirstTurn, JobOK, Control
    <3>3. FirstTurn(OpAt(r))' = FirstTurn(OpAt(r)) /\ LastTurn(r)' = LastTurn(r)
      BY <1>1, <3>1 DEF FirstTurn, LastTurn, OpAt, Side, Moves
    <3>4. ip' \in [Rank -> Nat] /\ sub' \in [Rank -> Nat]
      BY <1>1, <3>1 DEF Typed
    <3>5. \A q \in Rank \ {r} : ip'[q] = ip[q] /\ sub'[q] = sub[q]
      BY <1>1, <3>1 DEF Typed
    <3>6. ip'[r] \in 0 .. Len(writer)' /\ Runs(RankRole(r), writer[ip[r]])'
      BY <1>1, <3>1 DEF Control, Runs
    <3>7. (FirstTurn(OpAt(r)) <= sub[r])' /\ (sub[r] <= LastTurn(r))'
      BY <2>1, <3>2, <3>3
    <3> QED BY <3>4, <3>5, <3>6, <3>7
  <2>2. CASE ~(sub[r] < LastTurn(r))
    <3>1. GoTo(r, ip[r] + 1) /\ ip[r] + 1 \in Nat \ {0}
      BY <1>1, <2>2, AtLine DEF Advance
    <3> QED BY <1>1, <3>1, Going, Arriving
  <2> QED BY <2>1, <2>2
<1>5. \A q \in Rank \ {r} : posted'[q] = posted[q] /\ got'[q] = got[q]
  BY <1>1 DEF Advance, Typed
<1>6. Typed'
  <2>1. posted' \in [Rank -> BOOLEAN] /\ got' \in [Rank -> BOOLEAN]
    BY <1>1 DEF Advance, Typed
  <2> QED BY <1>1, <1>4, <2>1 DEF Typed, IsSeq
<1>7. Control'
  <2>1. ASSUME NEW q \in Rank \ {r} PROVE InProgram(q)'
    <3>1. InProgram(q)
      BY <1>1 DEF Control, InProgram
    <3>2. ip'[q] = ip[q] /\ sub'[q] = sub[q] /\ posted'[q] = posted[q] /\ got'[q] = got[q]
      BY <1>4, <1>5
    <3> QED BY <1>1, <3>1, <3>2
        DEF InProgram, Runs, FirstTurn, LastTurn, OpAt, Side, Moves
  <2>2. iter[r] \in 0 .. MaxIter /\ iter[r] # 0
    BY <1>1 DEF Control
  <2>3. InProgram(r)'
    BY <1>3, <1>4, <2>2 DEF InProgram
  <2>4. \A q \in Rank : InProgram(q)'
    BY <2>1, <2>3
  <2> QED BY <2>4 DEF Control, InProgram
<1>8. Queues' /\ Causal' /\ \A s, d \in Rank : \A e : Queue(s, d, e) => Queue(s, d, e)'
  <2>1. Dests(r) # {} => posted[r]
    BY DEF Sent
  <2>2. \A s, d \in Rank : \A m \in Moment : Transfer(s, d, m[2]) =>
           /\ HasSent(s, d, m[1], m[2]) <=> HasSent(s, d, m[1], m[2])'
           /\ HasReceived(s, d, m[1], m[2]) <=> HasReceived(s, d, m[1], m[2])'
    BY <1>1, <2>1, Settled
  <2> QED BY <1>1, <2>2, Unmoved
<1>9. Bounded'
  <2>1. plan.buffered \in Nat /\ \A q, d \in Rank : Len(chan[q][d]) \in Nat
    BY <1>1 DEF Emission, Runnable, Typed, IsSeq
  <2> SUFFICES ASSUME NEW q \in Rank, NEW d \in Rank
               PROVE  /\ Len(chan[q][d]) <= plan.buffered + 1
                      /\ ~(posted'[q] /\ d \in Dests(q)') => Len(chan[q][d]) <= plan.buffered
    BY <1>1 DEF Bounded
  <2>2. CASE q = r
    <3>1. Len(chan[q][d]) <= plan.buffered
      BY <1>1, <2>2 DEF Bounded, Sent
    <3> QED BY <2>1, <3>1
  <2>3. CASE q # r
    <3>1. ip'[q] = ip[q] /\ sub'[q] = sub[q] /\ posted'[q] = posted[q]
      BY <1>4, <1>5, <2>3
    <3>2. Dests(q)' = Dests(q)
      BY <1>1, <3>1 DEF Dests, OpAt, Side, Moves, Ahead
    <3> QED BY <1>1, <3>1, <3>2 DEF Bounded
  <2> QED BY <2>2, <2>3
<1> QED BY <1>2, <1>6, <1>7, <1>8, <1>9 DEF RunInv

LEMMA BeginStep ==
  ASSUME JobOK, RunInv, NEW r \in Rank, Begin(r), UNCHANGED emitVars
  PROVE  RunInv' /\ \A s, d \in Rank : \A e : Queue(s, d, e) => Queue(s, d, e)'
<1>1. /\ Emission /\ Idle /\ Typed /\ Control /\ Queues /\ Causal /\ Bounded
      /\ ip[r] = 0 /\ phase = "running" /\ iter[r] < MaxIter
      /\ GoTo(r, 1) /\ iter' = [iter EXCEPT ![r] = @ + 1] /\ UNCHANGED <<posted, got, chan>>
      /\ UNCHANGED <<plan, phase, at, hetero, writer, master, worker, ran>>
  BY DEF RunInv, Begin, CanBegin, emitVars
<1>2. Emission' /\ Idle'
  BY <1>1, TextKept DEF Idle
<1>3. /\ ip' \in [Rank -> Nat] /\ sub' \in [Rank -> Nat]
      /\ \A q \in Rank \ {r} : ip'[q] = ip[q] /\ sub'[q] = sub[q]
      /\ ip'[r] \in 0 .. Len(writer)'
      /\ ip'[r] # 0 => /\ Runs(RankRole(r), writer[ip[r]])'
                       /\ (FirstTurn(OpAt(r)) <= sub[r])' /\ (sub[r] <= LastTurn(r))'
  <2>1. 1 \in Nat \ {0}
    OBVIOUS
  <2> QED BY <1>1, <2>1, Going, Arriving
<1>4. /\ iter[r] \in Nat /\ iter'[r] = iter[r] + 1 /\ \A q \in Rank \ {r} : iter'[q] = iter[q]
  BY <1>1 DEF Typed
<1>5. Typed'
  <2>1. iter' \in [Rank -> Nat]
    BY <1>1 DEF Typed
  <2> QED BY <1>1, <1>3, <2>1 DEF Typed, IsSeq
<1>6. Control'
  <2>1. ASSUME NEW q \in Rank \ {r} PROVE InProgram(q)'
    <3>1. InProgram(q)
      BY <1>1 DEF Control, InProgram
    <3>2. ip'[q] = ip[q] /\ sub'[q] = sub[q] /\ iter'[q] = iter[q]
      BY <1>3, <1>4
    <3> QED BY <1>1, <3>1, <3>2
        DEF InProgram, Runs, FirstTurn, LastTurn, OpAt, Side, Moves
  <2>2. ~posted[r] /\ ~got[r] /\ iter'[r] \in 0 .. MaxIter /\ iter'[r] # 0
    BY <1>1, <1>4 DEF Control, JobOK
  <2>3. InProgram(r)'
    BY <1>1, <1>3, <2>2 DEF InProgram
  <2>4. \A q \in Rank : InProgram(q)'
    BY <2>1, <2>3
  <2> QED BY <2>4 DEF Control, InProgram
<1>7. Queues' /\ Causal' /\ \A s, d \in Rank : \A e : Queue(s, d, e) => Queue(s, d, e)'
  <2>1. \A s, d \in Rank : \A m \in Moment : Transfer(s, d, m[2]) =>
           /\ HasSent(s, d, m[1], m[2]) <=> HasSent(s, d, m[1], m[2])'
           /\ HasReceived(s, d, m[1], m[2]) <=> HasReceived(s, d, m[1], m[2])'
    BY <1>1, Started
  <2> QED BY <1>1, <2>1, Unmoved
<1>8. Bounded'
  <2> SUFFICES ASSUME NEW q \in Rank, NEW d \in Rank
               PROVE  /\ Len(chan[q][d]) <= plan.buffered + 1
                      /\ ~(posted[q] /\ d \in Dests(q)') => Len(chan[q][d]) <= plan.buffered
    BY <1>1 DEF Bounded
  <2>1. CASE q = r
    BY <1>1, <2>1 DEF Bounded, Control
  <2>2. CASE q # r
    <3>1. ip'[q] = ip[q] /\ sub'[q] = sub[q]
      BY <1>3, <2>2
    <3>2. Dests(q)' = Dests(q)
      BY <1>1, <3>1 DEF Dests, OpAt, Side, Moves, Ahead
    <3> QED BY <1>1, <3>2 DEF Bounded
  <2> QED BY <2>1, <2>2
<1> QED BY <1>2, <1>5, <1>6, <1>7, <1>8 DEF RunInv

(* While the program is emitted, and when it is launched, no rank has begun. *)
LEMMA NothingYet ==
  ASSUME NEW m \in Moment, NEW s, NEW d, iter[s] = 0, iter[d] = 0
  PROVE  ~HasSent(s, d, m[1], m[2]) /\ ~HasReceived(s, d, m[1], m[2])
  BY DEF Moment, HasSent, HasReceived, Past

LEMMA EmittingStep ==
  ASSUME JobOK, RunInv, EmitNext, UNCHANGED runVars PROVE RunInv'
<1>1. /\ Emission /\ Idle /\ Typed /\ Control /\ Queues /\ Causal /\ Bounded
      /\ UNCHANGED <<ip, sub, posted, got, iter, mem, alias, chan>>
      /\ plan' = plan
  BY DEF RunInv, runVars, EmitNext, EmitTensorInitializations, EmitTwoSided, EmitOther,
         EmitSumTransform, EndFuncCalls
<1>2. Emission'
  BY <1>1, EmitStep
<1>3. phase # "running" /\ phase' # "running"
  BY DEF EmitNext, EmitTensorInitializations, EmitTwoSided, EmitOther, EmitSumTransform,
         EndFuncCalls
<1>4. \A r \in Rank : ip[r] = 0 /\ iter[r] = 0 /\ ~posted[r]
  BY <1>1, <1>3 DEF Idle, Control
<1>5. Idle' /\ Typed'
  BY <1>1, <1>3 DEF Idle, Typed, IsSeq
<1>6. Control'
  <2>1. Len(writer)' \in Nat /\ MaxIter \in Nat
    BY <1>2 DEF Emission, TextOK, IsSeq, JobOK
  <2> QED BY <1>1, <1>4, <2>1 DEF Control
<1>7. ASSUME NEW s \in Rank, NEW d \in Rank, NEW m \in Moment
      PROVE  ~UnderWay(s, d, m) /\ ~UnderWay(s, d, m)' /\ ~HasReceived(s, d, m[1], m[2])'
  <2>1. ~HasSent(s, d, m[1], m[2]) /\ ~HasReceived(s, d, m[1], m[2])
    BY <1>4, NothingYet
  <2>2. ~HasSent(s, d, m[1], m[2])' /\ ~HasReceived(s, d, m[1], m[2])'
    BY <1>1, <1>4 DEF Moment, HasSent, HasReceived, Past
  <2> QED BY <2>1, <2>2 DEF UnderWay
<1>8. Causal'
  BY <1>7 DEF Causal
<1>9. ASSUME NEW s \in Rank, NEW d \in Rank PROVE (\E e : Queue(s, d, e))'
  <2>1. PICK e : Queue(s, d, e)
    BY <1>1 DEF Queues
  <2>2. Len(chan[s][d]) = 0
    BY <1>1, <1>7, <2>1, Empty
  <2>3. Queue(s, d, e)'
    BY <1>1, <1>7, <2>1, <2>2 DEF Queue
  <2> QED BY <2>3
<1>10. Bounded'
  <2>1. plan.buffered \in Nat
    BY <1>1 DEF Emission, Runnable
  <2> QED BY <1>1, <1>4, <2>1 DEF Bounded
<1> QED BY <1>2, <1>5, <1>6, <1>8, <1>9, <1>10 DEF RunInv, Queues

LEMMA LaunchStep ==
  ASSUME JobOK, RunInv, Launch PROVE RunInv'
<1>1. /\ Emission /\ Idle /\ Typed /\ Control /\ Queues /\ Causal /\ Bounded
      /\ UNCHANGED <<plan, at, hetero, writer, master, worker, ran>>
      /\ UNCHANGED <<ip, sub, posted, got, iter, alias, chan>> /\ phase' = "running"
  BY DEF RunInv, Launch
<1>2. Emission' /\ Idle'
  BY <1>1, TextKept DEF Idle
<1>3. Typed' /\ Control' /\ Bounded'
  BY <1>1 DEF Typed, IsSeq, Control, Bounded, Runs, FirstTurn, LastTurn, OpAt, Side, Moves,
              Dests, Ahead
<1>4. Queues' /\ Causal'
  <2>1. \A s, d \in Rank : \A m \in Moment : Transfer(s, d, m[2]) =>
           /\ HasSent(s, d, m[1], m[2]) <=> HasSent(s, d, m[1], m[2])'
           /\ HasReceived(s, d, m[1], m[2]) <=> HasReceived(s, d, m[1], m[2])'
    BY <1>1 DEF HasSent, HasReceived, Past, SendTurn, RecvTurn, Around
  <2> QED BY <1>1, <2>1, Unmoved
<1> QED BY <1>2, <1>3, <1>4 DEF RunInv

(* A step that moves no control, of a rank whose phase is running. *)
LEMMA Unmoving ==
  ASSUME JobOK, RunInv, UNCHANGED emitVars, UNCHANGED <<ip, sub, iter>>,
         phase = "running", NEW r \in Rank, ip[r] # 0,
         \A q \in Rank \ {r} : posted'[q] = posted[q] /\ got'[q] = got[q]
  PROVE  Emission' /\ Idle' /\ Control'
<1>1. /\ Emission /\ Idle /\ Control
      /\ UNCHANGED <<plan, phase, at, hetero, writer, master, worker, ran>>
  BY DEF RunInv, emitVars
<1>2. Emission' /\ Idle'
  BY <1>1, TextKept DEF Idle
<1>3. ASSUME NEW q \in Rank PROVE InProgram(q)'
  <2>1. InProgram(q)
    BY <1>1 DEF Control, InProgram
  <2>2. ip[q] = 0 => posted'[q] = posted[q] /\ got'[q] = got[q]
    OBVIOUS
  <2> QED BY <1>1, <2>1, <2>2 DEF InProgram, Runs, FirstTurn, LastTurn, OpAt, Side, Moves
<1> QED BY <1>2, <1>3 DEF Control, InProgram

LEMMA RankSteps ==
  ASSUME JobOK, RunInv, NEW r \in Rank, RankStep(r) PROVE RunInv'
<1>1. UNCHANGED emitVars /\ Emission /\ Typed /\ Control /\ Queues /\ Causal /\ Bounded
  BY DEF RankStep, RunInv
<1>2. CASE Begin(r)
  BY <1>1, <1>2, BeginStep
<1>3. CASE Post(r)
  <2>1. Emission' /\ Idle' /\ Control'
    <3>1. /\ UNCHANGED <<ip, sub, iter>> /\ phase = "running" /\ ip[r] # 0
          /\ \A q \in Rank \ {r} : posted'[q] = posted[q] /\ got'[q] = got[q]
      BY <1>1, <1>3 DEF Post, CanPost, Running, Typed
    <3> QED BY <1>1, <3>1, Unmoving
  <2> QED BY <1>1, <1>3, <2>1, PostStep DEF RunInv
<1>4. CASE Receive(r)
  <2>1. Emission' /\ Idle' /\ Control'
    <3>1. /\ UNCHANGED <<ip, sub, iter>> /\ phase = "running" /\ ip[r] # 0
          /\ \A q \in Rank \ {r} : posted'[q] = posted[q] /\ got'[q] = got[q]
      BY <1>1, <1>4 DEF Receive, CanReceive, Running, Typed
    <3> QED BY <1>1, <3>1, Unmoving
  <2> QED BY <1>1, <1>4, <2>1, ReceiveStep DEF RunInv
<1>5. CASE Return(r)
  BY <1>1, <1>5, AdvanceStep DEF Return, CanReturn
<1>6. CASE Local(r)
  BY <1>1, <1>6, AdvanceStep DEF Local, CanCompute
<1> QED BY <1>2, <1>3, <1>4, <1>5, <1>6 DEF RankStep

LEMMA RunBegins == ASSUME JobOK, RunInit PROVE RunInv
<1>1. Emission
  BY EmissionBegins
<1>2. \A r \in Rank : ip[r] = 0 /\ iter[r] = 0 /\ posted[r] = FALSE /\ got[r] = FALSE
  BY DEF RunInit, Start
<1>3. \A s, d \in Rank : chan[s][d] = <<>> /\ IsSeq(chan[s][d]) /\ Len(chan[s][d]) = 0
  BY NoElements DEF RunInit, Start
<1>4. Idle
  BY <1>2 DEF Idle
<1>5. Typed
  <2>1. chan = [s \in Rank |-> [d \in Rank |-> chan[s][d]]]
    BY DEF RunInit, Start
  <2> QED BY <1>3, <2>1 DEF RunInit, Start, Typed
<1>6. Control
  <2>1. Len(writer) \in Nat /\ MaxIter \in Nat
    BY <1>1 DEF Emission, TextOK, IsSeq, JobOK
  <2> QED BY <1>2, <2>1 DEF Control
<1>7. \A s, d \in Rank : \A m \in Moment :
        ~HasSent(s, d, m[1], m[2]) /\ ~HasReceived(s, d, m[1], m[2])
  BY <1>2, NothingYet
<1>8. Causal
  BY <1>7 DEF Causal
<1>9. Queues
  <2>1. \A s, d \in Rank : Queue(s, d, [x \in 1 .. 0 |-> <<1, 0>>])
    BY <1>3, <1>7 DEF Queue, UnderWay
  <2> QED BY <2>1 DEF Queues
<1>10. Bounded
  BY <1>1, <1>2, <1>3 DEF Bounded, Emission, Runnable
<1> QED BY <1>1, <1>4, <1>5, <1>6, <1>8, <1>9, <1>10 DEF RunInv

LEMMA RunStep ==
  ASSUME JobOK, RunInv,
         [(EmitNext /\ UNCHANGED runVars) \/ RunNext]_<<emitVars, runVars>>
  PROVE  RunInv'
<1>1. CASE EmitNext /\ UNCHANGED runVars
  BY <1>1, EmittingStep
<1>2. CASE RunNext
  BY <1>2, LaunchStep, RankSteps DEF RunNext
<1>3. CASE UNCHANGED <<emitVars, runVars>>
  <2>1. /\ Emission /\ Idle /\ Typed /\ Control /\ Queues /\ Causal /\ Bounded
        /\ UNCHANGED <<plan, phase, at, hetero, writer, master, worker, ran>>
        /\ UNCHANGED <<ip, sub, posted, got, iter, mem, alias, chan>>
    BY <1>3 DEF RunInv, emitVars, runVars
  <2>2. Emission' /\ Idle'
    BY <2>1, TextKept DEF Idle
  <2>3. Typed' /\ Control' /\ Bounded'
    BY <2>1 DEF Typed, IsSeq, Control, Bounded, Runs, FirstTurn, LastTurn, OpAt, Side, Moves,
                Dests, Ahead
  <2>4. Queues' /\ Causal'
    <3>1. \A s, d \in Rank : \A m \in Moment : Transfer(s, d, m[2]) =>
             /\ HasSent(s, d, m[1], m[2]) <=> HasSent(s, d, m[1], m[2])'
             /\ HasReceived(s, d, m[1], m[2]) <=> HasReceived(s, d, m[1], m[2])'
      BY <2>1 DEF HasSent, HasReceived, Past, SendTurn, RecvTurn, Around
    <3> QED BY <2>1, <3>1, Unmoved
  <2> QED BY <2>2, <2>3, <2>4 DEF RunInv
<1> QED BY <1>1, <1>2, <1>3

-----------------------------------------------------------------------------
(* What the invariant says of the ranks. *)

LEMMA RanksTyped == ASSUME JobOK, RunInv PROVE RunTypeOK
<1> SUFFICES ASSUME NEW r \in Rank
             PROVE  /\ ip[r] \in 0 .. Len(writer)
                    /\ ip[r] # 0 => Runs(RankRole(r), writer[ip[r]]) /\ sub[r] \in 0 .. LastTurn(r)
                    /\ posted[r] \in BOOLEAN /\ got[r] \in BOOLEAN
                    /\ iter[r] \in 0 .. MaxIter
                    /\ \A d \in Rank : Len(chan[r][d]) <= plan.buffered + 1
  BY DEF RunTypeOK
<1>1. sub[r] \in Nat /\ LastTurn(r) \in Nat
  BY DEF RunInv, Typed, LastTurn, FirstTurn, JobOK
<1> QED BY <1>1 DEF RunInv, Typed, Control, Bounded

LEMMA Agreeing == ASSUME JobOK, RunInv PROVE CollectivesAgree
<1> SUFFICES ASSUME NEW r \in Rank, Running(r), ~got[r], NEW s \in Sources(r),
                    Matching(r, s) # {}
             PROVE  Taken(r, s).tag = Tag(OpAt(r))
  BY DEF CollectivesAgree
<1>1. Emission /\ Typed /\ Control /\ Queues /\ ip[r] # 0
  BY DEF RunInv, Running
<1>2. s \in Rank
  BY <1>1, Turns
<1>3. Len(chan[s][r]) > 0
  BY <1>1, <1>2, Waiting
<1> QED BY <1>1, <1>2, <1>3, Fitting

LEMMA Draining == ASSUME JobOK, RunInv PROVE Drained
<1> SUFFICES ASSUME Ended, NEW s \in Rank, NEW d \in Rank PROVE chan[s][d] = <<>>
  BY DEF Drained
<1>1. PICK e : Queue(s, d, e)
  BY DEF RunInv, Queues
<1>2. ASSUME NEW m \in Moment PROVE ~UnderWay(s, d, m)
  <2>1. m[1] \in Nat /\ iter[s] = iter[d] /\ iter[s] \in Nat /\ ip[d] = 0
    BY DEF Ended, Moment, RunInv, Typed
  <2> QED BY <2>1 DEF UnderWay, HasSent, HasReceived, Past
<1> QED BY <1>1, <1>2, Empty DEF RunInv

(***************************************************************************)
(* Why the ranks never all wait.  Of the ranks that have not ended take    *)
(* those at the earliest op of the earliest iteration, the front: every    *)
(* other rank is past that op.                                             *)
(***************************************************************************)
AtOp(q, n, k) == ip[q] # 0 /\ iter[q] = n /\ writer[ip[q]].op = k

Beyond(q, n, k) == n < iter[q] \/ (n = iter[q] /\ (ip[q] = 0 \/ writer[ip[q]].op > k))

Front(n, k) == n \in Nat /\ k \in Nat /\ \A q \in Rank : AtOp(q, n, k) \/ Beyond(q, n, k)

LEMMA FrontExists ==
  ASSUME JobOK, RunInv, ~Ended, \A r \in Rank : ip[r] = 0 => iter[r] = MaxIter
  PROVE  \E r \in Rank : ip[r] # 0 /\ Front(iter[r], writer[ip[r]].op)
<1>1. \A r \in Rank : ip[r] # 0 =>
        /\ iter[r] \in Nat /\ writer[ip[r]].op \in Nat /\ iter[r] <= MaxIter
  BY AtLine DEF RunInv, Control
<1> DEFINE A == {r \in Rank : ip[r] # 0}
<1>2. A # {}
  BY DEF Ended
<1>3. PICK n \in {iter[r] : r \in A} : \A i \in {iter[r] : r \in A} : n <= i
  <2>1. {iter[r] : r \in A} \in SUBSET Nat /\ {iter[r] : r \in A} # {}
    BY <1>1, <1>2
  <2> QED BY <2>1, Least
<1> DEFINE K == {writer[ip[r]].op : r \in {q \in A : iter[q] = n}}
<1>4. PICK k \in K : \A i \in K : k <= i
  <2>1. K \in SUBSET Nat /\ K # {}
    BY <1>1, <1>3
  <2> HIDE DEF K
  <2> QED BY <2>1, Least
<1>5. PICK r \in Rank : ip[r] # 0 /\ iter[r] = n /\ writer[ip[r]].op = k
  BY <1>4
<1>6. ASSUME NEW q \in Rank PROVE AtOp(q, n, k) \/ Beyond(q, n, k)
  <2>1. n \in Nat /\ k \in Nat /\ n <= MaxIter /\ MaxIter \in Nat
    BY <1>1, <1>5 DEF JobOK
  <2>2. CASE ip[q] = 0
    BY <2>1, <2>2 DEF Beyond
  <2>3. CASE ip[q] # 0
    <3>1. n <= iter[q] /\ iter[q] \in Nat /\ writer[ip[q]].op \in Nat
      BY <1>1, <1>3, <2>3
    <3>2. iter[q] = n => k <= writer[ip[q]].op
      BY <1>4, <2>3
    <3> QED BY <2>1, <2>3, <3>1, <3>2 DEF AtOp, Beyond
  <2> QED BY <2>2, <2>3
<1> QED BY <1>1, <1>5, <1>6 DEF Front

(* A rank of the front waits for one that is there too, and has not yet sent. *)
LEMMA NotSent ==
  ASSUME JobOK, RunInv, NEW n, NEW k, Front(n, k), NEW q \in Rank, AtOp(q, n, k), ~got[q],
         NEW s \in Sources(q), Matching(q, s) = {}
  PROVE  /\ s \in Rank /\ AtOp(s, n, k)
         /\ \/ sub[s] < SendTurn(plan.ops[k], s, q)
            \/ sub[s] = SendTurn(plan.ops[k], s, q) /\ ~posted[s] /\ q \in Dests(s)
<1>1. /\ Emission /\ Typed /\ Control /\ Queues /\ ip[q] # 0 /\ k = writer[ip[q]].op
      /\ n = iter[q] /\ s \in Rank /\ n \in Nat /\ k \in Nat
  <2>1. Emission /\ Typed /\ Control /\ Queues /\ ip[q] # 0
    BY DEF RunInv, AtOp
  <2>2. s \in Rank
    BY <2>1, Turns
  <2> QED BY <2>1, <2>2 DEF AtOp, Front
<1>2. Transfer(s, q, k) /\ RecvTurn(plan.ops[k], s, q) = sub[q] /\ sub[q] \in Nat
  BY <1>1, Turns DEF Typed
<1> PICK m : m = <<n, k>>
  OBVIOUS
<1>3. m \in Moment /\ m[1] = n /\ m[2] = k
  BY <1>1, AtNow DEF Now
<1>4. ~HasReceived(s, q, n, k)
  BY <1>1, <1>2 DEF HasReceived, Past
<1>5. ~HasSent(s, q, n, k)
  <2>1. ASSUME HasSent(s, q, n, k) PROVE FALSE
    <3>1. UnderWay(s, q, m)
      BY <1>2, <1>3, <1>4, <2>1 DEF UnderWay
    <3>2. PICK e : Queue(s, q, e)
      BY <1>1 DEF Queues
    <3>3. Len(chan[s][q]) > 0
      BY <1>1, <1>3, <3>1, <3>2 DEF Queue, Typed, IsSeq
    <3> QED BY <1>1, <3>3, Fitting
  <2> QED BY <2>1
<1>6. AtOp(s, n, k)
  BY <1>1, <1>5 DEF Front, Beyond, HasSent, Past
<1>7. sub[s] \in Nat /\ SendTurn(plan.ops[k], s, q) \in Nat
  BY <1>1, <1>2, Ends DEF Typed
<1>8. \/ sub[s] < SendTurn(plan.ops[k], s, q)
      \/ sub[s] = SendTurn(plan.ops[k], s, q) /\ ~posted[s]
  BY <1>5, <1>6, <1>7 DEF AtOp, HasSent, Past
<1>9. sub[s] = SendTurn(plan.ops[k], s, q) => q \in Dests(s)
  BY <1>1, <1>2, <1>6, Turns DEF AtOp
<1> QED BY <1>1, <1>6, <1>8, <1>9

(***************************************************************************)
(* A message that a rank of the front is sending is left lying by one that *)
(* is there too, and has not yet received it; in its turn it can.          *)
(***************************************************************************)
LEMMA NotTaken ==
  ASSUME JobOK, RunInv, NEW n, NEW k, Front(n, k), NEW q \in Rank, AtOp(q, n, k), posted[q],
         NEW d \in Dests(q), Len(chan[q][d]) > plan.buffered
  PROVE  /\ d \in Rank /\ AtOp(d, n, k)
         /\ \/ sub[d] < RecvTurn(plan.ops[k], q, d)
            \/ /\ sub[d] = RecvTurn(plan.ops[k], q, d)
               /\ ~got[d] /\ q \in Sources(d) /\ Matching(d, q) # {}
<1>1. /\ Emission /\ Typed /\ Control /\ Queues /\ ip[q] # 0 /\ k = writer[ip[q]].op
      /\ n = iter[q] /\ d \in Rank /\ n \in Nat /\ k \in Nat
  <2>1. Emission /\ Typed /\ Control /\ Queues /\ ip[q] # 0
    BY DEF RunInv, AtOp
  <2>2. d \in Rank
    BY <2>1, Turns
  <2> QED BY <2>1, <2>2 DEF AtOp, Front
<1>2. Transfer(q, d, k) /\ SendTurn(plan.ops[k], q, d) = sub[q]
  BY <1>1, Turns
<1>3. Len(chan[q][d]) \in Nat /\ Len(chan[q][d]) > 0
  BY <1>1 DEF Emission, Runnable, Typed, IsSeq
<1> PICK m : m = <<n, k>>
  OBVIOUS
<1>4. m \in Moment /\ m[1] = n /\ m[2] = k /\ m = Now(q)
  BY <1>1, AtNow DEF Now
<1>5. PICK e : Queue(q, d, e)
  BY <1>1 DEF Queues
<1> PICK p : p = e[1]
  OBVIOUS
<1>6. p \in Moment /\ UnderWay(q, d, p) /\ p[1] \in Nat /\ p[2] \in Nat /\ p = <<p[1], p[2]>>
  BY <1>3, <1>5 DEF Queue, Moment
<1>7. p = m \/ Earlier(p, m)
  <2>1. HasSent(q, d, p[1], p[2])
    BY <1>6 DEF UnderWay
  <2>2. p[1] < n \/ (p[1] = n /\ p[2] <= k)
    BY <1>1, <1>6, <2>1 DEF HasSent, Past
  <2> QED BY <1>1, <1>4, <1>6, <2>2 DEF Earlier
<1>8. ~HasReceived(q, d, n, k)
  <2>1. ASSUME HasReceived(q, d, n, k) PROVE HasReceived(q, d, p[1], p[2])
    <3>1. CASE p = m
      BY <1>4, <2>1, <3>1
    <3>2. CASE Earlier(p, m)
      <4> PICK t, u, done : /\ t = RecvTurn(plan.ops[p[2]], q, d) /\ done = got[d]
                            /\ u = RecvTurn(plan.ops[k], q, d)
        OBVIOUS
      <4>1. Past(d, m[1], m[2], u, done)
        BY <1>4, <2>1 DEF HasReceived
      <4>2. Past(d, p[1], p[2], t, done)
        <5>1. d \in Rank /\ m \in Moment /\ p \in Moment /\ Emission /\ Typed /\ Control
          BY <1>1, <1>4, <1>6
        <5>2. /\ p[1] \in Nat /\ p[2] \in Nat /\ iter[d] \in Nat
              /\ ip[d] # 0 => writer[ip[d]].op \in Nat
          BY <1>6, <5>1, AtLine DEF Typed
        <5> QED BY <1>1, <1>4, <3>2, <4>1, <5>2 DEF Earlier, Past
      <4> QED BY <4>2 DEF HasReceived
    <3> QED BY <1>7, <3>1, <3>2
  <2> QED BY <1>6, <2>1 DEF UnderWay
<1>9. AtOp(d, n, k)
  BY <1>1, <1>8 DEF Front, Beyond, HasReceived, Past
<1>10. sub[d] \in Nat /\ RecvTurn(plan.ops[k], q, d) \in Nat
  BY <1>1, <1>2, Ends DEF Typed
<1>11. \/ sub[d] < RecvTurn(plan.ops[k], q, d)
       \/ sub[d] = RecvTurn(plan.ops[k], q, d) /\ ~got[d]
  BY <1>8, <1>9, <1>10 DEF AtOp, HasReceived, Past
<1>12. ASSUME sub[d] = RecvTurn(plan.ops[k], q, d), ~got[d]
       PROVE  q \in Sources(d) /\ Matching(d, q) # {}
  <2>1. q \in Sources(d) /\ ip[d] # 0
    BY <1>1, <1>2, <1>9, <1>12, Turns DEF AtOp
  <2> QED BY <1>1, <1>3, <1>12, <2>1, Fitting
<1> QED BY <1>1, <1>9, <1>11, <1>12

(* The sides a rank of the front can be on. *)
LEMMA Serving ==
  ASSUME JobOK, RunInv, NEW n, NEW k, Front(n, k), NEW q \in Rank, AtOp(q, n, k)
  PROVE  /\ OpAt(q) = plan.ops[k] /\ RunnableOp(plan.ops[k]) /\ ip[q] # 0 /\ sub[q] \in Nat
         /\ FirstTurn(plan.ops[k]) <= sub[q] /\ FirstTurn(plan.ops[k]) \in {0, 1}
         /\ plan.ops[k].kind = "Scatter" =>
              IF q = 0 THEN Sources(q) = {} ELSE Sources(q) = {0} /\ Dests(q) = {}
         /\ plan.ops[k].kind \in {"Gather", "Reduce"} =>
              IF q = 0 THEN Dests(q) = {} ELSE Dests(q) = {0} /\ Sources(q) = {}
         /\ plan.ops[k].kind = "Transform" /\ plan.ops[k].pre >= 0 =>
              \E s, d \in Rank : Dests(q) = {d} /\ Sources(q) = {s}
         /\ \/ plan.ops[k].kind = "Compute"
            \/ plan.ops[k].kind = "Transform" /\ ~(plan.ops[k].pre >= 0)
            => Dests(q) = {} /\ Sources(q) = {}
<1>1. ip[q] # 0 /\ writer[ip[q]].op = k /\ Emission /\ Typed /\ Control
  BY DEF AtOp, RunInv
<1>2. /\ OpAt(q) = plan.ops[k] /\ RunnableOp(plan.ops[k])
      /\ OpAt(q).kind \in {"Scatter", "Gather"} => Side(q) = RankRole(q)
      /\ OpAt(q).kind \notin {"Scatter", "Gather"} => Side(q) = "all"
  BY <1>1, AtLine
<1>3. sub[q] \in Nat /\ FirstTurn(plan.ops[k]) <= sub[q] /\ FirstTurn(plan.ops[k]) \in {0, 1}
  BY <1>1, <1>2 DEF Typed, Control, FirstTurn
<1>4. Dests(q) \subseteq Rank /\ Sources(q) \subseteq Rank
  BY <1>1, Turns
<1> QED BY <1>1, <1>2, <1>3, <1>4 DEF Dests, Sources, RankRole, Moves

LEMMA ZeroGathers ==
  ASSUME JobOK, RunInv, phase = "running", NEW n, NEW k, Front(n, k), AtOp(0, n, k),
         plan.ops[k].kind \in {"Gather", "Reduce"}
  PROVE  \E q \in Rank : CanStep(q)
<1>1. 0 \in Rank /\ Running(0) /\ Dests(0) = {}
  <2>1. 0 \in Rank
    BY DEF JobOK, Rank
  <2> QED BY <2>1, Serving DEF Running
<1>2. CASE Sources(0) = {} \/ got[0]
  BY <1>1, <1>2 DEF CanStep, CanCompute, CanReturn
<1>3. CASE Sources(0) # {} /\ ~got[0]
  <2>1. CASE \A s \in Sources(0) : Matching(0, s) # {}
    BY <1>1, <1>3, <2>1 DEF CanStep, CanReceive
  <2>2. CASE \E s \in Sources(0) : Matching(0, s) = {}
    <3>1. PICK s \in Sources(0) : Matching(0, s) = {}
      BY <2>2
    <3>2. /\ s \in Rank /\ AtOp(s, n, k)
          /\ \/ sub[s] < SendTurn(plan.ops[k], s, 0)
             \/ sub[s] = SendTurn(plan.ops[k], s, 0) /\ ~posted[s] /\ 0 \in Dests(s)
      BY <1>1, <1>3, <3>1, NotSent
    <3>3. SendTurn(plan.ops[k], s, 0) = 1 /\ FirstTurn(plan.ops[k]) = 1
      BY DEF SendTurn, FirstTurn
    <3>4. sub[s] \in Nat /\ 1 <= sub[s] /\ ip[s] # 0
      BY <3>2, <3>3, Serving
    <3>5. ~posted[s] /\ Dests(s) # {}
      BY <3>2, <3>3, <3>4
    <3> QED BY <3>2, <3>4, <3>5 DEF CanStep, CanPost, Running
  <2> QED BY <2>1, <2>2
<1> QED BY <1>2, <1>3

LEMMA ZeroScatters ==
  ASSUME JobOK, RunInv, phase = "running", NEW n, NEW k, Front(n, k), AtOp(0, n, k),
         plan.ops[k].kind = "Scatter"
  PROVE  \E q \in Rank : CanStep(q)
<1>1. 0 \in Rank /\ Running(0) /\ Sources(0) = {}
  <2>1. 0 \in Rank
    BY DEF JobOK, Rank
  <2> QED BY <2>1, Serving DEF Running
<1>2. CASE Dests(0) = {} \/ ~posted[0] \/ Sent(0)
  BY <1>1, <1>2 DEF CanStep, CanCompute, CanPost, CanReturn
<1>3. CASE Dests(0) # {} /\ posted[0] /\ ~Sent(0)
  <2>1. PICK d \in Dests(0) : ~(Len(chan[0][d]) <= plan.buffered)
    BY <1>3 DEF Sent
  <2>2. d \in Rank
    BY <1>1, Turns DEF RunInv, Running
  <2>3. Len(chan[0][d]) > plan.buffered
    BY <1>1, <2>1, <2>2 DEF RunInv, Typed, IsSeq, Emission, Runnable
  <2>4. /\ AtOp(d, n, k)
        /\ \/ sub[d] < RecvTurn(plan.ops[k], 0, d)
           \/ /\ sub[d] = RecvTurn(plan.ops[k], 0, d)
              /\ ~got[d] /\ 0 \in Sources(d) /\ Matching(d, 0) # {}
    BY <1>1, <1>3, <2>3, NotTaken
  <2>5. RecvTurn(plan.ops[k], 0, d) = 1 /\ FirstTurn(plan.ops[k]) = 1
    BY DEF RecvTurn, FirstTurn
  <2>6. sub[d] \in Nat /\ 1 <= sub[d] /\ ip[d] # 0
    BY <2>2, <2>4, <2>5, Serving
  <2>7. ~got[d] /\ 0 \in Sources(d) /\ Matching(d, 0) # {}
    BY <2>4, <2>5, <2>6
  <2>8. Sources(d) = {0}
    BY <2>2, <2>4, <2>7, Serving
  <2> QED BY <2>2, <2>6, <2>7, <2>8 DEF CanStep, CanReceive, Running
<1> QED BY <1>2, <1>3

LEMMA WorkerServes ==
  ASSUME JobOK, RunInv, phase = "running", NEW n, NEW k, Front(n, k),
         NEW r \in Rank, AtOp(r, n, k), r # 0,
         plan.ops[k].kind \in {"Scatter", "Gather", "Reduce"}
  PROVE  \E q \in Rank : CanStep(q)
<1>0. Running(r) /\ ip[r] # 0
  BY Serving DEF Running
<1>1. CASE plan.ops[k].kind = "Scatter"
  <2>1. Sources(r) = {0} /\ Dests(r) = {}
    BY <1>1, Serving
  <2>2. CASE got[r] \/ Matching(r, 0) # {}
    BY <1>0, <2>1, <2>2 DEF CanStep, CanReceive, CanReturn
  <2>3. CASE ~got[r] /\ Matching(r, 0) = {}
    <3>1. AtOp(0, n, k)
      BY <2>1, <2>3, NotSent
    <3> QED BY <1>1, <3>1, ZeroScatters
  <2> QED BY <2>2, <2>3
<1>2. CASE plan.ops[k].kind \in {"Gather", "Reduce"}
  <2>1. Dests(r) = {0} /\ Sources(r) = {}
    BY <1>2, Serving
  <2>2. CASE ~posted[r] \/ Sent(r)
    BY <1>0, <2>1, <2>2 DEF CanStep, CanPost, CanReturn
  <2>3. CASE posted[r] /\ ~Sent(r)
    <3>1. 0 \in Dests(r) /\ 0 \in Rank /\ ~(Len(chan[r][0]) <= plan.buffered)
      BY <2>1, <2>3 DEF Sent, JobOK, Rank
    <3>2. Len(chan[r][0]) > plan.buffered
      BY <3>1 DEF RunInv, Typed, IsSeq, Emission, Runnable
    <3>3. AtOp(0, n, k)
      BY <2>3, <3>1, <3>2, NotTaken
    <3> QED BY <1>2, <3>3, ZeroGathers
  <2> QED BY <2>2, <2>3
<1> QED BY <1>1, <1>2

(* In a Transform, of the ranks of the front the one at the earliest turn. *)
LEMMA AllExchange ==
  ASSUME JobOK, RunInv, phase = "running", NEW n, NEW k, Front(n, k),
         NEW z \in Rank, AtOp(z, n, k), plan.ops[k].kind = "Transform", plan.ops[k].pre >= 0
  PROVE  \E q \in Rank : CanStep(q)
<1> DEFINE A == {q \in Rank : AtOp(q, n, k)}
<1>1. PICK t \in {sub[q] : q \in A} : \A u \in {sub[q] : q \in A} : t <= u
  <2>1. {sub[q] : q \in A} \in SUBSET Nat /\ {sub[q] : q \in A} # {}
    BY Serving
  <2> HIDE DEF A
  <2> QED BY <2>1, Least
<1>2. PICK r \in Rank : AtOp(r, n, k) /\ sub[r] = t
  BY <1>1
<1>3. \A q \in Rank : AtOp(q, n, k) => t <= sub[q] /\ sub[q] \in Nat
  BY <1>1, Serving
<1>4. PICK s, d \in Rank : Dests(r) = {d} /\ Sources(r) = {s}
  BY <1>2, Serving
<1>5. Running(r) /\ ip[r] # 0
  BY <1>2, Serving DEF Running
<1>6. /\ SendTurn(plan.ops[k], s, r) = t /\ RecvTurn(plan.ops[k], r, d) = t
  <2>1. /\ RecvTurn(plan.ops[k], s, r) = sub[r] /\ SendTurn(plan.ops[k], r, d) = sub[r]
    BY <1>2, <1>4, <1>5, Turns DEF AtOp, RunInv
  <2> QED BY <1>2, <2>1 DEF SendTurn, RecvTurn
<1>7. CASE ~posted[r]
  BY <1>4, <1>5, <1>7 DEF CanStep, CanPost
<1>8. CASE ~got[r]
  <2>1. CASE Matching(r, s) # {}
    BY <1>4, <1>5, <1>8, <2>1 DEF CanStep, CanReceive
  <2>2. CASE Matching(r, s) = {}
    <3>1. /\ AtOp(s, n, k)
          /\ \/ sub[s] < t
             \/ sub[s] = t /\ ~posted[s] /\ r \in Dests(s)
      BY <1>2, <1>4, <1>6, <1>8, <2>2, NotSent
    <3>2. t <= sub[s] /\ sub[s] \in Nat /\ t \in Nat /\ ip[s] # 0
      BY <1>2, <1>3, <3>1 DEF AtOp
    <3> QED BY <3>1, <3>2 DEF CanStep, CanPost, Running
  <2> QED BY <2>1, <2>2
<1>9. CASE posted[r] /\ got[r]
  <2>1. CASE Sent(r)
    BY <1>4, <1>5, <1>9, <2>1 DEF CanStep, CanReturn
  <2>2. CASE ~Sent(r)
    <3>1. d \in Dests(r) /\ ~(Len(chan[r][d]) <= plan.buffered)
      BY <1>4, <1>9, <2>2 DEF Sent
    <3>2. Len(chan[r][d]) > plan.buffered
      BY <3>1 DEF RunInv, Typed, IsSeq, Emission, Runnable
    <3>3. /\ AtOp(d, n, k)
          /\ \/ sub[d] < t
             \/ sub[d] = t /\ ~got[d] /\ r \in Sources(d) /\ Matching(d, r) # {}
      BY <1>2, <1>6, <1>9, <3>1, <3>2, NotTaken
    <3>4. t <= sub[d] /\ sub[d] \in Nat /\ t \in Nat /\ ip[d] # 0
      BY <1>2, <1>3, <3>3 DEF AtOp
    <3>5. \E x \in Rank : Sources(d) = {x}
      BY <3>3, Serving
    <3> QED BY <3>3, <3>4, <3>5 DEF CanStep, CanReceive, Running
  <2> QED BY <2>1, <2>2
<1> QED BY <1>7, <1>8, <1>9

LEMMA NotStuck == ASSUME JobOK, RunInv PROVE NoneStuck
<1> SUFFICES ASSUME phase = "running", ~Ended PROVE \E q \in Rank : CanStep(q)
  BY DEF NoneStuck
<1>1. CASE \E r \in Rank : ip[r] = 0 /\ iter[r] # MaxIter
  <2>1. PICK r \in Rank : ip[r] = 0 /\ iter[r] # MaxIter
    BY <1>1
  <2>2. iter[r] < MaxIter
    BY <2>1 DEF RunInv, Control, JobOK
  <2> QED BY <2>1, <2>2 DEF CanStep, CanBegin
<1>2. CASE \A r \in Rank : ip[r] = 0 => iter[r] = MaxIter
  <2>1. PICK r \in Rank : ip[r] # 0 /\ Front(iter[r], writer[ip[r]].op)
    BY <1>2, FrontExists
  <2>2. PICK n, k : n = iter[r] /\ k = writer[ip[r]].op
    OBVIOUS
  <2>3. Front(n, k) /\ AtOp(r, n, k) /\ Running(r)
    BY <2>1, <2>2 DEF AtOp, Running
  <2>4. \/ plan.ops[k].kind \in {"Scatter", "Gather", "Reduce"}
        \/ plan.ops[k].kind = "Transform" /\ plan.ops[k].pre >= 0
        \/ (\/ plan.ops[k].kind = "Compute"
            \/ plan.ops[k].kind = "Transform" /\ ~(plan.ops[k].pre >= 0))
    BY <2>3, Serving DEF RunnableOp, Kind
  <2>5. CASE plan.ops[k].kind \in {"Scatter", "Gather", "Reduce"}
    BY <2>3, <2>5, ZeroGathers, ZeroScatters, WorkerServes
  <2>6. CASE plan.ops[k].kind = "Transform" /\ plan.ops[k].pre >= 0
    BY <2>3, <2>6, AllExchange
  <2>7. CASE \/ plan.ops[k].kind = "Compute"
             \/ plan.ops[k].kind = "Transform" /\ ~(plan.ops[k].pre >= 0)
    <3>1. Dests(r) = {} /\ Sources(r) = {}
      BY <2>3, <2>7, Serving
    <3> QED BY <2>3, <3>1 DEF CanStep, CanCompute
  <2> QED BY <2>4, <2>5, <2>6, <2>7
<1> QED BY <1>1, <1>2

-----------------------------------------------------------------------------
(* The invariant holds in every run of every runnable plan. *)
THEOREM RunInvariant ==
  ASSUME JobOK PROVE RunSpec => []RunInv
<1>1. RunInit => RunInv
  BY RunBegins
<1>2. RunInv /\ [(EmitNext /\ UNCHANGED runVars) \/ RunNext]_<<emitVars, runVars>> => RunInv'
  BY RunStep
<1> QED BY <1>1, <1>2, PTL DEF RunSpec

(***************************************************************************)
(* The ranks stay within the program and the loop, and no more messages    *)
(* are left to the library than it keeps, and the one being sent.          *)
(***************************************************************************)
THEOREM RanksInProgram ==
  ASSUME JobOK PROVE RunSpec => []RunTypeOK
<1>1. RunInv => RunTypeOK
  BY RanksTyped
<1> QED BY <1>1, RunInvariant, PTL

(***************************************************************************)
(* Ranks take part in the same collective calls in the same order, and a   *)
(* message that is received was sent by that call: what Matching finds is  *)
(* of the receiver's own op.                                               *)
(***************************************************************************)
THEOREM CollectivesMatch ==
  ASSUME JobOK PROVE RunSpec => []CollectivesAgree
<1>1. RunInv => CollectivesAgree
  BY Agreeing
<1> QED BY <1>1, RunInvariant, PTL

(* When all ranks have ended, every message sent has been received. *)
THEOREM NothingLeft ==
  ASSUME JobOK PROVE RunSpec => []Drained
<1>1. RunInv => Drained
  BY Draining
<1> QED BY <1>1, RunInvariant, PTL

(***************************************************************************)
(* The ranks never all wait for one another, whatever the depth of the     *)
(* library's buffers, none included.                                       *)
(***************************************************************************)
THEOREM NoDeadlock ==
  ASSUME JobOK PROVE RunSpec => []NoneStuck
<1>1. RunInv => NoneStuck
  BY NotStuck
<1> QED BY <1>1, RunInvariant, PTL
=================================================================================
