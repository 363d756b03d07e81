--------------------------- MODULE SPMDCodegenProofs ---------------------------
(***************************************************************************)
(* Proofs about the emission: for every set of schedules, each role meets  *)
(* the ops in their order and nothing is lost but what an open section     *)
(* keeps.                                                                  *)
(***************************************************************************)
EXTENDS SPMDCodegen, SequenceTheorems, TLAPS

LineSet == [op : Nat, side : {"master", "worker", "all"}, guard : {"master", "worker", "all"}]

(* Relevant to a role: lines of the calls that it executes. *)
Meets(role, line) == OfCalls(line) /\ Runs(role, line)

InOrder(role, s) ==
  \A x, y \in 1 .. Len(s) :
    x < y /\ Meets(role, s[x]) /\ Meets(role, s[y]) => s[x].op <= s[y].op

Quiet(role, s) == \A x \in 1 .. Len(s) : ~Meets(role, s[x])

Passed(s) == \A x \in 1 .. Len(s) : OfCalls(s[x]) => s[x].op < at

Has(role, s, j) ==
  \E x \in 1 .. Len(s) : s[x].op = j /\ s[x].side \in {role, "all"} /\ Runs(role, s[x])

Asked(role, j) == Concerns(j, role) /\ ~plan.ops[j].once

-----------------------------------------------------------------------------
(***************************************************************************)
(* The inductive invariant: the type; what the phases say; that the        *)
(* buffers hold no calls outside a section, and in one only calls for      *)
(* their own role; order and completeness.                                 *)
(***************************************************************************)
Typed ==
  /\ plan \in Schedules
  /\ phase \in {"init", "calls", "emitted"}
  /\ at \in 1 .. Len(plan.ops) + 1
  /\ hetero \in BOOLEAN
  /\ writer \in Seq(LineSet) /\ master \in Seq(LineSet) /\ worker \in Seq(LineSet)
  /\ ran \subseteq {j \in 1 .. Len(plan.ops) : plan.ops[j].once}

Phases ==
  /\ phase = "init" =>
       at = 1 /\ hetero = FALSE /\ writer = <<>> /\ master = <<>> /\ worker = <<>> /\ ran = {}
  /\ phase = "emitted" => at = Len(plan.ops) + 1

OwnSide ==
  /\ \A x \in 1 .. Len(master) : OfCalls(master[x]) => hetero /\ master[x].guard = "master"
  /\ \A x \in 1 .. Len(worker) : OfCalls(worker[x]) => hetero /\ worker[x].guard = "worker"

Order ==
  /\ Passed(writer) /\ Passed(master) /\ Passed(worker)
  /\ \A role \in Role : InOrder(role, Emitted(role))

Kept ==
  \A role \in Role : \A j \in 1 .. at - 1 :
    Asked(role, j) =>
      /\ Has(role, Emitted(role), j)
      /\ (~hetero \/ \E m \in j .. at - 1 : ~TwoSided(m)) => Has(role, writer, j)

IInv == Typed /\ Phases /\ OwnSide /\ Order /\ Kept

-----------------------------------------------------------------------------
(* Concatenation: its length, and which of its elements is which. *)
LEMMA Concat ==
  ASSUME NEW s \in Seq(LineSet), NEW t \in Seq(LineSet)
  PROVE  /\ s \o t \in Seq(LineSet)
         /\ Len(s \o t) = Len(s) + Len(t)
         /\ Len(s) \in Nat /\ Len(t) \in Nat
         /\ \A x \in 1 .. Len(s) : (s \o t)[x] = s[x]
         /\ \A x \in 1 .. Len(t) : (s \o t)[Len(s) + x] = t[x]
         /\ \A x \in 1 .. Len(s \o t) :
              \/ x \in 1 .. Len(s) /\ (s \o t)[x] = s[x]
              \/ x - Len(s) \in 1 .. Len(t) /\ (s \o t)[x] = t[x - Len(s)]
<1>1. /\ s \o t \in Seq(LineSet) /\ Len(s \o t) = Len(s) + Len(t)
      /\ Len(s) \in Nat /\ Len(t) \in Nat
  OBVIOUS
<1>2. \A x \in 1 .. Len(s) : (s \o t)[x] = s[x]
  OBVIOUS
<1>3. \A x \in 1 .. Len(t) : (s \o t)[Len(s) + x] = t[x]
  OBVIOUS
<1>4. ASSUME NEW x \in 1 .. Len(s \o t)
      PROVE  \/ x \in 1 .. Len(s) /\ (s \o t)[x] = s[x]
             \/ x - Len(s) \in 1 .. Len(t) /\ (s \o t)[x] = t[x - Len(s)]
  BY <1>1
<1> QED
  BY <1>1, <1>2, <1>3, <1>4

(* Order of a concatenation: each part in order, and the first before the second. *)
LEMMA OrderConcat ==
  ASSUME NEW role, NEW s \in Seq(LineSet), NEW t \in Seq(LineSet),
         InOrder(role, s), InOrder(role, t),
         \A x \in 1 .. Len(s) : \A y \in 1 .. Len(t) :
           Meets(role, s[x]) /\ Meets(role, t[y]) => s[x].op <= t[y].op
  PROVE  InOrder(role, s \o t)
<1> SUFFICES ASSUME NEW x \in 1 .. Len(s \o t), NEW y \in 1 .. Len(s \o t), x < y,
                    Meets(role, (s \o t)[x]), Meets(role, (s \o t)[y])
             PROVE  (s \o t)[x].op <= (s \o t)[y].op
  BY DEF InOrder
<1>1. CASE x \in 1 .. Len(s) /\ y \in 1 .. Len(s)
  BY <1>1, Concat DEF InOrder
<1>2. CASE x \in 1 .. Len(s) /\ y - Len(s) \in 1 .. Len(t) /\ (s \o t)[y] = t[y - Len(s)]
  BY <1>2, Concat
<1>3. CASE /\ x - Len(s) \in 1 .. Len(t) /\ (s \o t)[x] = t[x - Len(s)]
           /\ y - Len(s) \in 1 .. Len(t) /\ (s \o t)[y] = t[y - Len(s)]
  <2>1. x - Len(s) < y - Len(s)
    BY Concat
  <2> QED
    BY <1>3, <2>1 DEF InOrder
<1>4. CASE x - Len(s) \in 1 .. Len(t) /\ y \in 1 .. Len(s)
  BY <1>4, Concat
<1> QED
  BY <1>1, <1>2, <1>3, <1>4, Concat

(* What is in order with its end is in order without it, and the end too. *)
LEMMA OrderParts ==
  ASSUME NEW role, NEW s \in Seq(LineSet), NEW t \in Seq(LineSet), InOrder(role, s \o t)
  PROVE  /\ InOrder(role, s) /\ InOrder(role, t)
         /\ \A x \in 1 .. Len(s) : \A y \in 1 .. Len(t) :
              Meets(role, s[x]) /\ Meets(role, t[y]) => s[x].op <= t[y].op
<1>1. ASSUME NEW x \in 1 .. Len(s), NEW y \in 1 .. Len(s), x < y,
             Meets(role, s[x]), Meets(role, s[y])
      PROVE  s[x].op <= s[y].op
  <2>1. /\ x \in 1 .. Len(s \o t) /\ y \in 1 .. Len(s \o t)
        /\ (s \o t)[x] = s[x] /\ (s \o t)[y] = s[y]
    BY Concat
  <2> QED
    BY <1>1, <2>1 DEF InOrder
<1>2. ASSUME NEW x \in 1 .. Len(t), NEW y \in 1 .. Len(t), x < y,
             Meets(role, t[x]), Meets(role, t[y])
      PROVE  t[x].op <= t[y].op
  <2>1. /\ Len(s) + x \in 1 .. Len(s \o t) /\ Len(s) + y \in 1 .. Len(s \o t)
        /\ Len(s) + x < Len(s) + y
        /\ (s \o t)[Len(s) + x] = t[x] /\ (s \o t)[Len(s) + y] = t[y]
    BY <1>2, Concat
  <2> QED
    BY <1>2, <2>1 DEF InOrder
<1>3. ASSUME NEW x \in 1 .. Len(s), NEW y \in 1 .. Len(t),
             Meets(role, s[x]), Meets(role, t[y])
      PROVE  s[x].op <= t[y].op
  <2>1. /\ x \in 1 .. Len(s \o t) /\ Len(s) + y \in 1 .. Len(s \o t) /\ x < Len(s) + y
        /\ (s \o t)[x] = s[x] /\ (s \o t)[Len(s) + y] = t[y]
    BY Concat
  <2> QED
    BY <1>3, <2>1 DEF InOrder
<1> QED
  BY <1>1, <1>2, <1>3 DEF InOrder

(* What a role does not meet is in order. *)
LEMMA QuietInOrder ==
  ASSUME NEW role, NEW s, Quiet(role, s)
  PROVE  InOrder(role, s)
BY DEF Quiet, InOrder

LEMMA QuietConcat ==
  ASSUME NEW role, NEW s \in Seq(LineSet), NEW t \in Seq(LineSet),
         Quiet(role, s), Quiet(role, t)
  PROVE  Quiet(role, s \o t)
BY Concat DEF Quiet

LEMMA HasConcat ==
  ASSUME NEW role, NEW s \in Seq(LineSet), NEW t \in Seq(LineSet), NEW j
  PROVE  Has(role, s \o t, j) <=> Has(role, s, j) \/ Has(role, t, j)
<1>1. ASSUME Has(role, s, j) PROVE Has(role, s \o t, j)
  <2>1. PICK x \in 1 .. Len(s) : s[x].op = j /\ s[x].side \in {role, "all"} /\ Runs(role, s[x])
    BY <1>1 DEF Has
  <2>2. x \in 1 .. Len(s \o t) /\ (s \o t)[x] = s[x]
    BY Concat
  <2> QED
    BY <2>1, <2>2 DEF Has
<1>2. ASSUME Has(role, t, j) PROVE Has(role, s \o t, j)
  <2>1. PICK x \in 1 .. Len(t) : t[x].op = j /\ t[x].side \in {role, "all"} /\ Runs(role, t[x])
    BY <1>2 DEF Has
  <2>2. Len(s) + x \in 1 .. Len(s \o t) /\ (s \o t)[Len(s) + x] = t[x]
    BY Concat
  <2> QED
    BY <2>1, <2>2 DEF Has
<1>3. ASSUME Has(role, s \o t, j) PROVE Has(role, s, j) \/ Has(role, t, j)
  <2>1. PICK x \in 1 .. Len(s \o t) :
          (s \o t)[x].op = j /\ (s \o t)[x].side \in {role, "all"} /\ Runs(role, (s \o t)[x])
    BY <1>3 DEF Has
  <2>2. CASE x \in 1 .. Len(s) /\ (s \o t)[x] = s[x]
    BY <2>1, <2>2 DEF Has
  <2>3. CASE x - Len(s) \in 1 .. Len(t) /\ (s \o t)[x] = t[x - Len(s)]
    BY <2>1, <2>3 DEF Has
  <2> QED
    BY <2>2, <2>3, Concat
<1> QED
  BY <1>1, <1>2, <1>3

(* Appending a line; the types of a text's lines. *)
LEMMA AppendLine ==
  ASSUME NEW s \in Seq(LineSet), NEW l \in LineSet
  PROVE  /\ Append(s, l) \in Seq(LineSet)
         /\ Len(Append(s, l)) = Len(s) + 1
         /\ \A x \in 1 .. Len(Append(s, l)) :
              \/ x \in 1 .. Len(s) /\ Append(s, l)[x] = s[x]
              \/ x = Len(s) + 1 /\ Append(s, l)[x] = l
  BY AppendProperties

LEMMA LineOps ==
  ASSUME NEW s \in Seq(LineSet), NEW x \in 1 .. Len(s)
  PROVE  s[x] \in LineSet /\ s[x].op \in Nat
<1>1. s[x] \in LineSet
  BY ElementOfSeq
<1> QED
  BY <1>1 DEF LineSet

LEMMA AddCall ==
  ASSUME NEW role, NEW s \in Seq(LineSet), NEW l \in LineSet, InOrder(role, s),
         \A x \in 1 .. Len(s) : Meets(role, s[x]) => s[x].op <= l.op
  PROVE  InOrder(role, Append(s, l))
<1>1. Append(s, l) = s \o <<l>> /\ <<l>> \in Seq(LineSet)
  BY AppendIsConcat
<1>2. InOrder(role, <<l>>)
  BY DEF InOrder
<1>3. \A x \in 1 .. Len(s) : \A y \in 1 .. Len(<<l>>) :
        Meets(role, s[x]) /\ Meets(role, <<l>>[y]) => s[x].op <= <<l>>[y].op
  OBVIOUS
<1> QED
  BY <1>1, <1>2, <1>3, OrderConcat

(* A line for a role, at the end of a sequence, is there. *)
LEMMA HasAdded ==
  ASSUME NEW role, NEW s \in Seq(LineSet), NEW l \in LineSet,
         l.side \in {role, "all"}, Runs(role, l)
  PROVE  Has(role, Append(s, l), l.op)
BY AppendProperties DEF Has

LEMMA HasKept ==
  ASSUME NEW role, NEW s \in Seq(LineSet), NEW l \in LineSet, NEW j, Has(role, s, j)
  PROVE  Has(role, Append(s, l), j)
BY AppendProperties DEF Has

(* Lines put in the middle that the role does not meet. *)
LEMMA InOrderAround ==
  ASSUME NEW role, NEW a \in Seq(LineSet), NEW q \in Seq(LineSet), NEW b \in Seq(LineSet),
         InOrder(role, a \o b), Quiet(role, q)
  PROVE  InOrder(role, a \o (q \o b)) /\ InOrder(role, a \o (b \o q))
<1>1. /\ InOrder(role, a) /\ InOrder(role, b)
      /\ \A x \in 1 .. Len(a) : \A y \in 1 .. Len(b) :
           Meets(role, a[x]) /\ Meets(role, b[y]) => a[x].op <= b[y].op
  BY OrderParts
<1>2. InOrder(role, q) /\ \A x \in 1 .. Len(q) : ~Meets(role, q[x])
  BY QuietInOrder DEF Quiet
<1>3. InOrder(role, q \o b) /\ InOrder(role, b \o q)
  BY <1>1, <1>2, OrderConcat
<1>4. ASSUME NEW x \in 1 .. Len(a), NEW y \in 1 .. Len(q \o b),
             Meets(role, a[x]), Meets(role, (q \o b)[y])
      PROVE  a[x].op <= (q \o b)[y].op
  <2>1. CASE y \in 1 .. Len(q) /\ (q \o b)[y] = q[y]
    BY <1>2, <1>4, <2>1
  <2>2. CASE y - Len(q) \in 1 .. Len(b) /\ (q \o b)[y] = b[y - Len(q)]
    BY <1>1, <1>4, <2>2
  <2> QED
    BY <2>1, <2>2, Concat
<1>5. ASSUME NEW x \in 1 .. Len(a), NEW y \in 1 .. Len(b \o q),
             Meets(role, a[x]), Meets(role, (b \o q)[y])
      PROVE  a[x].op <= (b \o q)[y].op
  <2>1. CASE y \in 1 .. Len(b) /\ (b \o q)[y] = b[y]
    BY <1>1, <1>5, <2>1
  <2>2. CASE y - Len(b) \in 1 .. Len(q) /\ (b \o q)[y] = q[y - Len(b)]
    BY <1>2, <1>5, <2>2
  <2> QED
    BY <2>1, <2>2, Concat
<1>6. q \o b \in Seq(LineSet) /\ b \o q \in Seq(LineSet)
  BY Concat
<1> QED
  BY <1>1, <1>3, <1>4, <1>5, <1>6, OrderConcat

-----------------------------------------------------------------------------
(***************************************************************************)
(* What the end of a hetero section, or its absence, leaves: a text in     *)
(* which every role finds all it was given, in order, and buffers with no  *)
(* calls in them.                                                          *)
(***************************************************************************)
LEMMA Flush ==
  ASSUME IInv
  PROVE  /\ Flushed \in Seq(LineSet)
         /\ Left(master) \in Seq(LineSet) /\ Left(worker) \in Seq(LineSet)
         /\ \A x \in 1 .. Len(Left(master)) : ~OfCalls(Left(master)[x])
         /\ \A x \in 1 .. Len(Left(worker)) : ~OfCalls(Left(worker)[x])
         /\ Passed(Flushed)
         /\ \A role \in Role : InOrder(role, Flushed)
         /\ \A role \in Role : \A j \in 1 .. at - 1 :
              Asked(role, j) => Has(role, Flushed, j)
<1> USE DEF IInv
<1>0. /\ writer \in Seq(LineSet) /\ master \in Seq(LineSet) /\ worker \in Seq(LineSet)
      /\ hetero \in BOOLEAN
      /\ master \o worker \in Seq(LineSet)
  BY Concat DEF Typed
<1>1. CASE hetero
  <2>1. Flushed = writer \o (master \o worker) /\ Left(master) = <<>> /\ Left(worker) = <<>>
    BY <1>1 DEF Flushed, Left
  <2>2. Flushed \in Seq(LineSet)
    BY <1>0, <2>1, Concat
  <2>3. ASSUME NEW x \in 1 .. Len(Flushed), OfCalls(Flushed[x])
        PROVE  Flushed[x].op < at
    <3>1. CASE x \in 1 .. Len(writer) /\ Flushed[x] = writer[x]
      BY <2>3, <3>1 DEF Order, Passed
    <3>2. CASE /\ x - Len(writer) \in 1 .. Len(master \o worker)
               /\ Flushed[x] = (master \o worker)[x - Len(writer)]
      <4> DEFINE y == x - Len(writer)
      <4>1. \/ y \in 1 .. Len(master) /\ Flushed[x] = master[y]
            \/ y - Len(master) \in 1 .. Len(worker) /\ Flushed[x] = worker[y - Len(master)]
        BY <1>0, <3>2, Concat
      <4> QED
        BY <2>3, <4>1 DEF Order, Passed
    <3> QED
      BY <1>0, <2>1, <3>1, <3>2, Concat
  <2>4. InOrder("master", Flushed)
    <3>1. Quiet("master", worker)
      BY DEF OwnSide, Quiet, Meets, Runs
    <3>2. InOrder("master", writer \o master)
      BY DEF Order, Role, Emitted
    <3> QED
      BY <1>0, <2>1, <3>1, <3>2, InOrderAround
  <2>5. InOrder("worker", Flushed)
    <3>1. Quiet("worker", master)
      BY DEF OwnSide, Quiet, Meets, Runs
    <3>2. InOrder("worker", writer \o worker)
      BY DEF Order, Role, Emitted
    <3> QED
      BY <1>0, <2>1, <3>1, <3>2, InOrderAround
  <2>6. ASSUME NEW role \in Role, NEW j \in 1 .. at - 1, Asked(role, j)
        PROVE  Has(role, Flushed, j)
    <3>1. Has(role, Emitted(role), j)
      BY <2>6 DEF Kept
    <3>2. Has(role, writer, j) \/ Has(role, IF role = "master" THEN master ELSE worker, j)
      <4>1. CASE role = "master"
        BY <1>0, <3>1, <4>1, HasConcat DEF Emitted
      <4>2. CASE role # "master"
        BY <1>0, <3>1, <4>2, HasConcat DEF Emitted
      <4> QED
        BY <4>1, <4>2
    <3>3. Has(role, writer, j) \/ Has(role, master \o worker, j)
      BY <1>0, <3>2, HasConcat
    <3> QED
      BY <1>0, <2>1, <3>3, HasConcat
  <2>7. \A role \in Role : InOrder(role, Flushed)
    BY <2>4, <2>5 DEF Role
  <2>8. /\ Len(Left(master)) = 0 /\ Left(master) \in Seq(LineSet)
        /\ Len(Left(worker)) = 0 /\ Left(worker) \in Seq(LineSet)
    BY <2>1
  <2>9. Passed(Flushed)
    BY <2>3 DEF Passed
  <2> HIDE DEF IInv
  <2> QED
    BY <2>2, <2>6, <2>7, <2>8, <2>9
<1>2. CASE ~hetero
  <2>1. Left(master) = master /\ Left(worker) = worker /\ Flushed = writer \o <<>>
    BY <1>2 DEF Left, Flushed
  <2>2. Flushed = writer
    BY <1>0, <2>1
  <2>3. ASSUME NEW role \in Role
        PROVE  InOrder(role, writer)
    <3>1. CASE role = "master"
      BY <1>0, <3>1, OrderParts DEF Order, Emitted
    <3>2. CASE role # "master"
      BY <1>0, <3>2, OrderParts DEF Order, Emitted
    <3> QED
      BY <3>1, <3>2
  <2>4. \A role \in Role : \A j \in 1 .. at - 1 : Asked(role, j) => Has(role, writer, j)
    BY <1>2 DEF Kept
  <2> QED
    BY <1>0, <1>2, <2>1, <2>2, <2>3, <2>4 DEF OwnSide, Order
<1> QED
  BY <1>0, <1>1, <1>2

-----------------------------------------------------------------------------
(* The lengths of a schedule, and the ops its initialisations name. *)
LEMMA PlanLengths ==
  ASSUME NEW p \in Schedules
  PROVE  /\ Len(p.ops) \in Nat
         /\ p.inits \in Seq(1 .. Len(p.ops))
         /\ Len(p.inits) \in Nat
         /\ \A x \in 1 .. Len(p.inits) : p.inits[x] \in 1 .. Len(p.ops)
<1>1. IsPlan(p)
  BY PlanAssumption
<1>2. p.inits \in Seq(1 .. Len(p.ops))
  BY <1>1 DEF IsPlan
<1>3. \E S : p.ops \in Seq(S)
  BY <1>1 DEF IsPlan
<1>4. Len(p.ops) \in Nat
  BY <1>3
<1>5. \A x \in 1 .. Len(p.inits) : p.inits[x] \in 1 .. Len(p.ops)
  BY <1>2, ElementOfSeq
<1> QED
  BY <1>2, <1>4, <1>5

(* The initial states satisfy the invariant. *)
LEMMA EmitInitIInv == EmitInit => IInv
<1> SUFFICES ASSUME EmitInit PROVE IInv
  OBVIOUS
<1> USE DEF EmitInit
<1>1. Typed
  <2>1. Len(plan.ops) \in Nat
    BY PlanLengths
  <2>2. <<>> \in Seq(LineSet)
    OBVIOUS
  <2>3. /\ at \in 1 .. Len(plan.ops) + 1
        /\ ran \subseteq {j \in 1 .. Len(plan.ops) : plan.ops[j].once}
    BY <2>1
  <2>4. /\ plan \in Schedules /\ hetero \in BOOLEAN
        /\ phase \in {"init", "calls", "emitted"}
    OBVIOUS
  <2>5. writer \in Seq(LineSet) /\ master \in Seq(LineSet) /\ worker \in Seq(LineSet)
    BY <2>2
  <2> HIDE DEF EmitInit
  <2> QED
    BY <2>3, <2>4, <2>5 DEF Typed
<1>2. Phases
  BY DEF Phases
<1>3. OwnSide
  BY DEF OwnSide
<1>4. Order
  <2>1. \A role \in Role : Emitted(role) = <<>> \o <<>>
    BY DEF Emitted
  <2>2. \A role \in Role : Emitted(role) = <<>>
    BY <2>1
  <2> QED
    BY <2>2 DEF Order, Passed, InOrder
<1>5. Kept
  BY DEF Kept
<1> QED
  BY <1>1, <1>2, <1>3, <1>4, <1>5 DEF IInv

(* The line added by an action is one. *)
LEMMA NewLine ==
  ASSUME Typed, at \in 1 .. Len(plan.ops),
         NEW side \in {"master", "worker", "all"}, NEW guard \in {"master", "worker", "all"}
  PROVE  /\ Line(at, side, guard) \in LineSet
         /\ Line(at, side, guard).op = at
         /\ Line(at, side, guard).side = side
         /\ Line(at, side, guard).guard = guard
BY DEF Typed, Line, LineSet

(* Only run-once ops are ever marked as run. *)
LEMMA RanOnce ==
  ASSUME Typed, at \in 1 .. Len(plan.ops), ran' = Ran({at}), plan' = plan
  PROVE  /\ ran' \subseteq {j \in 1 .. Len(plan'.ops) : plan'.ops[j].once}
         /\ ~plan.ops[at].once => Runable(at)
BY DEF Typed, Ran, Runable

LEMMA InitStep == IInv /\ EmitTensorInitializations => IInv'
<1> SUFFICES ASSUME IInv, EmitTensorInitializations PROVE IInv'
  OBVIOUS
<1> USE DEF EmitTensorInitializations
<1>1. /\ at = 1 /\ hetero = FALSE /\ writer = <<>> /\ plan \in Schedules
  BY DEF IInv, Phases, Typed
<1>3. /\ plan.inits \in Seq(1 .. Len(plan.ops)) /\ Len(plan.ops) \in Nat
      /\ Len(plan.inits) \in Nat
      /\ \A x \in 1 .. Len(plan.inits) : plan.inits[x] \in 1 .. Len(plan.ops)
  BY <1>1, PlanLengths
<1>4. ASSUME NEW side \in {"master", "worker"}
      PROVE  /\ InitLines(side) \in Seq(LineSet)
             /\ Len(InitLines(side)) = Len(plan.inits)
             /\ \A x \in 1 .. Len(InitLines(side)) : ~OfCalls(InitLines(side)[x])
  <2>1. \A x \in 1 .. Len(plan.inits) : Line(plan.inits[x], side, "all") \in LineSet
    BY <1>3 DEF Line, LineSet
  <2>2. InitLines(side) \in [1 .. Len(plan.inits) -> LineSet]
    BY <2>1 DEF InitLines
  <2>3. InitLines(side) \in Seq(LineSet) /\ Len(InitLines(side)) = Len(plan.inits)
    BY <1>3, <2>2
  <2>4. ASSUME NEW x \in 1 .. Len(plan.inits)
        PROVE  ~OfCalls(InitLines(side)[x])
    BY DEF InitLines, OfCalls, Line
  <2> QED
    BY <2>3, <2>4
<1>5. Typed'
  <2>1. ran' \subseteq {j \in 1 .. Len(plan.ops) : plan.ops[j].once}
    BY <1>3 DEF IInv, Typed, Ran
  <2> QED
    BY <1>4, <2>1 DEF IInv, Typed
<1>6. Phases'
  BY DEF Phases
<1>7. OwnSide'
  BY <1>4 DEF OwnSide, OfCalls
<1>8. Order'
  <2>1. Passed(writer)' /\ Passed(master)' /\ Passed(worker)'
    BY <1>1, <1>4 DEF Passed, OfCalls
  <2>2. ASSUME NEW role \in Role
        PROVE  InOrder(role, Emitted(role))'
    <3>1. PICK side \in {"master", "worker"} : Emitted(role)' = <<>> \o InitLines(side)
      BY <1>1 DEF Emitted
    <3>2. Emitted(role)' = InitLines(side)
      BY <1>4, <3>1
    <3> QED
      BY <1>4, <3>2 DEF InOrder, Meets, OfCalls
  <2> QED
    BY <2>1, <2>2 DEF Order
<1>9. Kept'
  BY <1>1 DEF Kept
<1> QED
  BY <1>5, <1>6, <1>7, <1>8, <1>9 DEF IInv

(* A Scatter or Gather: a line at the end of each role's own buffer. *)
LEMMA TwoSidedStep == IInv /\ EmitTwoSided => IInv'
<1> SUFFICES ASSUME IInv, EmitTwoSided PROVE IInv'
  OBVIOUS
<1> DEFINE mLine == Line(at, "master", "master")
           wLine == Line(at, "worker", "worker")
<1>1. /\ at \in 1 .. Len(plan.ops) /\ at' = at + 1 /\ TwoSided(at)
      /\ plan' = plan /\ phase = "calls" /\ phase' = phase /\ writer' = writer
      /\ hetero' = TRUE /\ ran' = Ran({at})
      /\ master' = master \/ master' = Append(master, mLine)
      /\ worker' = worker \/ worker' = Append(worker, wLine)
      /\ ~plan.ops[at].once /\ Runable(at) =>
           master' = Append(master, mLine) /\ worker' = Append(worker, wLine)
  BY DEF EmitTwoSided
<1>2. /\ Typed /\ Len(plan.ops) \in Nat /\ plan \in Schedules
      /\ writer \in Seq(LineSet) /\ master \in Seq(LineSet) /\ worker \in Seq(LineSet)
  BY PlanLengths DEF IInv, Typed
<1>3. /\ mLine \in LineSet /\ mLine.op = at /\ mLine.side = "master" /\ mLine.guard = "master"
      /\ wLine \in LineSet /\ wLine.op = at /\ wLine.side = "worker" /\ wLine.guard = "worker"
  BY <1>1, <1>2, NewLine
<1>4. Append(master, mLine) \in Seq(LineSet) /\ Append(worker, wLine) \in Seq(LineSet)
  BY <1>2, <1>3, AppendLine
<1> HIDE DEF mLine, wLine
<1>5. Typed'
  <2>1. ran' \subseteq {j \in 1 .. Len(plan'.ops) : plan'.ops[j].once}
    BY <1>1, <1>2, RanOnce
  <2>2. at' \in 1 .. Len(plan'.ops) + 1
    BY <1>1, <1>2
  <2>3. master' \in Seq(LineSet) /\ worker' \in Seq(LineSet) /\ writer' \in Seq(LineSet)
    BY <1>1, <1>2, <1>4
  <2>4. /\ plan' \in Schedules /\ hetero' \in BOOLEAN
        /\ phase' \in {"init", "calls", "emitted"}
    BY <1>1, <1>2
  <2> QED
    BY <2>1, <2>2, <2>3, <2>4 DEF Typed
<1>6. Phases'
  BY <1>1 DEF Phases
<1>7. OwnSide'
  <2>1. ASSUME NEW x \in 1 .. Len(master'), OfCalls(master'[x])
        PROVE  master'[x].guard = "master"
    <3>1. \/ x \in 1 .. Len(master) /\ master'[x] = master[x]
          \/ master'[x] = mLine
      <4>1. CASE master' = master
        BY <4>1
      <4>2. CASE master' = Append(master, mLine)
        BY <1>2, <1>3, <4>2, AppendLine
      <4> QED
        BY <1>1, <4>1, <4>2
    <3> QED
      BY <1>3, <2>1, <3>1 DEF IInv, OwnSide
  <2>2. ASSUME NEW x \in 1 .. Len(worker'), OfCalls(worker'[x])
        PROVE  worker'[x].guard = "worker"
    <3>1. \/ x \in 1 .. Len(worker) /\ worker'[x] = worker[x]
          \/ worker'[x] = wLine
      <4>1. CASE worker' = worker
        BY <4>1
      <4>2. CASE worker' = Append(worker, wLine)
        BY <1>2, <1>3, <4>2, AppendLine
      <4> QED
        BY <1>1, <4>1, <4>2
    <3> QED
      BY <1>3, <2>2, <3>1 DEF IInv, OwnSide
  <2> QED
    BY <1>1, <2>1, <2>2 DEF OwnSide, OfCalls
<1>8. Order'
  <2>1. /\ \A x \in 1 .. Len(writer) : OfCalls(writer[x]) => writer[x].op < at
        /\ \A x \in 1 .. Len(master) : OfCalls(master[x]) => master[x].op < at
        /\ \A x \in 1 .. Len(worker) : OfCalls(worker[x]) => worker[x].op < at
    BY DEF IInv, Order, Passed
  <2>2. at \in Nat
    BY <1>1, <1>2
  <2>3. ASSUME NEW x \in 1 .. Len(master'), OfCalls(master'[x])
        PROVE  master'[x].op < at + 1
    <3>1. \/ x \in 1 .. Len(master) /\ master'[x] = master[x]
          \/ master'[x] = mLine
      <4>1. CASE master' = master
        BY <4>1
      <4>2. CASE master' = Append(master, mLine)
        BY <1>2, <1>3, <4>2, AppendLine
      <4> QED
        BY <1>1, <4>1, <4>2
    <3>2. CASE x \in 1 .. Len(master) /\ master'[x] = master[x]
      <4>1. master[x].op < at /\ master[x].op \in Nat
        BY <1>2, <2>1, <2>3, <3>2, LineOps
      <4> QED
        BY <2>2, <3>2, <4>1
    <3> QED
      BY <1>3, <2>2, <3>1, <3>2
  <2>4. ASSUME NEW x \in 1 .. Len(worker'), OfCalls(worker'[x])
        PROVE  worker'[x].op < at + 1
    <3>1. \/ x \in 1 .. Len(worker) /\ worker'[x] = worker[x]
          \/ worker'[x] = wLine
      <4>1. CASE worker' = worker
        BY <4>1
      <4>2. CASE worker' = Append(worker, wLine)
        BY <1>2, <1>3, <4>2, AppendLine
      <4> QED
        BY <1>1, <4>1, <4>2
    <3>2. CASE x \in 1 .. Len(worker) /\ worker'[x] = worker[x]
      <4>1. worker[x].op < at /\ worker[x].op \in Nat
        BY <1>2, <2>1, <2>4, <3>2, LineOps
      <4> QED
        BY <2>2, <3>2, <4>1
    <3> QED
      BY <1>3, <2>2, <3>1, <3>2
  <2>5. ASSUME NEW x \in 1 .. Len(writer), OfCalls(writer[x])
        PROVE  writer[x].op < at + 1
    BY <1>2, <2>1, <2>2, <2>5, LineOps
  <2>6. Passed(writer)' /\ Passed(master)' /\ Passed(worker)'
    BY <1>1, <2>3, <2>4, <2>5 DEF Passed, OfCalls
  <2>7. InOrder("master", writer \o master')
    <3>1. InOrder("master", writer \o master)
      BY DEF IInv, Order, Role, Emitted
    <3>2. CASE master' = Append(master, mLine)
      <4>1. InOrder("master", master')
        <5>1. InOrder("master", master)
          BY <1>2, <3>1, OrderParts
        <5>2. ASSUME NEW x \in 1 .. Len(master), Meets("master", master[x])
              PROVE  master[x].op <= mLine.op
          <6>1. master[x].op < at /\ master[x].op \in Nat
            BY <1>2, <2>1, <5>2, LineOps DEF Meets
          <6> QED
            BY <1>3, <2>2, <6>1
        <5> QED
          BY <1>2, <1>3, <3>2, <5>1, <5>2, AddCall
      <4>2. ASSUME NEW x \in 1 .. Len(writer), NEW y \in 1 .. Len(master'),
                   Meets("master", writer[x]), Meets("master", master'[y])
            PROVE  writer[x].op <= master'[y].op
        <5>1. writer[x].op < at /\ writer[x].op \in Nat
          BY <1>2, <2>1, <4>2, LineOps DEF Meets
        <5>2. \/ y \in 1 .. Len(master) /\ master'[y] = master[y]
              \/ master'[y] = mLine
          BY <1>2, <1>3, <3>2, AppendLine
        <5>3. CASE y \in 1 .. Len(master) /\ master'[y] = master[y]
          BY <1>2, <3>1, <4>2, <5>3, OrderParts
        <5>4. CASE master'[y] = mLine
          BY <1>2, <1>3, <2>2, <5>1, <5>4
        <5> QED
          BY <5>2, <5>3, <5>4
      <4> QED
        BY <1>2, <1>4, <3>1, <3>2, <4>1, <4>2, OrderParts, OrderConcat
    <3> QED
      BY <1>1, <3>1, <3>2
  <2>8. InOrder("worker", writer \o worker')
    <3>1. InOrder("worker", writer \o worker)
      BY DEF IInv, Order, Role, Emitted
    <3>2. CASE worker' = Append(worker, wLine)
      <4>1. InOrder("worker", worker')
        <5>1. InOrder("worker", worker)
          BY <1>2, <3>1, OrderParts
        <5>2. ASSUME NEW x \in 1 .. Len(worker), Meets("worker", worker[x])
              PROVE  worker[x].op <= wLine.op
          <6>1. worker[x].op < at /\ worker[x].op \in Nat
            BY <1>2, <2>1, <5>2, LineOps DEF Meets
          <6> QED
            BY <1>3, <2>2, <6>1
        <5> QED
          BY <1>2, <1>3, <3>2, <5>1, <5>2, AddCall
      <4>2. ASSUME NEW x \in 1 .. Len(writer), NEW y \in 1 .. Len(worker'),
                   Meets("worker", writer[x]), Meets("worker", worker'[y])
            PROVE  writer[x].op <= worker'[y].op
        <5>1. writer[x].op < at /\ writer[x].op \in Nat
          BY <1>2, <2>1, <4>2, LineOps DEF Meets
        <5>2. \/ y \in 1 .. Len(worker) /\ worker'[y] = worker[y]
              \/ worker'[y] = wLine
          BY <1>2, <1>3, <3>2, AppendLine
        <5>3. CASE y \in 1 .. Len(worker) /\ worker'[y] = worker[y]
          BY <1>2, <3>1, <4>2, <5>3, OrderParts
        <5>4. CASE worker'[y] = wLine
          BY <1>2, <1>3, <2>2, <5>1, <5>4
        <5> QED
          BY <5>2, <5>3, <5>4
      <4> QED
        BY <1>2, <1>4, <3>1, <3>2, <4>1, <4>2, OrderParts, OrderConcat
    <3> QED
      BY <1>1, <3>1, <3>2
  <2>9. \A role \in Role : InOrder(role, Emitted(role))'
    BY <1>1, <2>7, <2>8 DEF Role, Emitted, InOrder, Meets, OfCalls
  <2> QED
    BY <2>6, <2>9 DEF Order
<1>9. Kept'
  <2>a. at' - 1 = at
    BY <1>1, <1>2
  <2> SUFFICES ASSUME NEW role \in Role, NEW j \in 1 .. at, Asked(role, j)
               PROVE  /\ Has(role, Emitted(role)', j)
                      /\ (\E m \in j .. at : ~TwoSided(m)) => Has(role, writer, j)
    <3>1. ASSUME NEW role \in Role, NEW j \in 1 .. at' - 1, Asked(role, j)'
          PROVE  /\ Has(role, Emitted(role), j)'
                 /\ (~hetero' \/ \E m \in j .. at' - 1 : ~TwoSided(m)') => Has(role, writer, j)'
      <4>1. j \in 1 .. at /\ Asked(role, j)
        BY <1>1, <2>a, <3>1 DEF Asked, Concerns, TwoSided, ForAll
      <4>2. (\E m \in j .. at' - 1 : ~TwoSided(m)') => \E m \in j .. at : ~TwoSided(m)
        BY <1>1, <2>a DEF TwoSided
      <4>3. /\ Has(role, Emitted(role), j)' <=> Has(role, Emitted(role)', j)
            /\ Has(role, writer, j)' <=> Has(role, writer, j)
        BY <1>1 DEF Has, Runs
      <4> QED
        BY <1>1, <4>1, <4>2, <4>3
    <3> QED
      BY <3>1 DEF Kept
  <2> DEFINE buffer == IF role = "master" THEN master ELSE worker
             added == IF role = "master" THEN mLine ELSE wLine
  <2>0. /\ buffer \in Seq(LineSet) /\ added \in LineSet
        /\ buffer' = buffer \/ buffer' = Append(buffer, added)
        /\ Emitted(role) = writer \o buffer /\ Emitted(role)' = writer \o buffer'
        /\ added.op = at /\ added.side \in {role, "all"} /\ Runs(role, added)
        /\ ~plan.ops[at].once => buffer' = Append(buffer, added)
    <3>1. ~plan.ops[at].once => Runable(at)
      BY <1>1, <1>2, RanOnce
    <3>2. CASE role = "master"
      BY <1>1, <1>2, <1>3, <3>1, <3>2 DEF Emitted, Runs
    <3>3. CASE role = "worker"
      BY <1>1, <1>2, <1>3, <3>1, <3>3 DEF Emitted, Runs
    <3> QED
      BY <3>2, <3>3 DEF Role
  <2> HIDE DEF buffer, added
  <2>1. buffer' \in Seq(LineSet)
    BY <2>0, AppendLine
  <2>2. CASE j = at
    <3>1. Has(role, buffer', j)
      BY <2>0, <2>2, HasAdded DEF Asked
    <3>2. Has(role, Emitted(role)', j)
      BY <1>2, <2>0, <2>1, <3>1, HasConcat
    <3>3. ~ \E m \in j .. at : ~TwoSided(m)
      BY <1>1, <1>2, <2>2 DEF Typed
    <3> QED
      BY <3>2, <3>3
  <2>3. CASE j # at
    <3>1. j \in 1 .. at - 1
      BY <1>2, <2>3 DEF Typed
    <3>2. /\ Has(role, Emitted(role), j)
          /\ (\E m \in j .. at - 1 : ~TwoSided(m)) => Has(role, writer, j)
      BY <3>1 DEF IInv, Kept
    <3>3. Has(role, writer, j) \/ Has(role, buffer, j)
      BY <1>2, <2>0, <3>2, HasConcat
    <3>4. Has(role, writer, j) \/ Has(role, buffer', j)
      BY <2>0, <3>3, HasKept
    <3>5. Has(role, Emitted(role)', j)
      BY <1>2, <2>0, <2>1, <3>4, HasConcat
    <3>6. (\E m \in j .. at : ~TwoSided(m)) => \E m \in j .. at - 1 : ~TwoSided(m)
      BY <1>1, <1>2 DEF Typed
    <3> QED
      BY <3>2, <3>5, <3>6
  <2> QED
    BY <2>2, <2>3
<1> QED
  BY <1>5, <1>6, <1>7, <1>8, <1>9 DEF IInv

(***************************************************************************)
(* The text after any other op: all that was there, the op's lines, and    *)
(* buffers without calls.  text is in order for every role and holds what  *)
(* was asked for, this op included.                                        *)
(***************************************************************************)
Closes(text, m, w) ==
  /\ text \in Seq(LineSet) /\ m \in Seq(LineSet) /\ w \in Seq(LineSet)
  /\ \A x \in 1 .. Len(m) : ~OfCalls(m[x])
  /\ \A x \in 1 .. Len(w) : ~OfCalls(w[x])
  /\ \A x \in 1 .. Len(text) : OfCalls(text[x]) => text[x].op <= at
  /\ \A role \in Role : InOrder(role, text)
  /\ \A role \in Role : \A j \in 1 .. at : Asked(role, j) => Has(role, text, j)

LEMMA ClosingStep ==
  ASSUME IInv, phase = "calls", at \in 1 .. Len(plan.ops),
         plan' = plan, phase' = phase, at' = at + 1, hetero' = FALSE, ran' = Ran({at}),
         Closes(writer', master', worker')
  PROVE  IInv'
<1>1. /\ Typed /\ Len(plan.ops) \in Nat /\ at \in Nat /\ at' - 1 = at
  BY PlanLengths DEF IInv, Typed
<1>2. /\ writer' \in Seq(LineSet) /\ master' \in Seq(LineSet) /\ worker' \in Seq(LineSet)
      /\ \A x \in 1 .. Len(master') : ~OfCalls(master'[x])
      /\ \A x \in 1 .. Len(worker') : ~OfCalls(worker'[x])
  BY DEF Closes
<1>3. Typed'
  <2>1. ran' \subseteq {j \in 1 .. Len(plan'.ops) : plan'.ops[j].once}
    BY <1>1, RanOnce
  <2>2. at' \in 1 .. Len(plan'.ops) + 1
    BY <1>1
  <2>3. /\ plan' \in Schedules /\ hetero' \in BOOLEAN
        /\ phase' \in {"init", "calls", "emitted"}
    BY <1>1 DEF Typed
  <2> QED
    BY <1>2, <2>1, <2>2, <2>3 DEF Typed
<1>4. Phases'
  BY DEF Phases
<1>5. OwnSide'
  BY <1>2 DEF OwnSide, OfCalls
<1>6. Order'
  <2>1. ASSUME NEW x \in 1 .. Len(writer'), OfCalls(writer'[x])
        PROVE  writer'[x].op < at + 1
    <3>1. writer'[x].op <= at /\ writer'[x].op \in Nat
      BY <1>2, <2>1, LineOps DEF Closes
    <3> QED
      BY <1>1, <3>1
  <2>2. Passed(writer)' /\ Passed(master)' /\ Passed(worker)'
    BY <1>2, <2>1 DEF Passed, OfCalls
  <2>3. ASSUME NEW role \in Role
        PROVE  InOrder(role, writer' \o (IF role = "master" THEN master' ELSE worker'))
    <3> DEFINE rest == IF role = "master" THEN master' ELSE worker'
    <3>1. rest \in Seq(LineSet) /\ \A x \in 1 .. Len(rest) : ~Meets(role, rest[x])
      BY <1>2 DEF Meets
    <3> HIDE DEF rest
    <3>2. InOrder(role, rest)
      BY <3>1 DEF InOrder
    <3>3. InOrder(role, writer')
      BY DEF Closes
    <3>4. InOrder(role, writer' \o rest)
      BY <1>2, <3>1, <3>2, <3>3, OrderConcat
    <3> QED
      BY <3>4 DEF rest
  <2>4. \A role \in Role : InOrder(role, Emitted(role))'
    BY <2>3 DEF Emitted, InOrder, Meets, OfCalls
  <2> QED
    BY <2>2, <2>4 DEF Order
<1>7. Kept'
  <2>1. ASSUME NEW role \in Role, NEW j \in 1 .. at' - 1, Asked(role, j)'
        PROVE  Has(role, Emitted(role), j)' /\ Has(role, writer, j)'
    <3>1. j \in 1 .. at /\ Asked(role, j)
      BY <1>1, <2>1 DEF Asked, Concerns, TwoSided, ForAll
    <3>2. Has(role, writer', j)
      BY <3>1 DEF Closes
    <3> DEFINE rest == IF role = "master" THEN master' ELSE worker'
    <3>3. rest \in Seq(LineSet) /\ Emitted(role)' = writer' \o rest
      BY <1>2 DEF Emitted
    <3> HIDE DEF rest
    <3>4. Has(role, Emitted(role)', j)
      BY <1>2, <3>2, <3>3, HasConcat
    <3> QED
      BY <3>2, <3>4 DEF Has, Runs
  <2> QED
    BY <2>1 DEF Kept
<1> QED
  BY <1>3, <1>4, <1>5, <1>6, <1>7 DEF IInv

(* The flushed text, and with a line of this op at its end. *)
LEMMA FlushedClose ==
  ASSUME IInv, at \in 1 .. Len(plan.ops), NEW guard \in {"all", "master"}
  PROVE  LET line == Line(at, "all", guard)
         IN  /\ \A x \in 1 .. Len(Flushed) : OfCalls(Flushed[x]) => Flushed[x].op <= at
             /\ Append(Flushed, line) \in Seq(LineSet)
             /\ \A x \in 1 .. Len(Append(Flushed, line)) :
                  OfCalls(Append(Flushed, line)[x]) => Append(Flushed, line)[x].op <= at
             /\ \A role \in Role : InOrder(role, Append(Flushed, line))
             /\ \A role \in Role : \A j \in 1 .. at :
                  Asked(role, j) /\ (j = at => Runs(role, line)) =>
                    Has(role, Append(Flushed, line), j)
<1> DEFINE line == Line(at, "all", guard)
           text == Append(Flushed, line)
<1>1. /\ Typed /\ at \in Nat
  BY PlanLengths DEF IInv, Typed
<1>2. line \in LineSet /\ line.op = at /\ line.side = "all" /\ line.guard = guard
  BY <1>1, NewLine
<1> HIDE DEF line
<1>3. /\ Flushed \in Seq(LineSet) /\ \A role \in Role : InOrder(role, Flushed)
      /\ \A role \in Role : \A j \in 1 .. at - 1 : Asked(role, j) => Has(role, Flushed, j)
  BY Flush
<1>4. ASSUME NEW x \in 1 .. Len(Flushed), OfCalls(Flushed[x])
      PROVE  Flushed[x].op <= at
  <2>1. Flushed[x].op < at /\ Flushed[x].op \in Nat
    BY <1>3, <1>4, Flush, LineOps DEF Passed
  <2> QED
    BY <1>1, <2>1
<1>5. text \in Seq(LineSet)
  BY <1>2, <1>3, AppendLine
<1>6. ASSUME NEW x \in 1 .. Len(text), OfCalls(text[x])
      PROVE  text[x].op <= at
  <2>1. \/ x \in 1 .. Len(Flushed) /\ text[x] = Flushed[x]
        \/ text[x] = line
    BY <1>2, <1>3, AppendLine
  <2> QED
    BY <1>1, <1>2, <1>4, <1>6, <2>1
<1>7. ASSUME NEW role \in Role
      PROVE  InOrder(role, text)
  <2>1. \A x \in 1 .. Len(Flushed) : Meets(role, Flushed[x]) => Flushed[x].op <= line.op
    BY <1>2, <1>4 DEF Meets
  <2> QED
    BY <1>2, <1>3, <2>1, AddCall
<1>8. ASSUME NEW role \in Role, NEW j \in 1 .. at, Asked(role, j), j = at => Runs(role, line)
      PROVE  Has(role, text, j)
  <2>1. CASE j = at
    BY <1>2, <1>3, <1>8, <2>1, HasAdded
  <2>2. CASE j # at
    <3>1. j \in 1 .. at - 1
      BY <1>1, <2>2
    <3> QED
      BY <1>2, <1>3, <1>8, <3>1, HasKept
  <2> QED
    BY <2>1, <2>2
<1> QED
  BY <1>4, <1>5, <1>6, <1>7, <1>8 DEF line

(* Any other op ends the section, then has its line. *)
LEMMA OtherStep == IInv /\ EmitOther => IInv'
<1> SUFFICES ASSUME IInv, EmitOther PROVE IInv'
  OBVIOUS
<1> DEFINE guard == IF ForAll(at) THEN "all" ELSE "master"
           line == Line(at, "all", guard)
<1>1. /\ phase = "calls" /\ at \in 1 .. Len(plan.ops) /\ ~TwoSided(at)
      /\ writer' = IF Runable(at) THEN Append(Flushed, line) ELSE Flushed
      /\ master' = Left(master) /\ worker' = Left(worker)
      /\ plan' = plan /\ phase' = phase /\ at' = at + 1 /\ hetero' = FALSE /\ ran' = Ran({at})
  BY DEF EmitOther
<1>2. /\ Typed /\ at \in Nat
  BY PlanLengths DEF IInv, Typed
<1>3. guard \in {"all", "master"} /\ line.guard = guard
  BY DEF Line
<1>4. /\ \A x \in 1 .. Len(Flushed) : OfCalls(Flushed[x]) => Flushed[x].op <= at
      /\ Append(Flushed, line) \in Seq(LineSet)
      /\ \A x \in 1 .. Len(Append(Flushed, line)) :
           OfCalls(Append(Flushed, line)[x]) => Append(Flushed, line)[x].op <= at
      /\ \A role \in Role : InOrder(role, Append(Flushed, line))
      /\ \A role \in Role : \A j \in 1 .. at :
           Asked(role, j) /\ (j = at => Runs(role, line)) => Has(role, Append(Flushed, line), j)
  BY <1>1, <1>3, FlushedClose
<1>5. ASSUME NEW role \in Role, NEW j \in 1 .. at, Asked(role, j)
      PROVE  Has(role, writer', j)
  <2>1. CASE j = at
    <3>1. Runable(at)
      BY <1>1, <1>2, <1>5, <2>1, RanOnce DEF Asked
    <3>2. Runs(role, line)
      BY <1>1, <1>3, <1>5, <2>1 DEF Asked, Concerns, Runs
    <3> HIDE DEF line
    <3> QED
      BY <1>1, <1>4, <1>5, <3>1, <3>2
  <2>2. CASE j # at
    <3>1. j \in 1 .. at - 1
      BY <1>2, <2>2
    <3>2. Has(role, Flushed, j)
      BY <1>5, <3>1, Flush
    <3> HIDE DEF line
    <3> QED
      BY <1>1, <1>4, <1>5, <2>2, <3>2
  <2> QED
    BY <2>1, <2>2
<1> HIDE DEF line
<1>6. Closes(writer', master', worker')
  <2>1. CASE Runable(at)
    BY <1>1, <1>4, <1>5, <2>1, Flush DEF Closes
  <2>2. CASE ~Runable(at)
    BY <1>1, <1>4, <1>5, <2>2, Flush DEF Closes
  <2> QED
    BY <2>1, <2>2
<1> QED
  BY <1>1, <1>6, ClosingStep

(* A text followed by lines none of whose calls is another op's than this. *)
LEMMA JoinLast ==
  ASSUME NEW s \in Seq(LineSet), NEW t \in Seq(LineSet), NEW l \in LineSet,
         at \in Nat, l.op = at,
         \A x \in 1 .. Len(s) : OfCalls(s[x]) => s[x].op <= at,
         \A x \in 1 .. Len(t) : ~OfCalls(t[x]),
         \A role \in Role : InOrder(role, s)
  PROVE  /\ s \o Append(t, l) \in Seq(LineSet)
         /\ \A x \in 1 .. Len(s \o Append(t, l)) :
              OfCalls((s \o Append(t, l))[x]) => (s \o Append(t, l))[x].op <= at
         /\ \A role \in Role : InOrder(role, s \o Append(t, l))
<1> DEFINE u == Append(t, l)
<1>1. u \in Seq(LineSet)
  BY AppendLine
<1>2. ASSUME NEW x \in 1 .. Len(u), OfCalls(u[x]) PROVE u[x].op = at
  BY <1>2, AppendLine
<1>3. ASSUME NEW role \in Role PROVE InOrder(role, u)
  <2>1. InOrder(role, t) /\ \A x \in 1 .. Len(t) : Meets(role, t[x]) => t[x].op <= l.op
    BY DEF InOrder, Meets
  <2> QED
    BY <2>1, AddCall
<1> HIDE DEF u
<1>4. s \o u \in Seq(LineSet)
  BY <1>1, Concat
<1>5. ASSUME NEW x \in 1 .. Len(s \o u), OfCalls((s \o u)[x])
      PROVE  (s \o u)[x].op <= at
  <2>1. \/ x \in 1 .. Len(s) /\ (s \o u)[x] = s[x]
        \/ x - Len(s) \in 1 .. Len(u) /\ (s \o u)[x] = u[x - Len(s)]
    BY <1>1, Concat
  <2> QED
    BY <1>2, <1>5, <2>1
<1>6. ASSUME NEW role \in Role PROVE InOrder(role, s \o u)
  <2>1. \A x \in 1 .. Len(s) : \A y \in 1 .. Len(u) :
          Meets(role, s[x]) /\ Meets(role, u[y]) => s[x].op <= u[y].op
    BY <1>2 DEF Meets
  <2> QED
    BY <1>1, <1>3, <2>1, OrderConcat
<1> QED
  BY <1>4, <1>5, <1>6 DEF u

(* A Transform of partial sums: its reduction, then a section of its own. *)
LEMMA SumStep == IInv /\ EmitSumTransform => IInv'
<1> SUFFICES ASSUME IInv, EmitSumTransform PROVE IInv'
  OBVIOUS
<1> DEFINE text == Append(Flushed, Line(at, "all", "all"))
           mLine == Line(at, "master", "master")
           wLine == Line(at, "worker", "worker")
<1>1. /\ phase = "calls" /\ at \in 1 .. Len(plan.ops)
      /\ Runable(at) =>
           /\ writer' = (text \o Append(Left(master), mLine)) \o Append(Left(worker), wLine)
           /\ master' = <<>> /\ worker' = <<>>
      /\ ~Runable(at) =>
           writer' = Flushed /\ master' = Left(master) /\ worker' = Left(worker)
      /\ plan' = plan /\ phase' = phase /\ at' = at + 1 /\ hetero' = FALSE /\ ran' = Ran({at})
  BY DEF EmitSumTransform
<1>2. /\ Typed /\ at \in Nat
  BY PlanLengths DEF IInv, Typed
<1>3. mLine \in LineSet /\ mLine.op = at /\ wLine \in LineSet /\ wLine.op = at
  BY <1>1, <1>2, NewLine
<1>4. \A role \in Role : Runs(role, Line(at, "all", "all"))
  BY DEF Runs, Line
<1>5. /\ \A x \in 1 .. Len(Flushed) : OfCalls(Flushed[x]) => Flushed[x].op <= at
      /\ text \in Seq(LineSet)
      /\ \A x \in 1 .. Len(text) : OfCalls(text[x]) => text[x].op <= at
      /\ \A role \in Role : InOrder(role, text)
      /\ \A role \in Role : \A j \in 1 .. at : Asked(role, j) => Has(role, text, j)
  BY <1>1, <1>4, FlushedClose
<1> HIDE DEF text, mLine, wLine
<1>6. /\ Left(master) \in Seq(LineSet) /\ Left(worker) \in Seq(LineSet)
      /\ \A x \in 1 .. Len(Left(master)) : ~OfCalls(Left(master)[x])
      /\ \A x \in 1 .. Len(Left(worker)) : ~OfCalls(Left(worker)[x])
  BY Flush
<1>7. CASE Runable(at)
  <2> DEFINE two == text \o Append(Left(master), mLine)
  <2>1. /\ two \in Seq(LineSet)
        /\ \A x \in 1 .. Len(two) : OfCalls(two[x]) => two[x].op <= at
        /\ \A role \in Role : InOrder(role, two)
    BY <1>2, <1>3, <1>5, <1>6, JoinLast
  <2>2. ASSUME NEW role \in Role, NEW j \in 1 .. at, Asked(role, j)
        PROVE  Has(role, two, j)
    <3>1. Append(Left(master), mLine) \in Seq(LineSet)
      BY <1>3, <1>6, AppendLine
    <3> QED
      BY <1>5, <2>2, <3>1, HasConcat
  <2> HIDE DEF two
  <2>3. /\ writer' = two \o Append(Left(worker), wLine)
        /\ Append(Left(worker), wLine) \in Seq(LineSet)
    BY <1>1, <1>3, <1>6, <1>7, AppendLine DEF two
  <2>4. /\ writer' \in Seq(LineSet)
        /\ \A x \in 1 .. Len(writer') : OfCalls(writer'[x]) => writer'[x].op <= at
        /\ \A role \in Role : InOrder(role, writer')
    BY <1>2, <1>3, <1>6, <2>1, <2>3, JoinLast
  <2>5. \A role \in Role : \A j \in 1 .. at : Asked(role, j) => Has(role, writer', j)
    BY <2>1, <2>2, <2>3, HasConcat
  <2>6. /\ master' \in Seq(LineSet) /\ worker' \in Seq(LineSet)
        /\ Len(master') = 0 /\ Len(worker') = 0
    BY <1>1, <1>7
  <2>7. Closes(writer', master', worker')
    BY <2>4, <2>5, <2>6 DEF Closes
  <2> QED
    BY <1>1, <2>7, ClosingStep
<1>8. CASE ~Runable(at)
  <2>1. ASSUME NEW role \in Role, NEW j \in 1 .. at, Asked(role, j)
        PROVE  Has(role, Flushed, j)
    <3>1. j # at
      BY <1>1, <1>2, <1>8, <2>1, RanOnce DEF Asked
    <3>2. j \in 1 .. at - 1
      BY <1>2, <3>1
    <3> QED
      BY <2>1, <3>2, Flush
  <2>2. Closes(writer', master', worker')
    BY <1>1, <1>5, <1>6, <1>8, <2>1, Flush DEF Closes
  <2> QED
    BY <1>1, <2>2, ClosingStep
<1> QED
  BY <1>7, <1>8

(* The end of the loop, and steps that change nothing. *)
LEMMA EndStep == IInv /\ EndFuncCalls => IInv'
<1> SUFFICES ASSUME IInv, EndFuncCalls PROVE IInv'
  OBVIOUS
<1>1. /\ phase = "calls" /\ at \notin 1 .. Len(plan.ops) /\ phase' = "emitted"
      /\ plan' = plan /\ at' = at /\ hetero' = hetero /\ writer' = writer
      /\ master' = master /\ worker' = worker /\ ran' = ran
  BY DEF EndFuncCalls, emitVars
<1>2. at = Len(plan.ops) + 1
  BY <1>1, PlanLengths DEF IInv, Typed
<1>3. Typed'
  BY <1>1 DEF IInv, Typed
<1>4. Phases'
  BY <1>1, <1>2 DEF Phases
<1>5. OwnSide' /\ Order'
  <2>1. OwnSide /\ Order
    BY DEF IInv
  <2>2. OwnSide'
    BY <1>1, <2>1 DEF OwnSide, OfCalls
  <2>3. Order'
    <3>1. Passed(writer)' /\ Passed(master)' /\ Passed(worker)'
      BY <1>1, <2>1 DEF Order, Passed, OfCalls
    <3>2. ASSUME NEW role \in Role PROVE InOrder(role, Emitted(role))'
      <4>1. Emitted(role)' = Emitted(role)
        BY <1>1 DEF Emitted
      <4>2. InOrder(role, Emitted(role))
        BY <2>1 DEF Order
      <4> HIDE DEF Emitted
      <4> QED
        BY <1>1, <4>1, <4>2 DEF InOrder, Meets, OfCalls, Runs
    <3> QED
      BY <3>1, <3>2 DEF Order
  <2> QED
    BY <2>2, <2>3
<1>6. Kept'
  BY <1>1 DEF IInv, Kept, Asked, Concerns, TwoSided, ForAll, Has, Runs, Emitted
<1> QED
  BY <1>3, <1>4, <1>5, <1>6 DEF IInv

LEMMA EmitStutter == IInv /\ UNCHANGED emitVars => IInv'
<1> SUFFICES ASSUME IInv, UNCHANGED emitVars PROVE IInv'
  OBVIOUS
<1>0. /\ plan' = plan /\ phase' = phase /\ at' = at /\ hetero' = hetero
      /\ writer' = writer /\ master' = master /\ worker' = worker /\ ran' = ran
  BY DEF emitVars
<1>1. Typed' /\ Phases'
  <2>1. Typed /\ Phases
    BY DEF IInv
  <2> QED
    BY <1>0, <2>1 DEF Typed, Phases
<1>2. OwnSide' /\ Order'
  <2>1. OwnSide /\ Order
    BY DEF IInv
  <2>2. OwnSide'
    BY <1>0, <2>1 DEF OwnSide, OfCalls
  <2>3. Order'
    <3>1. Passed(writer)' /\ Passed(master)' /\ Passed(worker)'
      BY <1>0, <2>1 DEF Order, Passed, OfCalls
    <3>2. ASSUME NEW role \in Role PROVE InOrder(role, Emitted(role))'
      <4>1. Emitted(role)' = Emitted(role)
        BY <1>0 DEF Emitted
      <4>2. InOrder(role, Emitted(role))
        BY <2>1 DEF Order
      <4> HIDE DEF Emitted
      <4> QED
        BY <1>0, <4>1, <4>2 DEF InOrder, Meets, OfCalls, Runs
    <3> QED
      BY <3>1, <3>2 DEF Order
  <2> QED
    BY <2>2, <2>3
<1>3. Kept'
  <2>1. Kept
    BY DEF IInv
  <2> QED
    BY <1>0, <2>1 DEF Kept, Asked, Concerns, TwoSided, ForAll, Has, Runs, Emitted
<1> QED
  BY <1>1, <1>2, <1>3 DEF IInv

-----------------------------------------------------------------------------
(***************************************************************************)
(* The inductive invariant of the emission (emitTensorInitializations and  *)
(* emitFuncCalls) holds for every set of schedules.                        *)
(***************************************************************************)
THEOREM EmissionInvariance == EmitSpec => []IInv
<1>1. EmitInit => IInv
  BY EmitInitIInv
<1>2. IInv /\ [EmitNext]_emitVars => IInv'
  BY InitStep, TwoSidedStep, OtherStep, SumStep, EndStep, EmitStutter DEF EmitNext
<1> QED
  BY <1>1, <1>2, PTL DEF EmitSpec

(* The variables of the generator keep their types. *)
THEOREM EmissionTypes == EmitSpec => []EmitTypeOK
<1>1. IInv => EmitTypeOK
  <2> SUFFICES ASSUME IInv PROVE EmitTypeOK
    OBVIOUS
  <2>1. Typed
    BY DEF IInv
  <2>2. IsPlan(plan)
    BY <2>1, PlanAssumption DEF Typed
  <2>3. Lines = Seq(LineSet)
    BY DEF Lines, LineSet
  <2>4. ran \subseteq 1 .. Len(plan.ops)
    BY <2>1 DEF Typed
  <2> QED
    BY <2>1, <2>2, <2>3, <2>4 DEF Typed, EmitTypeOK
<1> QED
  BY <1>1, EmissionInvariance, PTL

(***************************************************************************)
(* Rank 0 and the other ranks meet the scheduled ops in the same order,    *)
(* whatever the hetero sections collect and when they are written out.     *)
(***************************************************************************)
THEOREM EmissionOrdered == EmitSpec => []ProgramOrder
<1>1. IInv => ProgramOrder
  BY DEF IInv, Order, ProgramOrder, InOrder, Meets
<1> QED
  BY <1>1, EmissionInvariance, PTL

(***************************************************************************)
(* No op's code is lost for a role it concerns: a section's is in the      *)
(* program as soon as another op follows it.                               *)
(***************************************************************************)
THEOREM EmissionComplete == EmitSpec => []NothingLost
<1>1. IInv => NothingLost
  <2> SUFFICES ASSUME IInv, NEW role \in Role, NEW j \in 1 .. at - 1,
                      Concerns(j, role), ~plan.ops[j].once
               PROVE  \E x \in 1 .. Len(IF Closed(j) THEN writer ELSE Emitted(role)) :
                        /\ Emitted(role)[x].op = j
                        /\ Emitted(role)[x].side \in {role, "all"}
                        /\ Runs(role, Emitted(role)[x])
    BY DEF NothingLost
  <2>1. /\ Has(role, Emitted(role), j)
        /\ (\E m \in j .. at - 1 : ~TwoSided(m)) => Has(role, writer, j)
    BY DEF IInv, Kept, Asked
  <2>2. CASE ~Closed(j)
    BY <2>1, <2>2 DEF Has
  <2>3. CASE Closed(j)
    <3>1. Len(plan.ops) = at - 1
      BY <2>3, PlanLengths DEF IInv, Typed, Phases, Closed
    <3>2. Has(role, writer, j)
      BY <2>1, <2>3, <3>1 DEF Closed
    <3>3. PICK x \in 1 .. Len(writer) :
            writer[x].op = j /\ writer[x].side \in {role, "all"} /\ Runs(role, writer[x])
      BY <3>2 DEF Has
    <3>4. Emitted(role)[x] = writer[x]
      BY Concat DEF IInv, Typed, Emitted
    <3> QED
      BY <2>3, <3>3, <3>4
  <2> QED
    BY <2>2, <2>3
<1> QED
  BY <1>1, EmissionInvariance, PTL
================================================================================
