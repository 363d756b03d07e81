------------------------------ MODULE CompilerProofs ------------------------------
(***************************************************************************)
(* Whatever graph or network is compiled, and under whatever options: the  *)
(* memory that Codegen plans for its Tensors is planned once, after the    *)
(* last pass that makes a Tensor, and no two Tensors share a byte of it,   *)
(* while the program is emitted and while it runs.                         *)
(***************************************************************************)
EXTENDS Compiler, SequenceTheorems, TLAPS

(* Every compilation of every graph, and of every network with nodes of the user's. *)
CompilerInit == \E h, udef, files, c : Start(h, udef, files, c)

CompilerSpec == CompilerInit /\ [][CompilerNext]_compilerVars

-----------------------------------------------------------------------------
(***************************************************************************)
(* The inductive invariant.  The last three entries of the plan are those  *)
(* of genCode, which occur nowhere else; until they are all that is left   *)
(* nothing has a place, and from then on no other pass runs.               *)
(***************************************************************************)
Passes ==
  {"import", "autodiff", "refresh", "label", "lower", "rename", "eliminate", "outmark",
   "layout", "elimtranspose"}

Generating == {"allocate", "emit", "run"}

(* The i-th entry of s is p where and only where k follow it. *)
Lies(s, p, k) == \A i \in 1 .. Len(s) : s[i] = p <=> i = Len(s) - k

Queue(s) ==
  /\ s \in Seq(Passes \cup Generating)
  /\ Lies(s, "allocate", 2) /\ Lies(s, "emit", 1) /\ Lies(s, "run", 0)

PlanInv ==
  /\ Queue(plan)
  /\ pass \in Generating => Len(plan) < 3
  /\ Len(plan) < 3 => pass \in Generating \cup {"none"}
  /\ pass = "allocate" => Len(plan) = 2
  /\ Len(plan) >= 3 => addr = <<>> /\ allocated = 0

MemoryInv ==
  Sized => Disjoint /\ allocated \in Nat /\ \A t \in DOMAIN addr : addr[t] \in Nat

CompilerInv == PlanInv /\ MemoryInv

-----------------------------------------------------------------------------
(***************************************************************************)
(* The plan.  No list of passes that Engine::compile can make holds a step *)
(* of genCode.                                                             *)
(***************************************************************************)
LEMMA PassNames ==
  /\ "import" \in Passes /\ "autodiff" \in Passes /\ "refresh" \in Passes /\ "label" \in Passes
  /\ "lower" \in Passes /\ "rename" \in Passes /\ "eliminate" \in Passes /\ "outmark" \in Passes
  /\ "layout" \in Passes /\ "elimtranspose" \in Passes
BY DEF Passes

LEMMA NamesApart == Passes \cap Generating = {} /\ "none" \notin Passes \cup Generating
BY DEF Passes, Generating

LEMMA PassLists ==
  ASSUME NEW c, NEW files
  PROVE  (IF files = NoNet THEN <<>> ELSE <<"import">>) \o <<"refresh">> \o compile(c) \in Seq(Passes)
<1>1. runInferPasses \in Seq(Passes)
  BY PassNames DEF runInferPasses
<1>2. runTrainPasses \in Seq(Passes)
  BY PassNames DEF runTrainPasses
<1>3. transformForMKLDNN \in Seq(Passes) /\ optimize \in Seq(Passes) /\ <<>> \in Seq(Passes)
  BY PassNames DEF transformForMKLDNN, optimize
<1>4. <<"import">> \in Seq(Passes) /\ <<"refresh">> \in Seq(Passes)
  BY PassNames
<1>5. transformForMKLDNN \o optimize \in Seq(Passes)
  BY <1>3, ConcatProperties
<1>6. (IF c.train THEN runTrainPasses ELSE runInferPasses) \in Seq(Passes)
  BY <1>1, <1>2
<1>7. (IF c.mkldnn THEN transformForMKLDNN \o optimize ELSE <<>>) \in Seq(Passes)
  BY <1>3, <1>5
<1>8. compile(c) \in Seq(Passes)
  BY <1>6, <1>7, ConcatProperties DEF compile
<1>9. (IF files = NoNet THEN <<>> ELSE <<"import">>) \in Seq(Passes)
  BY <1>3, <1>4
<1>10. (IF files = NoNet THEN <<>> ELSE <<"import">>) \o <<"refresh">> \in Seq(Passes)
  BY <1>4, <1>9, ConcatProperties
<1> QED BY <1>8, <1>10, ConcatProperties

LEMMA GenCode ==
  /\ genCode \in Seq(Passes \cup Generating) /\ Len(genCode) = 3
  /\ genCode[1] = "allocate" /\ genCode[2] = "emit" /\ genCode[3] = "run"
<1>1. "allocate" \in Passes \cup Generating /\ "emit" \in Passes \cup Generating
      /\ "run" \in Passes \cup Generating
  BY DEF Generating
<1>2. genCode \in Seq(Passes \cup Generating)
  BY <1>1 DEF genCode
<1>3. Len(genCode) = 3 /\ genCode[1] = "allocate" /\ genCode[2] = "emit" /\ genCode[3] = "run"
  BY DEF genCode
<1> QED BY <1>2, <1>3

(* Any passes before genCode. *)
LEMMA QueueMade ==
  ASSUME NEW s \in Seq(Passes)
  PROVE  Queue(s \o genCode) /\ Len(s \o genCode) >= 3
<1> DEFINE p == s \o genCode
           All == Passes \cup Generating
<1>1. s \in Seq(All) /\ Len(s) \in Nat
  OBVIOUS
<1>2. /\ p \in Seq(All) /\ Len(p) = Len(s) + 3
      /\ \A i \in 1 .. Len(s) + 3 : p[i] = IF i <= Len(s) THEN s[i] ELSE genCode[i - Len(s)]
  <2> HIDE DEF All
  <2>1. genCode \in Seq(All) /\ Len(genCode) = 3
    BY GenCode DEF All
  <2>2. /\ p \in Seq(All) /\ Len(p) = Len(s) + Len(genCode)
        /\ \A i \in 1 .. Len(s) + Len(genCode) :
             p[i] = IF i <= Len(s) THEN s[i] ELSE genCode[i - Len(s)]
    BY <1>1, <2>1, ConcatProperties
  <2> HIDE DEF p
  <2> QED BY <2>1, <2>2
<1>3. \A i \in 1 .. Len(s) : p[i] \in Passes
  BY <1>1, <1>2
<1>4. /\ Len(s) + 1 \in 1 .. Len(s) + 3 /\ Len(s) + 2 \in 1 .. Len(s) + 3 /\ Len(s) + 3 \in 1 .. Len(s) + 3
      /\ (Len(s) + 1) - Len(s) = 1 /\ (Len(s) + 2) - Len(s) = 2 /\ (Len(s) + 3) - Len(s) = 3
  BY <1>1
<1>5. p[Len(s) + 1] = "allocate" /\ p[Len(s) + 2] = "emit" /\ p[Len(s) + 3] = "run"
  BY <1>1, <1>2, <1>4, GenCode
<1> HIDE DEF p, All
<1>6. \A i \in 1 .. Len(s) : p[i] # "allocate" /\ p[i] # "emit" /\ p[i] # "run"
  BY <1>3, NamesApart DEF Generating
<1>7. \A i \in 1 .. Len(p) : i \in 1 .. Len(s) \/ i = Len(s) + 1 \/ i = Len(s) + 2 \/ i = Len(s) + 3
  BY <1>1, <1>2
<1>8. Lies(p, "allocate", 2)
  BY <1>1, <1>2, <1>5, <1>6, <1>7 DEF Lies
<1>9. Lies(p, "emit", 1)
  BY <1>1, <1>2, <1>5, <1>6, <1>7 DEF Lies
<1>10. Lies(p, "run", 0)
  BY <1>1, <1>2, <1>5, <1>6, <1>7 DEF Lies
<1>11. Queue(p) /\ Len(p) >= 3
  BY <1>1, <1>2, <1>8, <1>9, <1>10 DEF Queue, All
<1> QED BY <1>11 DEF p

LEMMA InvBegins == CompilerInit => CompilerInv
<1> SUFFICES ASSUME NEW h, NEW udef, NEW files, NEW c, Start(h, udef, files, c)
             PROVE  CompilerInv
  BY DEF CompilerInit
<1> DEFINE s == (IF files = NoNet THEN <<>> ELSE <<"import">>) \o <<"refresh">> \o compile(c)
<1>1. s \in Seq(Passes)
  BY PassLists
<1>2. plan = s \o genCode
  BY DEF Start
<1> HIDE DEF s
<1>3. Queue(plan) /\ Len(plan) >= 3
  BY <1>1, <1>2, QueueMade
<1>4. pass = "none" /\ addr = <<>> /\ allocated = 0
  BY DEF Start
<1>5. Len(plan) \in Nat
  BY <1>3 DEF Queue
<1>6. PlanInv
  BY <1>3, <1>4, <1>5, NamesApart DEF PlanInv, Generating
<1>7. MemoryInv
  BY <1>4 DEF MemoryInv, Disjoint
<1> QED BY <1>6, <1>7 DEF CompilerInv

(* Without its first entry the queue ends as before. *)
LEMMA Popped ==
  ASSUME NEW q, Queue(q), q # <<>>
  PROVE  Queue(Tail(q)) /\ Len(Tail(q)) = Len(q) - 1 /\ Len(q) \in Nat \ {0}
<1> DEFINE t == Tail(q)
<1>1. q \in Seq(Passes \cup Generating) /\ Len(q) \in Nat /\ Len(q) > 0
  BY EmptySeq DEF Queue
<1>2. /\ t \in Seq(Passes \cup Generating) /\ Len(t) = Len(q) - 1
      /\ \A i \in 1 .. Len(t) : t[i] = q[i + 1]
  BY <1>1, HeadTailProperties
<1> HIDE DEF t
<1>3. \A i \in 1 .. Len(t) : i + 1 \in 1 .. Len(q)
  BY <1>1, <1>2
<1>4. ASSUME NEW p, NEW k \in Nat, Lies(q, p, k) PROVE Lies(t, p, k)
  BY <1>1, <1>2, <1>3, <1>4 DEF Lies
<1>5. Queue(t)
  BY <1>2, <1>4 DEF Queue
<1> QED BY <1>1, <1>2, <1>5 DEF t

(* The first entry tells how long the plan still is. *)
LEMMA DueLength ==
  ASSUME PlanInv, NEW p, Due(p)
  PROVE  /\ plan # <<>> /\ pass = "none" /\ Len(plan) \in Nat
         /\ p = "allocate" => Len(plan) = 3
         /\ p = "emit" => Len(plan) = 2
         /\ p = "run" => Len(plan) = 1
         /\ p \in Passes => Len(plan) > 3
<1>1. plan \in Seq(Passes \cup Generating) /\ Len(plan) \in Nat /\ Len(plan) > 0 /\ plan[1] = p
  BY EmptySeq, HeadTailProperties DEF PlanInv, Due, Queue
<1>2. 1 \in 1 .. Len(plan)
  BY <1>1
<1>3. plan[1] = "allocate" <=> 1 = Len(plan) - 2
  BY <1>2 DEF PlanInv, Queue, Lies
<1>4. plan[1] = "emit" <=> 1 = Len(plan) - 1
  BY <1>2 DEF PlanInv, Queue, Lies
<1>5. plan[1] = "run" <=> 1 = Len(plan) - 0
  BY <1>2 DEF PlanInv, Queue, Lies
<1>6. p \in Passes => p # "allocate" /\ p # "emit" /\ p # "run"
  BY NamesApart DEF Generating
<1>7. plan # <<>> /\ pass = "none"
  BY DEF Due
<1>8. p \in Passes => Len(plan) > 3
  <2>1. p \in Passes => Len(plan) # 1 /\ Len(plan) # 2 /\ Len(plan) # 3
    BY <1>1, <1>3, <1>4, <1>5, <1>6
  <2>2. \A n \in Nat : n > 0 /\ n # 1 /\ n # 2 /\ n # 3 => n > 3
    OBVIOUS
  <2> QED BY <1>1, <2>1, <2>2
<1>9. p = "allocate" => Len(plan) = 3
  BY <1>1, <1>3
<1>10. p = "emit" => Len(plan) = 2
  BY <1>1, <1>4
<1>11. p = "run" => Len(plan) = 1
  BY <1>1, <1>5
<1> QED BY <1>1, <1>7, <1>8, <1>9, <1>10, <1>11

-----------------------------------------------------------------------------
(***************************************************************************)
(* The steps of the passes before genCode: each starts a pass, goes on     *)
(* with it or ends it, and gives nothing a place.                          *)
(***************************************************************************)
PassStep(p) ==
  /\ UNCHANGED planVars
  /\ \/ Due(p) /\ plan' \in {plan, Tail(plan)} /\ pass' \in {p, "none"}
     \/ pass = p /\ plan' = plan /\ pass' \in {p, "none"}

LEMMA ImportSteps == Import => PassStep("import")
<1> SUFFICES ASSUME Import PROVE PassStep("import")
  OBVIOUS
<1>1. ImportNext /\ UNCHANGED planVars
  BY DEF Import
<1>2. CASE loadTensor \/ loadConv \/ loadBatchNorm \/ loadRelu \/ loadSum \/ loadPool \/ loadFC
           \/ loadSoftmax \/ loadDropout
  <2>1. Loading
    BY <1>2 DEF loadTensor, loadConv, loadBatchNorm, loadRelu, loadSum, loadPool, loadFC,
       loadSoftmax, loadDropout, NextOp
  <2> QED BY <1>1, <2>1 DEF Loading, PassStep, Due
<1>3. CASE Unsupported
  BY <1>1, <1>3 DEF Unsupported, Fail, PassStep, Due
<1>4. CASE EndImport
  BY <1>1, <1>4 DEF EndImport, PassStep, Due
<1> QED BY <1>1, <1>2, <1>3, <1>4 DEF ImportNext

LEMMA AutodiffSteps == Differentiate => PassStep("autodiff")
<1> SUFFICES ASSUME Differentiate PROVE PassStep("autodiff")
  OBVIOUS
<1>1. AutodiffNext /\ UNCHANGED planVars
  BY DEF Differentiate
<1>2. CASE StartAutodiff
  BY <1>1, <1>2 DEF StartAutodiff, Enter, PassStep
<1>3. ASSUME NEW n, \/ DiffOp(n) \/ GradUnfound(n) \/ PassOp(n) \/ MakeSgd(n) \/ EndPoint(n) \/ PassTensor(n)
      PROVE  PassStep("autodiff")
  <2>1. At("autodiff", n) /\ (NextNode \/ Fail)
    BY <1>3 DEF DiffOp, GradUnfound, PassOp, MakeSgd, EndPoint, PassTensor
  <2> QED BY <1>1, <2>1 DEF At, NextNode, Fail, PassStep
<1>4. CASE EndAutodiff
  BY <1>1, <1>4 DEF EndAutodiff, Leave, PassStep
<1> QED BY <1>1, <1>2, <1>3, <1>4 DEF AutodiffNext

LEMMA TransformSteps == Transform => \E p \in Passes : PassStep(p)
<1> SUFFICES ASSUME Transform PROVE \E p \in Passes : PassStep(p)
  OBVIOUS
<1> USE PassNames
<1>1. GraphPassesNext /\ UNCHANGED planVars
  BY DEF Transform
<1>2. CASE LabelingPass \/ FindInOut \/ SetOutMark
  <2>1. PICK p \in Passes : Due(p) /\ Pop
    BY <1>2 DEF LabelingPass, FindInOut, SetOutMark
  <2> QED BY <1>1, <2>1 DEF Pop, Due, PassStep
<1>3. CASE StartLowering \/ StartRenaming \/ StartElimination \/ StartElimTranspose
  <2>1. PICK p \in Passes : Due(p) /\ plan' = Tail(plan) /\ pass' = p
    BY <1>3 DEF StartLowering, StartRenaming, StartElimination, StartElimTranspose, Enter
  <2> QED BY <1>1, <2>1 DEF PassStep
<1>4. CASE EndLowering \/ EndRenaming \/ EndElimination \/ EndElimTranspose
  <2>1. PICK p \in Passes : Leave(p)
    BY <1>4 DEF EndLowering, EndRenaming, EndElimination, EndElimTranspose
  <2> QED BY <1>1, <2>1 DEF Leave, PassStep
<1>5. ASSUME NEW n, \/ LowerOp(n) \/ KeepOp(n) \/ RenameNode(n)
                    \/ EliminateNode(n) \/ KeepNode(n) \/ ElimTranspose(n)
      PROVE  \E p \in Passes : PassStep(p)
  <2>1. PICK p \in Passes : At(p, n) /\ NextNode
    BY <1>5 DEF LowerOp, KeepOp, RenameNode, EliminateNode, KeepNode, ElimTranspose
  <2> QED BY <1>1, <2>1 DEF At, NextNode, PassStep
<1> QED BY <1>1, <1>2, <1>3, <1>4, <1>5 DEF GraphPassesNext

LEMMA LayoutSteps == ChangeLayout => PassStep("layout")
<1> SUFFICES ASSUME ChangeLayout PROVE PassStep("layout")
  OBVIOUS
<1>1. LayoutNext /\ UNCHANGED planVars
  BY DEF ChangeLayout
<1>2. CASE StartLayout
  BY <1>1, <1>2 DEF StartLayout, Enter, PassStep
<1>3. ASSUME NEW op, TransformOp(op) PROVE PassStep("layout")
  BY <1>1, <1>3 DEF TransformOp, At, PassStep
<1>4. CASE EndLayout
  BY <1>1, <1>4 DEF EndLayout, Leave, PassStep
<1> QED BY <1>1, <1>2, <1>3, <1>4 DEF LayoutNext

(* They run while the plan still ends in genCode, and leave it so. *)
LEMMA PassesKeep ==
  ASSUME CompilerInv, NEW p \in Passes, PassStep(p)
  PROVE  CompilerInv'
<1>1. addr' = addr /\ allocated' = allocated
  BY DEF PassStep, planVars
<1>2. p \notin Generating /\ p # "none" /\ "none" \notin Generating /\ "allocate" \in Generating
  BY NamesApart DEF Generating
<1>3. Queue(plan) /\ Len(plan) \in Nat
  BY DEF CompilerInv, PlanInv, Queue
<1>4. Queue(plan') /\ Len(plan') \in Nat /\ Len(plan') >= 3 /\ Len(plan) >= 3
  <2>1. CASE Due(p) /\ plan' \in {plan, Tail(plan)}
    <3>1. Len(plan) > 3 /\ plan # <<>>
      BY <2>1, DueLength DEF CompilerInv
    <3>2. Queue(Tail(plan)) /\ Len(Tail(plan)) = Len(plan) - 1
      BY <1>3, <3>1, Popped
    <3>3. Len(plan) >= 3 /\ Len(plan) - 1 >= 3 /\ Len(plan) - 1 \in Nat
      BY <1>3, <3>1
    <3>4. CASE plan' = plan
      BY <1>3, <3>3, <3>4
    <3>5. CASE plan' = Tail(plan)
      BY <3>2, <3>3, <3>5
    <3> QED BY <2>1, <3>4, <3>5
  <2>2. CASE pass = p /\ plan' = plan
    <3>1. Len(plan) >= 3
      BY <1>2, <1>3, <2>2 DEF CompilerInv, PlanInv
    <3> QED BY <1>3, <2>2, <3>1
  <2> QED BY <2>1, <2>2 DEF PassStep
<1>5. pass' \notin Generating
  BY <1>2 DEF PassStep
<1>6. addr = <<>> /\ allocated = 0
  BY <1>4 DEF CompilerInv, PlanInv
<1>7. PlanInv'
  BY <1>1, <1>2, <1>4, <1>5, <1>6 DEF PlanInv
<1>8. MemoryInv'
  BY <1>1, <1>6 DEF MemoryInv, Disjoint
<1> QED BY <1>7, <1>8 DEF CompilerInv

-----------------------------------------------------------------------------
(* A step of genCode that gives nothing a place and changes no size. *)
LEMMA PlacesKept ==
  ASSUME MemoryInv, UNCHANGED planVars,
         Sized' => Sized /\ \A t \in DOMAIN addr : Bytes(t)' = Bytes(t)
  PROVE  MemoryInv'
<1>1. addr' = addr /\ allocated' = allocated
  BY DEF planVars
<1> SUFFICES ASSUME Sized' PROVE (Disjoint /\ allocated \in Nat /\ \A t \in DOMAIN addr : addr[t] \in Nat)'
  BY DEF MemoryInv
<1>2. Disjoint /\ allocated \in Nat /\ \A t \in DOMAIN addr : addr[t] \in Nat
  BY DEF MemoryInv
<1>3. \A t \in DOMAIN addr : Bytes(t)' = Bytes(t)
  OBVIOUS
<1>4. ASSUME NEW t \in DOMAIN addr
      PROVE  /\ addr[t] + Bytes(t)' <= allocated
             /\ \A u \in DOMAIN addr \ {t} : addr[t] + Bytes(t)' <= addr[u] \/ addr[u] + Bytes(u)' <= addr[t]
  <2>1. Bytes(t)' = Bytes(t)
    BY <1>3
  <2>2. /\ addr[t] + Bytes(t) <= allocated
        /\ \A u \in DOMAIN addr \ {t} : addr[t] + Bytes(t) <= addr[u] \/ addr[u] + Bytes(u) <= addr[t]
    BY <1>2 DEF Disjoint
  <2>3. ASSUME NEW u \in DOMAIN addr \ {t}
        PROVE  addr[t] + Bytes(t)' <= addr[u] \/ addr[u] + Bytes(u)' <= addr[t]
    <3>1. Bytes(u)' = Bytes(u)
      BY <1>3
    <3> QED BY <2>1, <2>2, <3>1
  <2> QED BY <2>1, <2>2, <2>3
<1> QED BY <1>1, <1>2, <1>4 DEF Disjoint

(* The same graph. *)
LEMMA SizesKept ==
  ASSUME UNCHANGED <<g, addr>>
  PROVE  Sized' => Sized /\ \A t \in DOMAIN addr : Bytes(t)' = Bytes(t)
BY DEF Sized, Bytes

(* A Tensor gets the place after all others. *)
LEMMA PlaceGiven ==
  ASSUME MemoryInv, NEW t, t \notin DOMAIN addr, allocate(t), g' = g
  PROVE  MemoryInv'
<1>1. /\ DOMAIN addr' = DOMAIN addr \cup {t} /\ addr'[t] = allocated
      /\ \A u \in DOMAIN addr : addr'[u] = addr[u]
  BY DEF allocate
<1>2. allocated' = allocated + Bytes(t)
  BY DEF allocate
<1>3. \A u : Bytes(u)' = Bytes(u)
  BY DEF Bytes
<1> SUFFICES ASSUME Sized' PROVE (Disjoint /\ allocated \in Nat /\ \A u \in DOMAIN addr : addr[u] \in Nat)'
  BY DEF MemoryInv
<1>4. Sized /\ \A u \in DOMAIN addr \cup {t} : Bytes(u) \in Nat
  BY <1>1 DEF Sized, Bytes
<1>5. /\ allocated \in Nat /\ \A u \in DOMAIN addr : addr[u] \in Nat
      /\ \A u \in DOMAIN addr : addr[u] + Bytes(u) <= allocated
  BY <1>4 DEF MemoryInv, Disjoint
<1>6. allocated' \in Nat /\ allocated <= allocated'
  BY <1>2, <1>4, <1>5
<1>7. \A u \in DOMAIN addr' : addr'[u] \in Nat
  BY <1>1, <1>5
<1>8. ASSUME NEW u \in DOMAIN addr' PROVE addr'[u] + Bytes(u) <= allocated'
  <2>1. CASE u = t
    BY <1>1, <1>2, <1>4, <1>5, <2>1
  <2>2. CASE u \in DOMAIN addr
    <3>1. addr[u] \in Nat /\ Bytes(u) \in Nat /\ addr[u] + Bytes(u) <= allocated
      BY <1>4, <1>5, <2>2
    <3> QED BY <1>1, <1>5, <1>6, <2>2, <3>1
  <2> QED BY <1>1, <2>1, <2>2
<1>9. ASSUME NEW u \in DOMAIN addr', NEW v \in DOMAIN addr' \ {u}
      PROVE  addr'[u] + Bytes(u) <= addr'[v] \/ addr'[v] + Bytes(v) <= addr'[u]
  <2>1. CASE u = t
    <3>1. v \in DOMAIN addr /\ addr'[v] = addr[v] /\ addr'[u] = allocated
      BY <1>1, <2>1
    <3> QED BY <1>5, <3>1
  <2>2. CASE v = t
    <3>1. u \in DOMAIN addr /\ addr'[u] = addr[u] /\ addr'[v] = allocated
      BY <1>1, <2>2
    <3> QED BY <1>5, <3>1
  <2>3. CASE u # t /\ v # t
    <3>1. u \in DOMAIN addr /\ v \in DOMAIN addr \ {u} /\ addr'[u] = addr[u] /\ addr'[v] = addr[v]
      BY <1>1, <2>3
    <3> QED BY <1>4, <3>1 DEF MemoryInv, Disjoint
  <2> QED BY <2>1, <2>2, <2>3
<1>10. Disjoint'
  BY <1>3, <1>8, <1>9 DEF Disjoint
<1> QED BY <1>6, <1>7, <1>10

(* Emission changes the layout of a Tensor and not its size. *)
LEMMA Relaid ==
  ASSUME NEW x, g' = [g EXCEPT !.tensor[x].layout = "cn"], addr' = addr
  PROVE  Sized' => Sized /\ \A t \in DOMAIN addr : Bytes(t)' = Bytes(t)
<1> SUFFICES ASSUME Sized' PROVE Sized /\ \A t \in DOMAIN addr : Bytes(t)' = Bytes(t)
  OBVIOUS
<1>1. DOMAIN g' = DOMAIN g /\ "tensor" \in DOMAIN g
  BY DEF Sized
<1>2. g'.tensor = [g.tensor EXCEPT ![x].layout = "cn"]
  BY <1>1
<1>3. /\ DOMAIN g'.tensor = DOMAIN g.tensor
      /\ \A t \in DOMAIN g.tensor :
           g'.tensor[t] = IF t = x THEN [g.tensor[t] EXCEPT !.layout = "cn"] ELSE g.tensor[t]
  BY <1>2
<1>4. ASSUME NEW t \in DOMAIN addr
      PROVE  /\ t \in DOMAIN g.tensor /\ "nd" \in DOMAIN g.tensor[t]
             /\ g'.tensor[t].nd = g.tensor[t].nd /\ g'.tensor[t].nd \in Nat
  <2>1. t \in DOMAIN g'.tensor /\ "nd" \in DOMAIN g'.tensor[t] /\ g'.tensor[t].nd \in Nat
    BY DEF Sized
  <2>2. t \in DOMAIN g.tensor
    BY <1>3, <2>1
  <2>3. CASE t = x
    <3>1. g'.tensor[t] = [g.tensor[t] EXCEPT !.layout = "cn"]
      BY <1>3, <2>2, <2>3
    <3>2. DOMAIN g'.tensor[t] = DOMAIN g.tensor[t]
      BY <3>1
    <3>3. "nd" # "layout"
      OBVIOUS
    <3>4. g'.tensor[t].nd = g.tensor[t].nd
      BY <2>1, <3>1, <3>2, <3>3
    <3> QED BY <2>1, <2>2, <3>2, <3>4
  <2>4. CASE t # x
    BY <1>3, <2>1, <2>2, <2>4
  <2> QED BY <2>3, <2>4
<1> QED BY <1>1, <1>4 DEF Sized, Bytes

-----------------------------------------------------------------------------
(* The steps of genCode.  The plan gets shorter, or the step is in a loop. *)
LEMMA Begun ==
  ASSUME PlanInv, NEW p \in Generating, Due(p), Enter(p, todo')
  PROVE  PlanInv'
<1>1. Queue(plan') /\ Len(plan') = Len(plan) - 1 /\ Len(plan) \in Nat
  BY DueLength, Popped DEF Enter, PlanInv
<1>2. /\ p = "allocate" => Len(plan') = 2
      /\ p = "emit" => Len(plan') = 1
      /\ p = "run" => Len(plan') = 0
  <2>1. /\ p = "allocate" => Len(plan) = 3
        /\ p = "emit" => Len(plan) = 2
        /\ p = "run" => Len(plan) = 1
    BY DueLength
  <2>2. 3 - 1 = 2 /\ 2 - 1 = 1 /\ 1 - 1 = 0
    OBVIOUS
  <2> QED BY <1>1, <2>1, <2>2
<1>3. Len(plan') \in {0, 1, 2}
  BY <1>2 DEF Generating
<1>4. Len(plan') < 3 /\ ~(Len(plan') >= 3)
  <2>1. \A n \in {0, 1, 2} : n < 3 /\ ~(n >= 3)
    OBVIOUS
  <2> QED BY <1>3, <2>1
<1>5. pass' = p
  BY DEF Enter
<1> QED BY <1>1, <1>2, <1>4, <1>5 DEF PlanInv

LEMMA GoneOn ==
  ASSUME PlanInv, pass \in Generating, plan' = plan, pass' \in {pass, "none"}
  PROVE  PlanInv'
<1>1. Queue(plan') /\ Len(plan') < 3 /\ Len(plan) \in Nat
  BY DEF PlanInv, Queue
<1>2. ~(Len(plan') >= 3)
  BY <1>1
<1>3. "none" \notin Generating /\ "none" # "allocate"
  BY DEF Generating
<1> QED BY <1>1, <1>2, <1>3 DEF PlanInv

LEMMA AllocateKeeps == ASSUME CompilerInv, Allocate PROVE CompilerInv'
<1>1. MemoryPlanNext /\ PlanInv /\ MemoryInv
  BY DEF Allocate, CompilerInv
<1>2. "allocate" \in Generating
  BY DEF Generating
<1>3. CASE StartAllocate
  <2>1. PlanInv'
    BY <1>1, <1>2, <1>3, Begun DEF StartAllocate, Enter
  <2>2. MemoryInv'
    BY <1>3 DEF StartAllocate, MemoryInv, Disjoint
  <2> QED BY <2>1, <2>2 DEF CompilerInv
<1>4. ASSUME NEW n, AllocateTensor(n) PROVE CompilerInv'
  <2>1. PlanInv'
    BY <1>1, <1>2, <1>4, GoneOn DEF AllocateTensor, At, NextNode
  <2>2. MemoryInv'
    BY <1>1, <1>4, PlaceGiven DEF AllocateTensor
  <2> QED BY <2>1, <2>2 DEF CompilerInv
<1>5. ASSUME NEW n, SkipTensor(n) PROVE CompilerInv'
  <2>1. PlanInv'
    BY <1>1, <1>2, <1>5, GoneOn DEF SkipTensor, At, NextNode
  <2>2. MemoryInv'
    BY <1>1, <1>5, SizesKept, PlacesKept DEF SkipTensor, planVars
  <2> QED BY <2>1, <2>2 DEF CompilerInv
<1>6. CASE EndAllocate
  <2>1. PlanInv'
    BY <1>1, <1>2, <1>6, GoneOn DEF EndAllocate, Leave
  <2>2. MemoryInv'
    BY <1>1, <1>6, SizesKept, PlacesKept DEF EndAllocate, planVars
  <2> QED BY <2>1, <2>2 DEF CompilerInv
<1> QED BY <1>1, <1>3, <1>4, <1>5, <1>6 DEF MemoryPlanNext

LEMMA EmitKeeps == ASSUME CompilerInv, Emit PROVE CompilerInv'
<1>1. EmissionNext /\ PlanInv /\ MemoryInv /\ UNCHANGED planVars /\ addr' = addr
  BY DEF Emit, CompilerInv, planVars
<1>2. "emit" \in Generating
  BY DEF Generating
<1>3. CASE StartEmit
  <2>1. PlanInv'
    BY <1>1, <1>2, <1>3, Begun DEF StartEmit, Enter
  <2>2. MemoryInv'
    BY <1>1, <1>3, SizesKept, PlacesKept DEF StartEmit
  <2> QED BY <2>1, <2>2 DEF CompilerInv
<1>4. ASSUME NEW op, dispatchOpNode(op) PROVE CompilerInv'
  <2>1. PlanInv'
    BY <1>1, <1>2, <1>4, GoneOn DEF dispatchOpNode, At, NextNode
  <2>2. Sized' => Sized /\ \A t \in DOMAIN addr : Bytes(t)' = Bytes(t)
    <3>1. CASE g' = g
      BY <1>1, <3>1, SizesKept
    <3>2. CASE g' = [g EXCEPT !.tensor[In(op, 1)].layout = "cn"]
      BY <1>1, <3>2, Relaid
    <3> QED BY <1>4, <3>1, <3>2 DEF dispatchOpNode
  <2>3. MemoryInv'
    BY <1>1, <2>2, PlacesKept
  <2> QED BY <2>1, <2>3 DEF CompilerInv
<1>5. CASE EndEmit
  <2>1. PlanInv'
    BY <1>1, <1>2, <1>5, GoneOn DEF EndEmit, Leave
  <2>2. MemoryInv'
    BY <1>1, <1>5, SizesKept, PlacesKept DEF EndEmit
  <2> QED BY <2>1, <2>2 DEF CompilerInv
<1> QED BY <1>1, <1>3, <1>4, <1>5 DEF EmissionNext

LEMMA RunKeeps == ASSUME CompilerInv, Run PROVE CompilerInv'
<1>1. SerialProgramNext /\ PlanInv /\ MemoryInv /\ UNCHANGED planVars /\ addr' = addr
  BY DEF Run, CompilerInv, planVars
<1>2. "run" \in Generating
  BY DEF Generating
<1>3. PlanInv' /\ g' = g
  <2>1. CASE StartRun
    BY <1>1, <1>2, <2>1, Begun DEF StartRun, Enter
  <2>2. ASSUME NEW c, Alias(c) \/ Execute(c) PROVE PlanInv' /\ g' = g
    BY <1>1, <1>2, <2>2, GoneOn DEF Alias, Execute, Reached, passVars
  <2>3. CASE EndRun
    BY <1>1, <1>2, <2>3, GoneOn DEF EndRun, Leave
  <2> QED BY <1>1, <2>1, <2>2, <2>3 DEF SerialProgramNext
<1>4. MemoryInv'
  BY <1>1, <1>3, SizesKept, PlacesKept
<1> QED BY <1>3, <1>4 DEF CompilerInv

LEMMA CompilerStep == CompilerInv /\ [CompilerNext]_compilerVars => CompilerInv'
<1> SUFFICES ASSUME CompilerInv, [CompilerNext]_compilerVars PROVE CompilerInv'
  OBVIOUS
<1> USE PassNames
<1>1. CASE Import
  BY <1>1, ImportSteps, PassesKeep
<1>2. CASE Differentiate
  BY <1>2, AutodiffSteps, PassesKeep
<1>3. CASE Transform
  BY <1>3, TransformSteps, PassesKeep
<1>4. CASE ChangeLayout
  BY <1>4, LayoutSteps, PassesKeep
<1>5. CASE Allocate
  BY <1>5, AllocateKeeps
<1>6. CASE Emit
  BY <1>6, EmitKeeps
<1>7. CASE Run
  BY <1>7, RunKeeps
<1>8. CASE UNCHANGED compilerVars
  <2>1. plan' = plan /\ pass' = pass /\ addr' = addr /\ allocated' = allocated /\ g' = g
    BY <1>8 DEF compilerVars, passVars, planVars
  <2>2. PlanInv'
    BY <2>1 DEF CompilerInv, PlanInv
  <2>3. MemoryInv'
    BY <2>1, SizesKept, PlacesKept DEF CompilerInv, planVars
  <2> QED BY <2>2, <2>3 DEF CompilerInv
<1> QED BY <1>1, <1>2, <1>3, <1>4, <1>5, <1>6, <1>7, <1>8 DEF CompilerNext, Stop

-----------------------------------------------------------------------------
(***************************************************************************)
(* Engine::compile queues the steps of genCode after all its passes, and   *)
(* nothing is planned before: the invariant holds in every compilation.    *)
(***************************************************************************)
THEOREM CompilerInvariant == CompilerSpec => []CompilerInv
<1> QED BY InvBegins, CompilerStep, PTL DEF CompilerSpec

(***************************************************************************)
(* Codegen::allocateMemAddr: whatever is compiled, the buffers of two      *)
(* Tensors never overlap and all lie in the block that is allocated, from  *)
(* the first allocation to the end of the program's run, also after        *)
(* emission has changed layouts.                                           *)
(***************************************************************************)
THEOREM BuffersDisjoint == CompilerSpec => [](Sized => Disjoint)
<1>1. CompilerInv => (Sized => Disjoint)
  BY DEF CompilerInv, MemoryInv
<1> QED BY <1>1, CompilerInvariant, PTL
=============================================================================
