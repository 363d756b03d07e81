------------------------------- MODULE MemoryPlan -------------------------------
(***************************************************************************)
(* Codegen::allocateMemAddr: an offset in one block of memory for every    *)
(* Tensor, in the order in which the topology meets the nodes that name    *)
(* it.  A Tensor takes as many bytes as it has axes: the plan depends on   *)
(* sizes only through their sums.                                          *)
(***************************************************************************)
EXTENDS PassManager

VARIABLES
  addr,       \* tensors_offset_map_: Tensor to its offset
  allocated   \* MemoryAllocator::allocated_

planVars == <<addr, allocated>>

Bytes(t) == g.tensor[t].nd

(* Mutant: what was allocated before is forgotten. *)
allocateLast(t) ==
  /\ addr' = [u \in DOMAIN addr \cup {t} |-> IF u = t THEN allocated ELSE addr[u]]
  /\ allocated' = Bytes(t)

(* MemoryAllocator::allocate: an accumulator, nothing is ever given back. *)
allocate(t) ==
  /\ addr' = [u \in DOMAIN addr \cup {t} |-> IF u = t THEN allocated ELSE addr[u]]
  /\ allocated' = allocated + Bytes(t)

StartAllocate ==
  /\ Due("allocate")
  /\ Enter("allocate", SelectSeq(g.topo, LAMBDA n : ~IsOp(g, n)))
  /\ addr' = <<>> /\ allocated' = 0
  /\ UNCHANGED g

AllocateTensor(n) ==
  /\ At("allocate", n) /\ g.node[n].tensor \notin DOMAIN addr
  /\ allocate(g.node[n].tensor)
  /\ NextNode
  /\ UNCHANGED g

(* Another node of a Tensor that has its place. *)
SkipTensor(n) ==
  /\ At("allocate", n) /\ g.node[n].tensor \in DOMAIN addr
  /\ NextNode
  /\ UNCHANGED <<g, planVars>>

EndAllocate == Leave("allocate") /\ UNCHANGED <<g, planVars>>

MemoryPlanNext ==
  \/ StartAllocate \/ EndAllocate
  \/ \E n \in ToSet(todo) : AllocateTensor(n) \/ SkipTensor(n)

---------------------------------------------------------------------------
(* What has a place is a Tensor of the graph, of a number of bytes. *)
Sized ==
  /\ "tensor" \in DOMAIN g
  /\ \A t \in DOMAIN addr :
       /\ t \in DOMAIN g.tensor /\ "nd" \in DOMAIN g.tensor[t]
       /\ g.tensor[t].nd \in Nat

(* Two Tensors never overlap, and all lie in what is allocated. *)
Disjoint ==
  \A t \in DOMAIN addr :
    /\ addr[t] + Bytes(t) <= allocated
    /\ \A u \in DOMAIN addr \ {t} : addr[t] + Bytes(t) <= addr[u] \/ addr[u] + Bytes(u) <= addr[t]
=============================================================================
