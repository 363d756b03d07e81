-------------------------------- MODULE IRGraph --------------------------------
(***************************************************************************)
(* The graph of graphIR as one value, and its operations as operators that *)
(* return the changed graph, so that a pass can make several changes in a  *)
(* step.                                                                   *)
(*                                                                         *)
(* A node is its index in g.node, which is memory: a node taken out of the *)
(* lists g.tensors and g.ops stays there.  par and chi are the ordered     *)
(* parents and children.  Labels and Tensor objects are shared by clones,  *)
(* so a node names its own: the index of the node they were made with.     *)
(* Shapes are left out but for the number of axes (nd).                    *)
(***************************************************************************)
EXTENDS Integers, Sequences, FiniteSets, SequencesExt

NoTensor == [nd |-> 0, layout |-> "default", train |-> FALSE, zeroed |-> FALSE]

NoMarks == [type |-> "none", lower |-> FALSE, out |-> FALSE, train |-> FALSE]

(* A new Tensor: of four axes in NHWC, if the caller names no layout. *)
TensorWith(nd) == [NoTensor EXCEPT !.nd = nd, !.layout = IF nd = 4 THEN "nhwc" ELSE "default"]

EmptyGraph ==
  [node |-> <<>>, label |-> <<>>, tensor |-> <<>>, tensors |-> <<>>, ops |-> <<>>,
   ins |-> <<>>, outs |-> <<>>, logical |-> <<>>, topo |-> <<>>]

Nodes(g) == DOMAIN g.node

IsOp(g, n) == g.node[n].kind # "Tensor"

Kind(g, n) == g.node[n].kind

Par(g, n) == g.node[n].par

Chi(g, n) == g.node[n].chi

TensorOf(g, n) == g.tensor[g.node[n].tensor]

LabelOf(g, n) == g.label[g.node[n].label]

Listed(g) == ToSet(g.tensors) \cup ToSet(g.ops)

(* The index the next node gets. *)
Next1(g) == Len(g.node) + 1

---------------------------------------------------------------------------
(* Links (IRNode). *)

exlinkUpperNode(g, n, ups) ==
  FoldLeft(LAMBDA h, u : [h EXCEPT !.node[n].par = Append(@, u),
                                   !.node[u].chi = Append(@, n)], g, ups)

destroyUpperNode(g, n, ups) ==
  FoldLeft(LAMBDA h, u : [h EXCEPT !.node[n].par = RemoveFirst(@, u),
                                   !.node[u].chi = RemoveFirst(@, n)], g, ups)

(* replaceUseKeepOrder(child, new): child reads new wherever it read n. *)
ReplaceUseBy(g, n, child, new) ==
  LET uses == SelectSeq(Par(g, child), LAMBDA p : p = n)
  IN  FoldLeft(LAMBDA h, u : [h EXCEPT !.node[n].chi = RemoveFirst(@, child),
                                       !.node[new].chi = Append(@, child)],
               [g EXCEPT !.node[child].par = ReplaceAll(@, n, new)], uses)

(* delVecMember on the memory of a vector whose first size cells are live. *)
Erase(mem, size, c) ==
  LET i == CHOOSE j \in 1 .. size : mem[j] = c /\ \A k \in 1 .. j - 1 : mem[k] # c
  IN  [j \in DOMAIN mem |-> IF i <= j /\ j < size THEN mem[j + 1] ELSE mem[j]]

(***************************************************************************)
(* replaceUseKeepOrder(new): the loop runs over the children by position,  *)
(* to the end they had at its start, while each relinked child is erased   *)
(* and the rest move up.  The memory behind the end keeps what it held.    *)
(***************************************************************************)
ReplaceUse(g, n, new) ==
  LET Cell(s, j) ==
        LET c == s.mem[j]
            k == Cardinality({i \in DOMAIN Par(s.g, c) : Par(s.g, c)[i] = n})
        IN  FoldLeft(LAMBDA t, i : [g |-> [t.g EXCEPT !.node[new].chi = Append(@, c)],
                                    mem |-> Erase(t.mem, t.size, c), size |-> t.size - 1],
                     [s EXCEPT !.g.node[c].par = ReplaceAll(@, n, new)], [i \in 1 .. k |-> i])
      last == FoldLeft(Cell, [g |-> g, mem |-> Chi(g, n), size |-> Len(Chi(g, n))],
                       [j \in DOMAIN Chi(g, n) |-> j])
  IN  [last.g EXCEPT !.node[n].chi = SubSeq(last.mem, 1, last.size)]

---------------------------------------------------------------------------
(* Nodes and lists (IRGraph.h). *)

NewNode(g, kind, name, tensor) ==
  LET n == Next1(g)
  IN  [g EXCEPT !.node = Append(@, [kind |-> kind, name |-> name, par |-> <<>>, chi |-> <<>>,
                                    tensor |-> n, label |-> n, perm |-> "none"]),
                !.label = Append(@, NoMarks),
                !.tensor = Append(@, tensor)]

pushTensorNode(g, n) == [g EXCEPT !.tensors = Append(@, n)]

pushOpNode(g, n) == [g EXCEPT !.ops = Append(@, n)]

delTensorNode(g, n) == [g EXCEPT !.tensors = RemoveFirst(@, n)]

delOpNode(g, n) == [g EXCEPT !.ops = RemoveFirst(@, n)]

addLogicalOutNodes(g, n) == [g EXCEPT !.logical = Append(@, n)]

(* A new tensor node below the ops of parents, in the graph. *)
AddTensor(g, name, tensor, parents) ==
  pushTensorNode(exlinkUpperNode(NewNode(g, "Tensor", name, tensor), Next1(g), parents), Next1(g))

(* A new op that reads operands and makes results, in the graph. *)
AddOp(g, kind, name, operands, results) ==
  LET op == Next1(g)
      read == exlinkUpperNode(NewNode(g, kind, name, NoTensor), op, operands)
  IN  pushOpNode(FoldLeft(LAMBDA h, t : exlinkUpperNode(h, t, <<op>>), read, results), op)

(* The shuffle of the op just made. *)
WithShuffle(g, perm) == [g EXCEPT !.node[Len(g.node)].perm = perm]

(* TensorNode::clone: the same Tensor and the same Label. *)
CloneTensor(g, n) ==
  LET c == NewNode(g, "Tensor", Append(g.node[n].name, "_cp"), NoTensor)
  IN  [c EXCEPT !.node[Next1(g)].tensor = g.node[n].tensor,
                !.node[Next1(g)].label = g.node[n].label]

setOutMark(g, nodes) ==
  FoldLeft(LAMBDA h, n : [h EXCEPT !.label[h.node[n].label].out = TRUE], g, nodes)

---------------------------------------------------------------------------
(* Inputs, outputs and the topology. *)

findInOut(g) ==
  [g EXCEPT !.ins = SelectSeq(g.tensors, LAMBDA n : Par(g, n) = <<>>),
            !.outs = SelectSeq(g.tensors, LAMBDA n : Chi(g, n) = <<>>)
                       \o SelectSeq(g.ops, LAMBDA n : Chi(g, n) = <<>>)]

(***************************************************************************)
(* The topologyId: the length of the longest walk from a recorded input to *)
(* n, 0 if there is none.  Breadth first, a node once per level it is on.  *)
(***************************************************************************)
TopologyId(g) ==
  LET Deeper(s, k) ==
        IF s.front = {} THEN s
        ELSE [front |-> UNION {ToSet(Chi(g, n)) : n \in s.front},
              id |-> [n \in Nodes(g) |-> IF n \in s.front THEN k - 1 ELSE s.id[n]]]
  IN  FoldLeft(Deeper, [front |-> ToSet(g.ins), id |-> [n \in Nodes(g) |-> 0]],
               [k \in 1 .. Len(g.node) + 1 |-> k]).id

(* updateTopology: the nodes of the lists by level, tensors before ops. *)
updateTopology(g) ==
  LET id == TopologyId(g)
      Level(k) == SelectSeq(g.tensors, LAMBDA n : id[n] = k)
                    \o SelectSeq(g.ops, LAMBDA n : id[n] = k)
  IN  [g EXCEPT !.topo = FlattenSeq([k \in 1 .. Len(g.node) + 1 |-> Level(k - 1)])]

Refresh(g) == updateTopology(findInOut(g))

---------------------------------------------------------------------------
(* What a graph must be. *)

Occurs(s, e) == Cardinality({i \in DOMAIN s : s[i] = e})

(* A parent lists a child as often as the child lists the parent. *)
Mirrored(g) ==
  \A p, c \in Nodes(g) : Occurs(Chi(g, p), c) = Occurs(Par(g, c), p)

(* What a node of the graph reads is in the graph. *)
Closed(g) == \A n \in Listed(g) : ToSet(Par(g, n)) \cup ToSet(Chi(g, n)) \subseteq Listed(g)

(* The topology holds every node once, after all that it reads. *)
Ordered(g) ==
  /\ ToSet(g.topo) = Listed(g) /\ Len(g.topo) = Cardinality(Listed(g))
  /\ \A i \in DOMAIN g.topo : ToSet(Par(g, g.topo[i])) \cap Listed(g) \subseteq ToSet(SubSeq(g.topo, 1, i - 1))
=============================================================================
