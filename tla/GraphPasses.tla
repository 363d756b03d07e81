------------------------------ MODULE GraphPasses ------------------------------
(***************************************************************************)
(* The passes every compilation runs: labelling, lowering, renaming, and   *)
(* elimination; and the elimination of transposes of the MKL-DNN build.    *)
(***************************************************************************)
EXTENDS PassManager

VARIABLE namesMap   \* UniqueName::names_map_: a name to its counter

---------------------------------------------------------------------------
(* LabelingPass. *)

(* initLabelingPass: a label names the type of its node. *)
Labelled(h) ==
  FoldLeft(LAMBDA k, n : [k EXCEPT !.label[k.node[n].label].type = Kind(k, n)],
           h, h.tensors \o h.ops)

(* setLoweringMark; MKL-DNN has a product with bias of its own. *)
Lowered ==
  {"MatrixMatrixFC", "MatrixMatrixFCGrad", "MatrixMatrixFCBiasGrad"}
    \cup (IF config.mkldnn THEN {} ELSE {"MatrixMatrixFCBias"})

MarkedToLower(h) ==
  IF ~config.lowering THEN h
  ELSE FoldLeft(LAMBDA k, n : [k EXCEPT !.label[k.node[n].label].lower = TRUE],
                h, SelectSeq(h.ops, LAMBDA n : LabelOf(h, n).type \in Lowered))

(* setTraining *)
MarkedTraining(h) ==
  FoldLeft(LAMBDA k, n : [k EXCEPT !.label[k.node[n].label].train = TensorOf(k, n).train],
           h, h.tensors)

LabelingPass ==
  /\ Due("label")
  /\ g' = MarkedTraining(MarkedToLower(Labelled(g)))
  /\ Pop
  /\ UNCHANGED namesMap

---------------------------------------------------------------------------
(* LoweringPass: einsumLowering of the marked ops. *)

(* Mutant: the children keep the op as a parent. *)
UnlinkedAbove(h, op) == delOpNode(destroyUpperNode(h, op, Par(h, op)), op)

(* The op and its links leave the graph. *)
Unlinked(h, op) ==
  delOpNode(FoldLeft(LAMBDA k, t : destroyUpperNode(k, t, <<op>>),
                     destroyUpperNode(h, op, Par(h, op)), Chi(h, op)), op)

Named(h, n, suffix) == h.node[n].name \o suffix

FCLowered(op) ==
  LET mm == AddOp(g, "MatrixMatrixMul", Named(g, op, <<"_mm">>), Par(g, op), Chi(g, op))
  IN  updateTopology(Unlinked(mm, op))

(* An operand of more than two axes is reshaped; the node to read, and the graph with it. *)
ViewAs2D(h, x) ==
  IF TensorOf(h, x).nd <= 2 THEN [graph |-> h, node |-> x]
  ELSE LET op == Next1(h)
           reshape == AddOp(h, "Reshape", Named(h, x, <<"_reshape_op">>), <<x>>, <<>>)
       IN  [graph |-> AddTensor(reshape, Named(h, x, <<"_reshape">>), TensorWith(2), <<op>>),
            node |-> op + 1]

FCBiasLowered(op) ==
  LET view == ViewAs2D(g, Par(g, op)[1])
      mm == Next1(view.graph)
      product == AddTensor(AddOp(view.graph, "MatrixMatrixMul", Named(g, op, <<"_mm">>),
                                 <<view.node, Par(g, op)[2]>>, <<>>),
                           Named(g, op, <<"_mm", "_out">>), TensorWith(2), <<mm>>)
      add == AddOp(product, "MatrixVectorAdd", Named(g, op, <<"_add">>),
                   <<mm + 1, Par(g, op)[3]>>, Chi(g, op))
  IN  updateTopology(Unlinked(add, op))

(* A transposed copy of x: index of the copy, and the graph with it. *)
TransposedCopy(h, x, layout) ==
  LET op == Next1(h)
      trans == AddOp(h, "MatrixTranspose", <<"op_">> \o Named(h, x, <<"_T">>), <<x>>, <<>>)
  IN  [graph |-> AddTensor(trans, Named(h, x, <<"_T">>),
                           [TensorWith(2) EXCEPT !.layout = layout], <<op>>),
       node |-> op + 1]

(* The transpose of a matrix of inputs is tagged: a matrix is nc by default. *)
InputTransposed(h, x) ==
  TransposedCopy(h, x, IF TensorOf(h, x).nd = 2 /\ TensorOf(h, x).layout # "cn" THEN "cn" ELSE "default")

(* Mutant: dw = dy * XT *)
WithProductsSwapped(h, op, wT, xT, outputG) ==
  LET dx == AddOp(h, "MatrixMatrixMul", Named(g, op, <<"_dx_mm">>), <<outputG, wT>>, <<Chi(g, op)[1]>>)
  IN  AddOp(dx, "MatrixMatrixMul", Named(g, op, <<"_dw_mm">>), <<outputG, xT>>, <<Chi(g, op)[2]>>)

(* dx = dy * WT and dw = XT * dy *)
WithProducts(h, op, wT, xT, outputG) ==
  LET dx == AddOp(h, "MatrixMatrixMul", Named(g, op, <<"_dx_mm">>), <<outputG, wT>>, <<Chi(g, op)[1]>>)
  IN  AddOp(dx, "MatrixMatrixMul", Named(g, op, <<"_dw_mm">>), <<xT, outputG>>, <<Chi(g, op)[2]>>)

FCGradLowered(op) ==
  LET w == TransposedCopy(g, Par(g, op)[2], "default")
      x == InputTransposed(w.graph, Par(g, op)[1])
  IN  updateTopology(Unlinked(WithProducts(x.graph, op, w.node, x.node, Par(g, op)[3]), op))

FCBiasGradLowered(op) ==
  LET outputG == Par(g, op)[4]
      view == ViewAs2D(g, Par(g, op)[1])
      w == TransposedCopy(view.graph, Par(g, op)[2], "default")
      x == InputTransposed(w.graph, view.node)
      db == AddOp(WithProducts(x.graph, op, w.node, x.node, outputG), "BatchedReduceAdd",
                  Named(g, op, <<"_db_bra">>), <<outputG>>, <<Chi(g, op)[3]>>)
  IN  updateTopology(Unlinked(db, op))

lowering(op) ==
  CASE Kind(g, op) = "MatrixMatrixFC" -> FCLowered(op)
    [] Kind(g, op) = "MatrixMatrixFCGrad" -> FCGradLowered(op)
    [] Kind(g, op) = "MatrixMatrixFCBias" -> FCBiasLowered(op)
    [] Kind(g, op) = "MatrixMatrixFCBiasGrad" -> FCBiasGradLowered(op)

StartLowering == Due("lower") /\ Enter("lower", g.ops) /\ UNCHANGED <<g, namesMap>>

LowerOp(op) ==
  /\ At("lower", op) /\ LabelOf(g, op).lower
  /\ g' = lowering(op)
  /\ NextNode
  /\ UNCHANGED namesMap

KeepOp(op) == At("lower", op) /\ ~LabelOf(g, op).lower /\ NextNode /\ UNCHANGED <<g, namesMap>>

EndLowering == Leave("lower") /\ UNCHANGED <<g, namesMap>>

---------------------------------------------------------------------------
(* RenamingNodePass: tensors before ops; a name in use gets the next free counter. *)

UniqueName(name) ==
  LET Numbered(k) == Append(name, ToString(k))
      used == namesMap[name]
      k == CHOOSE i \in used + 1 .. used + Cardinality(DOMAIN namesMap) + 1 :
             /\ Numbered(i) \notin DOMAIN namesMap
             /\ \A j \in used + 1 .. i - 1 : Numbered(j) \in DOMAIN namesMap
  IN  IF name \notin DOMAIN namesMap THEN [name |-> name, map |-> (name :> 0) @@ namesMap]
      ELSE [name |-> Numbered(k), map |-> (Numbered(k) :> 0) @@ [namesMap EXCEPT ![name] = k]]

(* Mutant: only tensors are renamed. *)
StartRenamingTensors ==
  /\ Due("rename") /\ Enter("rename", g.tensors)
  /\ namesMap' = <<>>
  /\ UNCHANGED g

StartRenaming ==
  /\ Due("rename") /\ Enter("rename", g.tensors \o g.ops)
  /\ namesMap' = <<>>
  /\ UNCHANGED g

RenameNode(n) ==
  /\ At("rename", n)
  /\ LET unique == UniqueName(g.node[n].name)
     IN  g' = [g EXCEPT !.node[n].name = unique.name] /\ namesMap' = unique.map
  /\ NextNode

EndRenaming == Leave("rename") /\ UNCHANGED <<g, namesMap>>

---------------------------------------------------------------------------
(* EliminationPass: in reverse topological order, what is not marked and has no reader. *)

StartElimination ==
  /\ Due("eliminate")
  /\ Enter("eliminate", Reverse(g.topo))
  /\ g' = setOutMark(g, g.logical)
  /\ UNCHANGED namesMap

(* Mutant: the out mark is not looked at. *)
RemovableUnmarked(n) ==
  /\ Chi(g, n) = <<>>
  /\ ~IsOp(g, n) /\ Par(g, n) # <<>> => Len(Chi(g, Par(g, n)[1])) <= 1

(* A tensor stays beside another result of its op. *)
Removable(n) ==
  /\ ~LabelOf(g, n).out /\ Chi(g, n) = <<>>
  /\ ~IsOp(g, n) /\ Par(g, n) # <<>> => Len(Chi(g, Par(g, n)[1])) <= 1

EliminateNode(n) ==
  /\ At("eliminate", n) /\ Removable(n)
  /\ LET alone == destroyUpperNode(g, n, Par(g, n))
     IN  g' = IF IsOp(g, n) THEN delOpNode(alone, n) ELSE delTensorNode(alone, n)
  /\ NextNode
  /\ UNCHANGED namesMap

KeepNode(n) ==
  At("eliminate", n) /\ ~Removable(n) /\ NextNode /\ UNCHANGED <<g, namesMap>>

EndElimination ==
  Leave("eliminate") /\ g' = updateTopology(g) /\ UNCHANGED namesMap

---------------------------------------------------------------------------
(* ElimTransposePass: the reader of a transpose and its inverse reads the original. *)

isReverse(p, q) == <<p, q>> \in {<<"NHWC2NCHW", "NCHW2NHWC">>, <<"NCHW2NHWC", "NHWC2NCHW">>, <<"T", "T">>}

StartElimTranspose == Due("elimtranspose") /\ Enter("elimtranspose", g.ops) /\ UNCHANGED <<g, namesMap>>

Bypassed(h, op, next) ==
  IF Kind(h, next) = "Transpose" /\ isReverse(h.node[op].perm, h.node[next].perm)
  THEN ReplaceUse(h, Chi(h, next)[1], Par(h, op)[1]) ELSE h

ElimTranspose(op) ==
  /\ At("elimtranspose", op)
  /\ g' = IF Kind(g, op) # "Transpose" THEN g
          ELSE FoldLeft(LAMBDA h, next : Bypassed(h, op, next), g, Chi(g, Chi(g, op)[1]))
  /\ NextNode
  /\ UNCHANGED namesMap

EndElimTranspose == Leave("elimtranspose") /\ UNCHANGED <<g, namesMap>>

---------------------------------------------------------------------------
(* What the engine does between the passes. *)
FindInOut == Due("refresh") /\ g' = Refresh(g) /\ Pop /\ UNCHANGED namesMap

SetOutMark == Due("outmark") /\ g' = setOutMark(g, g.outs) /\ Pop /\ UNCHANGED namesMap

GraphPassesNext ==
  \/ LabelingPass \/ FindInOut \/ SetOutMark
  \/ StartLowering \/ EndLowering \/ StartRenaming \/ EndRenaming
  \/ StartElimination \/ EndElimination \/ StartElimTranspose \/ EndElimTranspose
  \/ \E n \in ToSet(todo) : \/ LowerOp(n) \/ KeepOp(n) \/ RenameNode(n)
                            \/ EliminateNode(n) \/ KeepNode(n) \/ ElimTranspose(n)
=============================================================================
