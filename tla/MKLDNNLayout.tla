------------------------------ MODULE MKLDNNLayout ------------------------------
(***************************************************************************)
(* Engine::transformForMKLDNN: around an op that MKL-DNN runs, transposes  *)
(* bring its operands to NCHW and its result back to NHWC, and the weight  *)
(* of a product is transposed.  The loop also visits the ops it adds.      *)
(***************************************************************************)
EXTENDS PassManager

(* An op that shuffles src, and its result in the graph: node Next1(h) + 1. *)
AddShuffle(h, name, perm, src) == WithShuffle(AddOp(h, "Transpose", name, <<src>>, <<>>), perm)

(* Node op reads src through a transpose, at every place where it read src. *)
ReadThrough(h, op, src, perm, result) ==
  LET trans == Next1(h)
      shuffled == AddShuffle(h, <<"trans_">> \o h.node[src].name, perm, src)
      out == NewNode(shuffled, "Tensor", Append(h.node[src].name, "_t"), result)
      read == exlinkUpperNode(out, trans + 1, <<trans>>)
  IN  pushTensorNode(ReplaceUseBy(read, src, op, trans + 1), trans + 1)

InNCHW(nd) == [TensorWith(nd) EXCEPT !.layout = "nchw"]

NotNCHW(h, t) == TensorOf(h, t).layout # "nchw"

(* The i-th operand, if it has four axes and is not NCHW yet. *)
ToTranspose(h, op, i) == TensorOf(h, Par(h, op)[i]).nd = 4 /\ NotNCHW(h, Par(h, op)[i])

TransposeSource(h, op, i) ==
  IF ToTranspose(h, op, i) THEN ReadThrough(h, op, Par(h, op)[i], "NHWC2NCHW", InNCHW(4)) ELSE h

(* The op writes a new NCHW tensor, of which dst becomes the transpose. *)
TransposeResult(h, op) ==
  LET dst == Chi(h, op)[1]
      conv_out == Next1(h)
      trans == conv_out + 1
      split == exlinkUpperNode(NewNode(destroyUpperNode(h, dst, <<op>>), "Tensor",
                                       Append(h.node[dst].name, "_nchw"), InNCHW(TensorOf(h, dst).nd)),
                               conv_out, <<op>>)
      back == AddShuffle(pushTensorNode(split, conv_out),
                         <<"trans_to_">> \o h.node[dst].name, "NCHW2NHWC", conv_out)
  IN  IF NotNCHW(h, dst) THEN exlinkUpperNode(back, dst, <<trans>>) ELSE h

ConvTransposed(op) == TransposeResult(TransposeSource(TransposeSource(g, op, 1), op, 2), op)

ProductTransposed(op) ==
  LET weight == Par(g, op)[2]
      tagged == [g EXCEPT !.tensor[g.node[weight].tensor].layout = "cn"]
  IN  ReadThrough(tagged, op, weight, "T", [TensorWith(2) EXCEPT !.layout = "nc"])

(* Mutant: the result is not brought back to NHWC. *)
UnaryTransposedIn(op) == TransposeSource(g, op, 1)

(* Pooling, batch normalization and Relu: nothing at all unless the source is transposed. *)
UnaryTransposed(op) ==
  IF ToTranspose(g, op, 1) THEN TransposeResult(TransposeSource(g, op, 1), op) ELSE g

SumTransposed(op) == TransposeResult(TransposeSource(TransposeSource(g, op, 1), op, 2), op)

Unary == {"BatchNormalization", "MaxPool", "AveragePool", "Relu"}

Transformed(op) ==
  CASE Kind(g, op) = "Conv2d" -> ConvTransposed(op)
    [] Kind(g, op) \in {"MatrixMatrixFCBias", "MatrixMatrixMul"} -> ProductTransposed(op)
    [] Kind(g, op) \in Unary -> UnaryTransposed(op)
    [] Kind(g, op) = "ElementAdd" -> SumTransposed(op)
    [] OTHER -> g

---------------------------------------------------------------------------
StartLayout == Due("layout") /\ Enter("layout", g.ops) /\ UNCHANGED g

(* opNodeNum() is read again: the loop goes on to the transposes it pushed. *)
TransformOp(op) ==
  /\ At("layout", op)
  /\ g' = Transformed(op)
  /\ todo' = Tail(todo) \o SubSeq(g'.ops, Len(g.ops) + 1, Len(g'.ops))
  /\ UNCHANGED <<source, config, plan, pass, failed>>

EndLayout == Leave("layout") /\ g' = updateTopology(g)

LayoutNext == StartLayout \/ (\E op \in ToSet(todo) : TransformOp(op)) \/ EndLayout
=============================================================================
