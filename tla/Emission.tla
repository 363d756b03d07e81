-------------------------------- MODULE Emission --------------------------------
(***************************************************************************)
(* Codegen::emitFuncCalls: for every op, in topological order, the call of *)
(* its kernel, or of an MKL-DNN primitive.  A call names Tensors: its      *)
(* operands and its results in the order of its arguments; a primitive is  *)
(* also told in which layout each of its memories is.                      *)
(***************************************************************************)
EXTENDS PassManager

VARIABLE calls   \* the statements emitted so far

Call(fn, ins, outs) == [fn |-> fn, ins |-> ins, outs |-> outs, perm |-> "none", tags |-> <<>>]

In(op, i) == g.node[Par(g, op)[i]].tensor

Out(op, i) == g.node[Chi(g, op)[i]].tensor

(* A kernel with its operands and results, by their places in the op. *)
Kernel(fn, op, reads, writes) ==
  Call(fn, [i \in DOMAIN reads |-> In(op, reads[i])], [i \in DOMAIN writes |-> Out(op, writes[i])])

---------------------------------------------------------------------------
(* The branches of emitFuncCall, each for the types of label it names. *)

EmitMatrixMatrixMul(op) == Kernel("matrixMatrixMul", op, <<1, 2>>, <<1>>)
EmitReshape(op) == Kernel("alias", op, <<1>>, <<1>>)
EmitBatchedAdd(op) == Kernel("batchedadd", op, <<1, 2>>, <<1>>)
EmitBatchedReduceAdd(op) == Kernel("batchedreduceadd", op, <<1>>, <<1>>)
EmitElementAdd(op) == Kernel("vecAdd", op, <<1, 2>>, <<1>>)
EmitConv2d(op) == Kernel("conv2d", op, <<1, 2, 3>>, <<1>>)
EmitConv2dGrad(op) == Kernel("conv2dGrad", op, <<3, 1, 2>>, <<1, 2, 3>>)
EmitBatchNormalization(op) == Kernel("batchnormalization", op, <<1, 4, 5, 2, 3>>, <<1>>)
EmitPool(op) == Kernel(IF LabelOf(g, op).type = "MaxPool" THEN "maxpool" ELSE "avgpool", op, <<1>>, <<1>>)
EmitMaxPoolGrad(op) == Kernel("maxpoolGrad", op, <<3, 1>>, <<1>>)
EmitRelu(op) == Kernel("relu", op, <<1>>, <<1>>)
EmitReluGrad(op) == Kernel("reluGrad", op, <<1, 2>>, <<1>>)
EmitTranspose(op) == [Kernel("transpose", op, <<1>>, <<1>>) EXCEPT !.perm = g.node[op].perm]
EmitMatrixTranspose(op) == [Kernel("transpose", op, <<1>>, <<1>>) EXCEPT !.perm = "T"]
EmitTanh(op) == Kernel("matrixTanh", op, <<1>>, <<1>>)
EmitTanhGrad(op) == Kernel("matrixTanhGrad", op, <<2, 3>>, <<1>>)
EmitSoftmax(op) == Kernel("matrixSoftmax", op, <<1>>, <<1>>)
EmitSoftmaxGrad(op) == Kernel("matrixSoftmaxGrad", op, <<3, 2>>, <<1>>)
EmitSoftmaxWithLoss(op) == Kernel("matrixSoftmaxWithLoss", op, <<1, 2>>, <<1, 2>>)
EmitSoftmaxWithLossGrad(op) == Kernel("matrixSoftmaxWithLossGrad", op, <<2, 1>>, <<1>>)
EmitArgMax(op) == Kernel("argMax", op, <<1>>, <<1>>)
EmitAccuracy(op) == Kernel("accuracy", op, <<1, 2>>, <<1>>)

(* The weight and the momentum are updated where they are. *)
EmitSGD(op) == Call("sgd", <<In(op, 1), In(op, 2), In(op, 3)>>, <<In(op, 1), In(op, 3)>>)

---------------------------------------------------------------------------
(* The branches for MKL-DNN. *)

(* getMemLayoutTag *)
TagOf(t) ==
  LET tensor == g.tensor[t]
  IN  IF tensor.layout # "default" THEN tensor.layout
      ELSE CASE tensor.nd = 2 -> "nc" [] tensor.nd = 1 -> "x" [] OTHER -> "any"

(* emit_mkldnn_memory: one memory per Tensor and tag, the Tensor's own if none is named. *)
MemoryOf(t, tag) == [tensor |-> t, tag |-> IF tag = "" THEN TagOf(t) ELSE tag]

Primitive(fn, ins, out) ==
  [fn |-> fn, ins |-> [i \in DOMAIN ins |-> ins[i].tensor], outs |-> <<out.tensor>>, perm |-> "none",
   tags |-> [i \in DOMAIN ins |-> ins[i].tag] \o <<out.tag>>]

(* Operands and result in their own layouts. *)
AsTagged(fn, op, reads) ==
  Primitive(fn, [i \in DOMAIN reads |-> MemoryOf(In(op, reads[i]), "")], MemoryOf(Out(op, 1), ""))

PrimitiveFCBias(op) ==
  Primitive("inner_product", <<MemoryOf(In(op, 1), "nc"), MemoryOf(In(op, 2), "nc"), MemoryOf(In(op, 3), "")>>,
            MemoryOf(Out(op, 1), ""))
PrimitiveSum(op) == AsTagged("sum", op, <<1, 2>>)
PrimitiveConv2d(op) == AsTagged("convolution", op, <<1, 2, 3>>)
PrimitiveBatchNorm(op) == AsTagged("batch_normalization", op, <<1, 2>>)
PrimitivePool(op) ==
  AsTagged(IF LabelOf(g, op).type = "MaxPool" THEN "pooling_max" ELSE "pooling_avg", op, <<1>>)
PrimitiveRelu(op) == AsTagged("eltwise_relu", op, <<1>>)
PrimitiveMatrixTranspose(op) ==
  Primitive("reorder", <<MemoryOf(In(op, 1), "cn")>>, MemoryOf(Out(op, 1), "nc"))
PrimitiveSoftmax(op) == AsTagged("softmax", op, <<1>>)

(* A matrix result makes the operand a transposed matrix, and its layout stays so. *)
ToMatrix(op) == LabelOf(g, op).type = "Transpose" /\ TagOf(Out(op, 1)) = "nc"

PrimitiveTranspose(op) ==
  Primitive("reorder", <<MemoryOf(In(op, 1), IF ToMatrix(op) THEN "cn" ELSE "")>>, MemoryOf(Out(op, 1), ""))

---------------------------------------------------------------------------
(* emitFuncCall.  A type that has no branch gets no statement. *)
Statements(op) ==
  LET type == LabelOf(g, op).type
      Branch(primitive, kernel) == <<IF config.mkldnn THEN primitive ELSE kernel>>
  IN  CASE type = "MatrixMatrixMul" -> <<EmitMatrixMatrixMul(op)>>
        [] type = "MatrixMatrixFCBias" -> IF config.mkldnn THEN <<PrimitiveFCBias(op)>> ELSE <<>>
        [] type \in {"Reshape", "TensorAscend", "TensorDescend"} -> <<EmitReshape(op)>>
        [] type \in {"BatchedAdd", "MatrixVectorAdd"} -> <<EmitBatchedAdd(op)>>
        [] type = "BatchedReduceAdd" -> <<EmitBatchedReduceAdd(op)>>
        [] type = "ElementAdd" -> Branch(PrimitiveSum(op), EmitElementAdd(op))
        [] type = "Conv2d" -> Branch(PrimitiveConv2d(op), EmitConv2d(op))
        [] type = "Conv2dGrad" -> <<EmitConv2dGrad(op)>>
        [] type = "BatchNormalization" -> Branch(PrimitiveBatchNorm(op), EmitBatchNormalization(op))
        [] type \in {"MaxPool", "AveragePool"} -> Branch(PrimitivePool(op), EmitPool(op))
        [] type = "MaxPoolGrad" -> <<EmitMaxPoolGrad(op)>>
        [] type = "Relu" -> Branch(PrimitiveRelu(op), EmitRelu(op))
        [] type = "ReluGrad" -> <<EmitReluGrad(op)>>
        [] type = "Transpose" -> Branch(PrimitiveTranspose(op), EmitTranspose(op))
        [] type = "MatrixTranspose" -> Branch(PrimitiveMatrixTranspose(op), EmitMatrixTranspose(op))
        [] type = "MatrixTanh" -> <<EmitTanh(op)>>
        [] type = "MatrixTanhGrad" -> <<EmitTanhGrad(op)>>
        [] type = "MatrixSoftmax" -> Branch(PrimitiveSoftmax(op), EmitSoftmax(op))
        [] type = "MatrixSoftmaxGrad" -> <<EmitSoftmaxGrad(op)>>
        [] type = "MatrixSoftmaxWithLoss" -> <<EmitSoftmaxWithLoss(op)>>
        [] type = "MatrixSoftmaxWithLossGrad" -> <<EmitSoftmaxWithLossGrad(op)>>
        [] type = "ArgMax" -> <<EmitArgMax(op)>>
        [] type = "Accuracy" -> <<EmitAccuracy(op)>>
        [] type = "SGD" -> <<EmitSGD(op)>>
        [] OTHER -> <<>>

StartEmit ==
  /\ Due("emit")
  /\ Enter("emit", SelectSeq(g.topo, LAMBDA n : IsOp(g, n)))
  /\ calls' = <<>>
  /\ UNCHANGED g

dispatchOpNode(op) ==
  /\ At("emit", op)
  /\ calls' = calls \o Statements(op)
  /\ g' = IF config.mkldnn /\ ToMatrix(op) THEN [g EXCEPT !.tensor[In(op, 1)].layout = "cn"] ELSE g
  /\ NextNode

EndEmit == Leave("emit") /\ UNCHANGED <<g, calls>>

EmissionNext ==
  StartEmit \/ EndEmit \/ \E op \in ToSet(todo) : dispatchOpNode(op)
=============================================================================
