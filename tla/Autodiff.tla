------------------------------- MODULE Autodiff --------------------------------
(***************************************************************************)
(* AutodiffPass: turns the graph of a network into one that trains it.     *)
(* The loop takes the nodes in reverse topological order.  An op with a    *)
(* derivative gets a gradient op and gradient tensors for its operands, a  *)
(* trainable tensor with a gradient an SGD op that writes its mirror.      *)
(***************************************************************************)
EXTENDS PassManager

VARIABLE gradNodeMap   \* a tensor node to its gradient node

(***************************************************************************)
(* The derivative of an op: the kind of its gradient op; what that reads,  *)
(* i for the i-th operand, 0 for the first result and -1 for the gradient  *)
(* of it; and how many of n operands get a gradient.                       *)
(***************************************************************************)
Rule(kind, reads, grads) == [kind |-> kind, reads |-> reads, grads |-> grads]

FCBiasRule(n) == Rule("MatrixMatrixFCBiasGrad", <<1, 2, 3, -1>>, n)
FCRule(n) == Rule("MatrixMatrixFCGrad", <<1, 2, -1>>, n)
ReluRule(n) == Rule("ReluGrad", <<1, -1>>, n)
TanhRule(n) == Rule("MatrixTanhGrad", <<1, 0, -1>>, n)
MaxPoolRule(n) == Rule("MaxPoolGrad", <<1, 0, -1>>, n)
SoftmaxRule(n) == Rule("MatrixSoftmaxGrad", <<1, 2, 0, -1>>, n)
SoftmaxWithLossRule(n) == Rule("MatrixSoftmaxWithLossGrad", <<2, 0>>, n - 1)
Conv2dRule(n) == Rule("Conv2dGrad", <<1, 2, -1>>, n)
Conv2dWithActivationRule(n) == Rule("Conv2dWithActivationGrad", <<1, 2, -1>>, n)
LRNRule(n) == Rule("LRNGrad", <<1, -1>>, 1)
DropoutRule(n) == Rule("ElementMul", <<-1, 2>>, 1)

Differentiable ==
  {"MatrixMatrixFCBias", "MatrixMatrixFC", "Relu", "MatrixTanh", "MaxPool", "MatrixSoftmax",
   "MatrixSoftmaxWithLoss", "Conv2d", "Conv2dWithActivation", "LRN", "Dropout"}

Derivative(kind, n) ==
  CASE kind = "MatrixMatrixFCBias" -> FCBiasRule(n)
    [] kind = "MatrixMatrixFC" -> FCRule(n)
    [] kind = "Relu" -> ReluRule(n)
    [] kind = "MatrixTanh" -> TanhRule(n)
    [] kind = "MaxPool" -> MaxPoolRule(n)
    [] kind = "MatrixSoftmax" -> SoftmaxRule(n)
    [] kind = "MatrixSoftmaxWithLoss" -> SoftmaxWithLossRule(n)
    [] kind = "Conv2d" -> Conv2dRule(n)
    [] kind = "Conv2dWithActivation" -> Conv2dWithActivationRule(n)
    [] kind = "LRN" -> LRNRule(n)
    [] kind = "Dropout" -> DropoutRule(n)

(* The gradient op of op n, with its results, one for each of the first operands. *)
WithGradOp(n) ==
  LET rule == Derivative(Kind(g, n), Len(Par(g, n)))
      read == [i \in DOMAIN rule.reads |->
                 CASE rule.reads[i] > 0 -> Par(g, n)[rule.reads[i]]
                   [] rule.reads[i] = 0 -> Chi(g, n)[1]
                   [] rule.reads[i] < 0 -> gradNodeMap[Chi(g, n)[1]]]
      op == Next1(g)
      withOp == AddOp(g, rule.kind, Append(g.node[n].name, "_grad"), read, <<>>)
  IN  FoldLeft(LAMBDA h, t :
                 AddTensor(h, Append(g.node[t].name, "_grad"),
                           TensorWith(TensorOf(g, t).nd), <<op>>),
               withOp, SubSeq(Par(g, n), 1, rule.grads))

(* gradNodeMap[operand] = ..., the last one made for it if an operand comes twice. *)
WithGrads(n) ==
  LET grads == Derivative(Kind(g, n), Len(Par(g, n))).grads
      At1(t) == Max({i \in 1 .. grads : Par(g, n)[i] = t})
  IN  [t \in ToSet(SubSeq(Par(g, n), 1, grads)) |-> Next1(g) + At1(t)] @@ gradNodeMap

(* TensorNode::autoDiff for a weight: SGD reads it, its gradient and a momentum. *)
WithSgd(t) ==
  LET momentum == Next1(g)
      withMomentum == NewNode(g, "Tensor", <<"momentum">>,
                              [TensorWith(TensorOf(g, t).nd) EXCEPT !.zeroed = TRUE])
      sgd == momentum + 1
      withSgd == AddOp(withMomentum, "SGD", Append(g.node[t].name, "_sgd"),
                       <<t, gradNodeMap[t], momentum>>, <<>>)
      mirror == sgd + 1
      withMirror == exlinkUpperNode(CloneTensor(withSgd, t), mirror, <<sgd>>)
  IN  addLogicalOutNodes(pushTensorNode(pushTensorNode(withMirror, mirror), momentum), mirror)

---------------------------------------------------------------------------
StartAutodiff ==
  /\ Due("autodiff")
  /\ Enter("autodiff", Reverse(g.topo))
  /\ gradNodeMap' = <<>>
  /\ UNCHANGED g

(* An op of a kind with a derivative, whose first result has a gradient. *)
DiffOp(n) ==
  /\ At("autodiff", n) /\ Kind(g, n) \in Differentiable
  /\ Chi(g, n)[1] \in DOMAIN gradNodeMap
  /\ g' = WithGradOp(n)
  /\ gradNodeMap' = WithGrads(n)
  /\ NextNode

(* assert(gradNodeMap.count(output)) *)
GradUnfound(n) ==
  /\ At("autodiff", n) /\ Kind(g, n) \in Differentiable
  /\ Chi(g, n)[1] \notin DOMAIN gradNodeMap
  /\ Fail
  /\ UNCHANGED <<g, gradNodeMap>>

(* Op::autoDiff: unimplemented, pass. *)
PassOp(n) ==
  /\ At("autodiff", n) /\ IsOp(g, n) /\ Kind(g, n) \notin Differentiable
  /\ NextNode
  /\ UNCHANGED <<g, gradNodeMap>>

MakeSgd(t) ==
  /\ At("autodiff", t) /\ ~IsOp(g, t) /\ t \in DOMAIN gradNodeMap /\ TensorOf(g, t).train
  /\ g' = WithSgd(t)
  /\ NextNode
  /\ UNCHANGED gradNodeMap

(* A tensor nothing reads starts the gradients; its own gradient is not put into the graph. *)
EndPoint(t) ==
  /\ At("autodiff", t) /\ ~IsOp(g, t) /\ t \notin DOMAIN gradNodeMap /\ Chi(g, t) = <<>>
  /\ g' = [NewNode(g, "Tensor", Append(g.node[t].name, "_grad"),
                   TensorWith(TensorOf(g, t).nd))
             EXCEPT !.tensor[g.node[t].tensor].zeroed = TRUE]
  /\ gradNodeMap' = (t :> Next1(g)) @@ gradNodeMap
  /\ NextNode

PassTensor(t) ==
  /\ At("autodiff", t) /\ ~IsOp(g, t)
  /\ IF t \in DOMAIN gradNodeMap THEN ~TensorOf(g, t).train ELSE Chi(g, t) # <<>>
  /\ NextNode
  /\ UNCHANGED <<g, gradNodeMap>>

EndAutodiff == Leave("autodiff") /\ UNCHANGED <<g, gradNodeMap>>

AutodiffNext ==
  \/ StartAutodiff
  \/ \E n \in ToSet(todo) : \/ DiffOp(n) \/ GradUnfound(n) \/ PassOp(n)
                            \/ MakeSgd(n) \/ EndPoint(n) \/ PassTensor(n)
  \/ EndAutodiff
=============================================================================
