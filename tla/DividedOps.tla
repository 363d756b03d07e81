------------------------------- MODULE DividedOps -------------------------------
(***************************************************************************)
(* What a strategy promises: that processes which run the op on their      *)
(* parts of the operands make the parts, or the terms, of the result.      *)
(* An op has a kind, the dims of its tensors, a window if it slides one,   *)
(* and cn if its first operand is a transposed matrix.                     *)
(***************************************************************************)
EXTENDS Kernels, StrategyGen

(* The parallelizable kinds that code is generated for; the other kinds are labelled all the same. *)
KernelKinds ==
  DOMAIN EinRep \
    {"VectorMatrixMul", "MatrixVectorMul", "VectorVectorInnerProduct", "ScalarMul", "ScalarAdd",
     "ScalarMax", "ScalarExp", "ScalarNeg", "ScalarDiv", "ScalarLog", "MatrixMatrixFC",
     "MatrixMatrixFCGrad", "MatrixMatrixFCBias", "MatrixMatrixFCBiasGrad", "Dropout", "ElementMul",
     "LRN", "LRNGrad", "Conv2dWithActivation", "Conv2dWithActivationGrad", "Debug"}

(* The results of an op on operands x; the arguments of each kernel as the code generator passes them. *)
Run(op, x) ==
  CASE op.kind = "MatrixMatrixMul" -> <<matrixMatrixMul(x[1], x[2])>>
    [] op.kind = "MatrixVectorAdd" -> <<batchedadd(x[1], x[2])>>
    [] op.kind = "BatchedReduceAdd" -> <<batchedreduceadd(x[1])>>
    [] op.kind = "MatrixTranspose" -> <<transpose2d(x[1])>>
    [] op.kind = "MatrixTanh" -> <<matrixTanh(x[1])>>
    [] op.kind = "MatrixTanhGrad" -> <<matrixTanhGrad(x[2], x[3])>>
    [] op.kind = "MatrixSoftmax" -> <<matrixSoftmax(x[1])>>
    [] op.kind = "MatrixSoftmaxWithLoss" -> <<matrixSoftmax(x[1]), meanLoss(x[1], x[2])>>
    [] op.kind = "MatrixSoftmaxWithLossGrad" -> <<matrixSoftmaxWithLossGrad(x[1], x[2])>>
    [] op.kind = "Relu" -> <<relu(x[1])>>
    [] op.kind = "ReluGrad" -> <<reluGrad(x[1], x[2])>>
    [] op.kind = "Conv2d" -> <<conv2d(x[1], x[2], x[3], op.win)>>
    [] op.kind = "Conv2dGrad" ->
         <<conv2dInputGrad(x[3], x[1], x[2], op.win), conv2dFilterGrad(x[3], x[1], x[2], op.win),
           conv2dBiasGrad(x[3], x[1], x[2], op.win)>>
    [] op.kind = "MaxPool" -> <<maxpool(x[1], op.win)>>
    [] op.kind = "AveragePool" -> <<avgpool(x[1], op.win)>>
    [] op.kind = "MaxPoolGrad" -> <<maxpoolGrad(x[3], x[1], op.win)>>
    [] op.kind = "ArgMax" -> <<argMax(x[1], 1)>>
    [] op.kind = "Accuracy" -> <<accuracy(x[1], x[2])>>

---------------------------------------------------------------------------
(* Sample operands: small integers without a pattern, or labels. *)

IsLabel(kind, t) ==
  \/ kind = "MatrixSoftmaxWithLoss" /\ t = 2
  \/ kind = "MatrixSoftmaxWithLossGrad" /\ t = 1
  \/ kind = "Accuracy"

Sample(kind, t, dim) ==
  LET Mixed(c) == 7 * t + SumOver(DOMAIN c, LAMBDA i : (2 * i + 1) * c[i] + (c[i] * c[1] * t))
  IN  Make(dim, LAMBDA c : IF IsLabel(kind, t) THEN (Mixed(c) \div 3) % 2 ELSE ((Mixed(c) * Mixed(c)) % 11) - 3)

Operands(op) ==
  [t \in DOMAIN EinRep[op.kind].ins |-> Sample(op.kind, t, op.dims[t])]

---------------------------------------------------------------------------
(* The part of x that process r of p has, cut along axis. *)
Part(x, axis, r, p) ==
  IF axis < 0 THEN x
  ELSE LET n == x.dim[axis + 1] \div p
       IN  Make([x.dim EXCEPT ![axis + 1] = n],
                LAMBDA c : x.at[[c EXCEPT ![axis + 1] = @ + r * n]])

(* Every process r has made y[r]: the whole along axis, or the sum. *)
Collected(y, axis, p) ==
  CASE axis >= 0 ->
         LET n == y[0].dim[axis + 1]
         IN  Make([y[0].dim EXCEPT ![axis + 1] = n * p],
                  LAMBDA c : y[c[axis + 1] \div n].at[[c EXCEPT ![axis + 1] = @ % n]])
    [] axis = -2 -> Make(y[0].dim, LAMBDA c : SumOver(Upto(p), LAMBDA r : y[r].at[c]))
    [] axis = -1 -> y[0]

(* The op in p processes under strategy gives what the whole op gives. *)
Exact(op, strategy, p) ==
  LET x == Operands(op)
      whole == Run(op, x)
      made == [r \in Upto(p) |-> Run(op, [t \in DOMAIN x |-> Part(x[t], strategy[t], r, p)])]
  IN  \A k \in DOMAIN whole :
        Collected([r \in Upto(p) |-> made[r][k]], strategy[Len(x) + k], p) = whole[k]

(***************************************************************************)
(* The strategies that do not keep this promise.  A convolution cut along  *)
(* the input channels adds its bias in every process, and its gradient op  *)
(* makes the whole gradient of the bias in every process; both are then    *)
(* summed.  A loss is a mean over a process's rows, and the means are      *)
(* summed.  batchedreduceadd sums rows where the op says columns.          *)
(***************************************************************************)
Inexact ==
  {<<"Conv2d", "c">>, <<"Conv2dGrad", "c">>, <<"MatrixSoftmaxWithLoss", "i">>,
   <<"BatchedReduceAdd", "i">>, <<"BatchedReduceAdd", "j">>}

---------------------------------------------------------------------------
(* Gradient kernels against the forward kernels. *)

Dot(x, y) == SumOver(Cells(x.dim), LAMBDA c : x.at[c] * y.at[c])

Bumped(x, c) == [x EXCEPT !.at[c] = @ + 1]

(* grad is the gradient at x of dy . F(x), where F is linear but for a constant. *)
IsGradient(grad, dy, F(_), x) ==
  \A c \in Cells(x.dim) : grad.at[c] = Dot(dy, F(Bumped(x, c))) - Dot(dy, F(x))

(* The gradient of an F that is linear in pieces: Euler's identity. *)
IsEulerGradient(grad, dy, F(_), x) == Dot(grad, x) = Dot(dy, F(x))

(***************************************************************************)
(* The gradient op of a kind computes, on its sample, the gradients of the *)
(* op it comes from; but conv2dGrad misses outputs whose window begins in  *)
(* the padding when it sums the gradient of the bias.                      *)
(***************************************************************************)
GradientsRight(op) ==
  LET x == Operands(op)
      zero == Make(<<op.dims[2][1]>>, LAMBDA c : 0)
  IN  CASE op.kind = "Conv2dGrad" ->
             /\ IsGradient(Run(op, x)[1], x[3], LAMBDA v : conv2d(v, x[2], zero, op.win), x[1])
             /\ IsGradient(Run(op, x)[2], x[3], LAMBDA f : conv2d(x[1], f, zero, op.win), x[2])
             /\ IsGradient(Run(op, x)[3], x[3], LAMBDA b : conv2d(x[1], x[2], b, op.win), zero)
                  <=> op.win.pad = <<0, 0>>
        [] op.kind = "MaxPoolGrad" ->
             IsEulerGradient(Run(op, x)[1], x[3], LAMBDA v : maxpool(v, op.win), x[1])
        [] op.kind = "ReluGrad" -> IsEulerGradient(Run(op, x)[1], x[2], relu, x[1])
        [] OTHER -> TRUE

(* BatchedReduceAdd computes the gradient of the slice that batchedadd adds to each. *)
ReductionRight(op) ==
  op.kind = "BatchedReduceAdd" =>
    LET x == Operands(op)
    IN  IsGradient(Run(op, x)[1], x[1], LAMBDA b : batchedadd(x[1], b), Make(<<op.dims[1][2]>>, LAMBDA c : 0))
=============================================================================
