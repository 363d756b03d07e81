------------------------------- MODULE StrategyGen -------------------------------
(***************************************************************************)
(* The strategies of an op, from the letters its class gives to the axes   *)
(* of its operands and results (_einRep).  A letter stands for one way to  *)
(* run the op in parallel: a strategy says for each tensor along which     *)
(* axis (from 0) it is cut, -1 for an operand that every process has all   *)
(* of, -2 for a result of which every process makes a part of the sum.     *)
(***************************************************************************)
EXTENDS Integers, Sequences, FiniteSets, SequencesExt

(* A class of ops that einsum describes (_einOp = 1); "_" is an axis that is never cut. *)
Class(ins, outs) == [ins |-> ins, outs |-> outs]

Pool == <<"b", "_", "_", "c">>
Filter == <<"o", "_", "_", "c">>
Image == <<"b", "_", "_", "o">>
Matrix == <<"i", "j">>
Rows == <<"i", "_">>
Pixels == <<"b", "h", "w", "c">>
Line == <<"i">>
Pairs == <<"j", "k">>
Scalar == <<>>

MatrixMatrixMulOp == Class(<<<<"i", "j">>, <<"j", "k">>>>, <<<<"i", "k">>>>)
VectorMatrixMulOp == Class(<<Line, Matrix>>, <<<<"j">>>>)
MatrixVectorMulOp == Class(<<Matrix, <<"j">>>>, <<Line>>)
VectorVectorInnerProductOp == Class(<<Line, Line>>, <<Scalar>>)
ScalarBinaryOp == Class(<<Scalar, Scalar>>, <<Scalar>>)
ScalarUnaryOp == Class(<<Scalar>>, <<Scalar>>)
MatrixTransposeOp == Class(<<Matrix>>, <<<<"j", "i">>>>)
MatrixMatrixFCOp == Class(<<<<"i", "k">>, <<"k", "j">>>>, <<Matrix>>)
MatrixMatrixFCGradOp ==
  Class(<<<<"i", "k">>, <<"k", "j">>, Matrix>>, <<<<"i", "k">>, <<"k", "j">>>>)
MatrixMatrixFCBiasOp == Class(<<<<"i", "k">>, <<"k", "j">>, <<"j">>>>, <<Matrix>>)
MatrixMatrixFCBiasGradOp ==
  Class(<<<<"i", "k">>, <<"k", "j">>, <<"j">>, Matrix>>, <<<<"i", "k">>, <<"k", "j">>, <<"j">>>>)
MatrixVectorAddOp == Class(<<Matrix, <<"j">>>>, <<Matrix>>)
BatchedReduceAddOp == Class(<<Matrix>>, <<<<"j">>>>)
MatrixTanhOp == Class(<<Matrix>>, <<Matrix>>)
MatrixTanhGradOp == Class(<<Matrix, Matrix, Matrix>>, <<Matrix>>)
MatrixSoftmaxOp == Class(<<Rows>>, <<Rows>>)
MatrixSoftmaxWithLossOp == Class(<<Rows, <<"i">>>>, <<Rows, <<"_">>>>)
MatrixSoftmaxWithLossGradOp == Class(<<<<"n">>, <<"n", "_">>>>, <<<<"n", "_">>>>)
DropoutOp == Class(<<Pairs, Pairs>>, <<Pairs>>)
ElementMulOp == Class(<<<<"b", "c">>, <<"b", "c">>>>, <<<<"b", "c">>>>)
ReluOp == Class(<<Pixels>>, <<Pixels>>)
ReluGradOp == Class(<<Pixels, Pixels>>, <<Pixels>>)
Conv2dOp == Class(<<Pool, Filter, <<"o">>>>, <<Image>>)
Conv2dGradOp == Class(<<Pool, Filter, Image>>, <<Pool, Filter, <<"o">>>>)
Conv2dWithActivationOp == Conv2dOp
(* Of the gradient of its bias the letter is c, and not o. *)
Conv2dWithActivationGradOp == Class(<<Pool, Filter, Image>>, <<Pool, Filter, <<"c">>>>)
LRNOp == Class(<<Pool>>, <<Pool>>)
LRNGradOp == Class(<<Pool, Pool>>, <<Pool>>)
MaxPoolOp == Class(<<Pool>>, <<Pool>>)
AvgPoolOp == Class(<<Pool>>, <<Pool>>)
MaxPoolGradOp == Class(<<Pool, Pool, Pool>>, <<Pool>>)
ArgMaxOp == Class(<<Rows>>, <<Rows>>)
AccuracyOp == Class(<<Rows, Rows>>, <<<<"_">>>>)
DebugOp == Class(<<<<"_", "_">>>>, <<<<"_", "_">>>>)

(* All classes with _einOp = 1 but TensorDescend and TensorAscend, which have no _einRep to read. *)
EinRep ==
  [MatrixMatrixMul |-> MatrixMatrixMulOp, MatrixVectorAdd |-> MatrixVectorAddOp,
   VectorMatrixMul |-> VectorMatrixMulOp, MatrixVectorMul |-> MatrixVectorMulOp,
   VectorVectorInnerProduct |-> VectorVectorInnerProductOp,
   ScalarMul |-> ScalarBinaryOp, ScalarAdd |-> ScalarBinaryOp, ScalarMax |-> ScalarBinaryOp,
   ScalarExp |-> ScalarUnaryOp, ScalarNeg |-> ScalarUnaryOp, ScalarDiv |-> ScalarUnaryOp,
   ScalarLog |-> ScalarUnaryOp, MatrixTranspose |-> MatrixTransposeOp,
   MatrixMatrixFC |-> MatrixMatrixFCOp, MatrixMatrixFCGrad |-> MatrixMatrixFCGradOp,
   MatrixMatrixFCBias |-> MatrixMatrixFCBiasOp, MatrixMatrixFCBiasGrad |-> MatrixMatrixFCBiasGradOp,
   Dropout |-> DropoutOp, ElementMul |-> ElementMulOp, LRN |-> LRNOp, LRNGrad |-> LRNGradOp,
   Conv2dWithActivation |-> Conv2dWithActivationOp,
   Conv2dWithActivationGrad |-> Conv2dWithActivationGradOp, Debug |-> DebugOp,
   BatchedReduceAdd |-> BatchedReduceAddOp, MatrixTanh |-> MatrixTanhOp,
   MatrixTanhGrad |-> MatrixTanhGradOp, MatrixSoftmax |-> MatrixSoftmaxOp,
   MatrixSoftmaxWithLoss |-> MatrixSoftmaxWithLossOp,
   MatrixSoftmaxWithLossGrad |-> MatrixSoftmaxWithLossGradOp,
   Relu |-> ReluOp, ReluGrad |-> ReluGradOp, Conv2d |-> Conv2dOp, Conv2dGrad |-> Conv2dGradOp,
   MaxPool |-> MaxPoolOp, AveragePool |-> AvgPoolOp, MaxPoolGrad |-> MaxPoolGradOp,
   ArgMax |-> ArgMaxOp, Accuracy |-> AccuracyOp]

(* Letters in the order of a map<char, int>. *)
Letters == <<"b", "c", "h", "i", "j", "k", "n", "o", "w">>

Reps(kind) == EinRep[kind].ins \o EinRep[kind].outs

(* How often a letter occurs; of a rep that is longer than its tensor the first axes count. *)
Count(kind, dims, letter) ==
  LET Occurrences(t) ==
        {i \in DOMAIN Reps(kind)[t] :
           Reps(kind)[t][i] = letter /\ (kind \in {"Relu", "ReluGrad"} => i <= Len(dims[t]))}
  IN  Cardinality(UNION {{t} \X Occurrences(t) : t \in DOMAIN Reps(kind)})

(* The axis that has the letter, or none. *)
Axis(rep, letter, none) ==
  IF letter \in ToSet(rep) THEN SelectInSeq(rep, LAMBDA l : l = letter) - 1 ELSE none

(* Mutant: a result that has no such axis is made by every process. *)
CutReplicated(kind, letter) ==
  [t \in DOMAIN Reps(kind) |-> Axis(Reps(kind)[t], letter, -1)]

Cut(kind, letter) ==
  [t \in DOMAIN EinRep[kind].ins |-> Axis(EinRep[kind].ins[t], letter, -1)]
    \o [t \in DOMAIN EinRep[kind].outs |-> Axis(EinRep[kind].outs[t], letter, -2)]

(* One strategy for each letter that occurs more than once. *)
generateStgy(kind, dims) ==
  LET shared == SelectSeq(Letters, LAMBDA l : Count(kind, dims, l) > 1)
  IN  [i \in DOMAIN shared |-> Cut(kind, shared[i])]

(* The letter of the batch; of a product whose operand is a transposed matrix the second. *)
generateDataParStgy(kind, cn) ==
  LET batch_dim == IF kind = "MatrixMatrixMul" /\ cn THEN 2 ELSE 1
  IN  Cut(kind, EinRep[kind].ins[1][batch_dim])

(* Every axis that is cut divides into p parts. *)
Legal(strategy, dims, p) ==
  /\ Len(strategy) <= Len(dims)
  /\ \A t \in DOMAIN strategy : strategy[t] >= 0 => dims[t][strategy[t] + 1] % p = 0

(* OpStrategy: the strategies of an op that are legal, in order. *)
OpStrategies(op, p) ==
  IF op.kind \notin DOMAIN EinRep THEN <<>>
  ELSE SelectSeq(generateStgy(op.kind, op.dims), LAMBDA s : Legal(s, op.dims, p))
=============================================================================
