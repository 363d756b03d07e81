----------------------------- MODULE SerialProgram -----------------------------
(***************************************************************************)
(* The program Codegen generates for one process, as it runs: one round of *)
(* its loop, over buffers that hold anything but for those it initialises. *)
(* The content of a buffer is a term of module Values.                     *)
(***************************************************************************)
EXTENDS MemoryPlan, Emission, Values

VARIABLES
  pointer,  \* the variable of each Tensor
  memory,   \* the content of each buffer, by offset
  pc        \* statements executed

runVars == <<pointer, memory, pc>>

---------------------------------------------------------------------------
(* What a kernel makes of the contents x of its operands. *)
Computed(fn, perm, x) ==
  CASE fn = "matrixMatrixMul" -> <<Mul(x[1], x[2])>>
    [] fn = "batchedadd" -> <<Plus(x[1], x[2])>>
    [] fn = "batchedreduceadd" -> <<Term("RowSums", x)>>
    [] fn = "vecAdd" -> <<Term("ElementAdd1", x)>>
    [] fn = "conv2d" -> <<Term("Conv2d1", x)>>
    [] fn = "conv2dGrad" -> [i \in 1 .. 3 |-> Term("Conv2dGrad" \o ToString(i), <<x[2], x[3], x[1]>>)]
    [] fn = "batchnormalization" -> <<Term("BatchNormalization1", <<x[1], x[4], x[5], x[2], x[3]>>)>>
    [] fn = "maxpool" -> <<Term("MaxPool1", x)>>
    [] fn = "avgpool" -> <<Term("AveragePool1", x)>>
    [] fn = "maxpoolGrad" -> <<Term("MaxPoolGrad1", <<x[2], x[1]>>)>>
    [] fn = "relu" -> <<Term("Relu1", x)>>
    [] fn = "reluGrad" -> <<Term("ReluGrad1", x)>>
    [] fn = "transpose" -> <<Shuffle(perm, x[1])>>
    [] fn = "matrixTanh" -> <<Term("MatrixTanh1", x)>>
    [] fn = "matrixTanhGrad" -> <<IF x[1].f = "MatrixTanh1"
                                  THEN Term("MatrixTanhGrad1", <<x[1].args[1], x[2]>>) ELSE Term("wrong", x)>>
    [] fn = "matrixSoftmax" -> <<Term("MatrixSoftmax1", x)>>
    [] fn = "matrixSoftmaxGrad" -> <<Term("MatrixSoftmaxGrad1", x)>>
    [] fn = "matrixSoftmaxWithLoss" ->
         <<Term("MatrixSoftmaxWithLoss1", x), Term("MatrixSoftmaxWithLoss2", x)>>
    [] fn = "matrixSoftmaxWithLossGrad" -> <<Term("MatrixSoftmaxWithLossGrad1", <<x[2], x[1]>>)>>
    [] fn = "argMax" -> <<Term("ArgMax1", x)>>
    [] fn = "sgd" -> <<Term("SGD1", x), Term("SGD2", x)>>

(* accuracy counts on from what its result holds. *)
Counted(old, x) ==
  <<IF old = Term("0", <<>>) THEN Term("Accuracy1", x) ELSE Plus(old, Term("Accuracy1", x))>>

---------------------------------------------------------------------------
(* MKL-DNN: a memory is read, and written, in the layout its tag says. *)

PrimitiveOp ==
  [sum |-> "ElementAdd1", convolution |-> "Conv2d1", pooling_max |-> "MaxPool1",
   pooling_avg |-> "AveragePool1", eltwise_relu |-> "Relu1", softmax |-> "MatrixSoftmax1",
   batch_normalization |-> "Normalised by the batch"]

(* Dimensions in the order NHWC do not fit the tag nhwc; these two put them in the order NCHW. *)
Shuffling == {"convolution", "reorder"}

Read(fn, tag, x) ==
  CASE tag = "nchw" -> Shuffle("NCHW2NHWC", x)
    [] tag = "cn" -> Shuffle("T", x)
    [] tag = "nhwc" /\ fn \notin Shuffling -> Term("misread", <<x>>)
    [] OTHER -> x

Stored(tag, y) ==
  CASE tag = "nchw" -> Shuffle("NHWC2NCHW", y) [] tag = "cn" -> Shuffle("T", y) [] OTHER -> y

(* These write their result in the layout of their operand. *)
KeepLayout == {"eltwise_relu", "softmax", "batch_normalization"}

PrimitiveComputed(fn, tags, x) ==
  LET read == [i \in DOMAIN x |-> Read(fn, tags[i], x[i])]
      last == IF fn \in KeepLayout THEN tags[1] ELSE tags[Len(tags)]
  IN  <<CASE fn = "inner_product" -> Plus(Mul(x[1], Shuffle("T", x[2])), x[3])
          [] fn = "reorder" -> Stored(last, read[1])
          [] OTHER -> Stored(last, Term(PrimitiveOp[fn], read))>>

---------------------------------------------------------------------------
(* emitTensorAddresses and emitTensorInitializations. *)
StartRun ==
  /\ Due("run")
  /\ Enter("run", <<>>)
  /\ pointer' = addr
  /\ memory' = [a \in {addr[t] : t \in DOMAIN addr} |-> Leaf(g, CHOOSE t \in DOMAIN addr : addr[t] = a)]
  /\ pc' = 0
  /\ UNCHANGED g

(* The next statement is c. *)
Reached(c) == ~failed /\ pass = "run" /\ pc < Len(calls) /\ c = calls[pc + 1]

(* The results of statement c. *)
Results(c) ==
  LET x == [i \in DOMAIN c.ins |-> memory[pointer[c.ins[i]]]]
  IN  CASE c.fn = "accuracy" -> Counted(memory[pointer[c.outs[1]]], x)
        [] c.tags # <<>> -> PrimitiveComputed(c.fn, c.tags, x)
        [] OTHER -> Computed(c.fn, c.perm, x)

(* A Reshape makes the variable of its result point to its operand. *)
Alias(c) ==
  /\ Reached(c) /\ c.fn = "alias"
  /\ pointer' = [pointer EXCEPT ![c.outs[1]] = pointer[c.ins[1]]]
  /\ pc' = pc + 1
  /\ UNCHANGED <<passVars, memory>>

Execute(c) ==
  /\ Reached(c) /\ c.fn # "alias"
  /\ LET results == Results(c)
     IN  memory' = FoldLeft(LAMBDA m, i : [m EXCEPT ![pointer[c.outs[i]]] = results[i]],
                            memory, [i \in DOMAIN c.outs |-> i])
  /\ pc' = pc + 1
  /\ UNCHANGED <<passVars, pointer>>

EndRun == pc = Len(calls) /\ Leave("run") /\ UNCHANGED <<g, runVars>>

SerialProgramNext ==
  \/ StartRun \/ EndRun
  \/ \E c \in ToSet(calls) : Alias(c) \/ Execute(c)
=============================================================================
