---------------------------- MODULE MCStrategySearch ----------------------------
(***************************************************************************)
(* Single ops of every parallelizable kind, and SGD, which is not one,     *)
(* labelled in every way but the genetic one; a pair of ops for the        *)
(* genetic search.                                                         *)
(***************************************************************************)
EXTENDS StrategySearch

Win(k, s, p) == [kernel |-> <<k, 1>>, stride |-> <<s, 1>>, pad |-> <<p, 0>>]

Unit == Win(1, 1, 0)

O(kind, dims, win) == [kind |-> kind, dims |-> dims, win |-> win, cn |-> FALSE]

(* Ops on matrices of n rows and m columns, and an inner axis of length l; of a product of a
   transposed matrix the inner axis is the batch. *)
Matrices(n, m, l) ==
  {O("MatrixMatrixMul", <<<<n, l>>, <<l, m>>, <<n, m>>>>, Unit),
   [O("MatrixMatrixMul", <<<<n, l>>, <<l, m>>, <<n, m>>>>, Unit) EXCEPT !.cn = TRUE],
   O("MatrixVectorAdd", <<<<n, m>>, <<m>>, <<n, m>>>>, Unit),
   O("BatchedReduceAdd", <<<<n, m>>, <<m>>>>, Unit),
   O("MatrixTranspose", <<<<n, m>>, <<m, n>>>>, Unit),
   O("MatrixTanh", <<<<n, m>>, <<n, m>>>>, Unit),
   O("MatrixTanhGrad", [t \in 1 .. 4 |-> <<n, m>>], Unit),
   O("MatrixSoftmax", <<<<n, m>>, <<n, m>>>>, Unit),
   O("MatrixSoftmaxWithLoss", <<<<n, m>>, <<n>>, <<n, m>>, <<1>>>>, Unit),
   O("MatrixSoftmaxWithLossGrad", <<<<n>>, <<n, m>>, <<n, m>>>>, Unit),
   O("Relu", <<<<n, m>>, <<n, m>>>>, Unit),
   O("ReluGrad", [t \in 1 .. 3 |-> <<n, m>>], Unit),
   O("ArgMax", <<<<n, m>>, <<n, 1>>>>, Unit),
   O("Accuracy", <<<<n, 1>>, <<n, 1>>, <<2>>>>, Unit),
   O("SGD", [t \in 1 .. 4 |-> <<n, m>>], Unit)}

(* Ops on matrices and vectors that no code is generated for. *)
Unemitted(n, m, l) ==
  {O("MatrixMatrixFC", <<<<n, l>>, <<l, m>>, <<n, m>>>>, Unit),
   O("MatrixMatrixFCGrad", <<<<n, l>>, <<l, m>>, <<n, m>>, <<n, l>>, <<l, m>>>>, Unit),
   O("MatrixMatrixFCBias", <<<<n, l>>, <<l, m>>, <<m>>, <<n, m>>>>, Unit),
   O("MatrixMatrixFCBiasGrad",
     <<<<n, l>>, <<l, m>>, <<m>>, <<n, m>>, <<n, l>>, <<l, m>>, <<m>>>>, Unit),
   O("Dropout", [t \in 1 .. 3 |-> <<n, m>>], Unit),
   O("ElementMul", [t \in 1 .. 3 |-> <<n, m>>], Unit),
   O("VectorMatrixMul", <<<<n>>, <<n, m>>, <<m>>>>, Unit),
   O("MatrixVectorMul", <<<<n, m>>, <<m>>, <<n>>>>, Unit),
   O("VectorVectorInnerProduct", <<<<n>>, <<n>>, <<>>>>, Unit),
   O("Debug", <<<<n, m>>, <<n, m>>>>, Unit)}

Scalars ==
  {O(kind, <<<<>>, <<>>, <<>>>>, Unit) : kind \in {"ScalarMul", "ScalarAdd", "ScalarMax"}}
    \cup {O(kind, <<<<>>, <<>>>>, Unit) : kind \in {"ScalarExp", "ScalarNeg", "ScalarDiv", "ScalarLog"}}

(* Ops on images of height h and width 2, of c channels, that make k channels. *)
Images(n, h, c, k, win) ==
  LET in == <<n, h, 2, c>>
      f == <<k, win.kernel[1], 1, c>>
      out == OutDim(in, win, k)
      pooled == OutDim(in, win, c)
  IN  {O("Conv2d", <<in, f, <<k>>, out>>, win),
       O("Conv2dGrad", <<in, f, out, in, f, <<k>>>>, win),
       O("MaxPool", <<in, pooled>>, win),
       O("AveragePool", <<in, pooled>>, win),
       O("MaxPoolGrad", <<in, pooled, pooled, in>>, win),
       O("Relu", <<in, in>>, win),
       O("ReluGrad", <<in, in, in>>, win)}

(* Ops on images that no code is generated for. *)
UnemittedImages(n, c, k) ==
  LET in == <<n, 2, 2, c>>
      f == <<k, 1, 1, c>>
      out == <<n, 2, 2, k>>
  IN  {O("Conv2dWithActivation", <<in, f, <<k>>, out>>, Unit),
       O("Conv2dWithActivationGrad", <<in, f, out, in, f, <<k>>>>, Unit),
       O("LRN", <<in, in>>, Unit), O("LRNGrad", <<in, in, in>>, Unit)}

(* With three rows or images the batch does not divide, but other axes may. *)
Single ==
  UNION {Matrices(s[1], s[2], s[3]) \cup Unemitted(s[1], s[2], s[3]) :
           s \in {<<2, 2, 2>>, <<4, 3, 2>>, <<2, 4, 3>>, <<3, 2, 2>>}}
    \cup UNION {Images(n, 2, c, 2, Unit) \cup UnemittedImages(n, c, 2) : n \in {2, 3}, c \in {2, 3}}
    \cup Scalars

Windowed ==
  UNION {Images(2, h, 2, 2, Win(k[1], k[2], k[3])) :
           h \in {3, 4}, k \in {<<2, 1, 0>>, <<2, 2, 0>>, <<3, 1, 1>>, <<3, 2, 1>>}}

(* Two ops of two strategies each, after one of none. *)
Pair ==
  <<O("SGD", [t \in 1 .. 4 |-> <<2, 2>>], Unit),
    O("MatrixMatrixMul", <<<<2, 3>>, <<3, 2>>, <<2, 2>>>>, Unit),
    O("Relu", <<<<2, 2>>, <<2, 2>>>>, Unit)>>

(* A data parallel label is not asked whether it is legal, and of three rows it is not. *)
Kinds == {[ops |-> <<op>>, mode |-> m] : op \in Single, m \in Modes \ {"genetic"}}

Windows == {[ops |-> <<op>>, mode |-> m] : op \in Windowed, m \in Modes \ {"genetic"}}

All == Kinds \cup Windows \cup {[ops |-> Pair, mode |-> "genetic"]}
=============================================================================
