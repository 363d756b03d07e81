------------------------------- MODULE MCCompiler -------------------------------
(***************************************************************************)
(* Networks to compile: all short chains of layers, and some with branches,*)
(* for inference, training and MKL-DNN; and Caffe2 networks to import.     *)
(***************************************************************************)
EXTENDS Compiler

CONSTANTS
  Depth,       \* layers in a chain
  Networks     \* names of the families of networks to compile

---------------------------------------------------------------------------
(* A user's program: tensors, then ops with their results, all by name. *)
T(name, nd, train) == [name |-> name, nd |-> nd, train |-> train]

L(kind, ins, outs) == [kind |-> kind, ins |-> ins, outs |-> outs]

Graph(tensors, layers) ==
  LET Push(s, t, parents) ==
        [graph |-> AddTensor(s.graph, <<t.name>>, [TensorWith(t.nd) EXCEPT !.train = t.train], parents),
         names |-> (t.name :> Next1(s.graph)) @@ s.names]
      first == FoldLeft(LAMBDA s, t : Push(s, t, <<>>), [graph |-> EmptyGraph, names |-> <<>>], tensors)
      Layer(s, l) ==
        LET op == Next1(s.graph)
        IN  FoldLeft(LAMBDA k, t : Push(k, t, <<op>>),
                     [graph |-> AddOp(s.graph, l.kind, <<l.kind>>, [i \in DOMAIN l.ins |-> s.names[l.ins[i]]], <<>>),
                      names |-> s.names], l.outs)
      made == FoldLeft(Layer, first, layers)
  IN  made.graph

(* A layer of a chain: what it needs beside its input x, and what it makes of nd axes. *)
Weights(kind, i) ==
  CASE kind = "Conv2d" -> <<T("w" \o ToString(i), 4, TRUE), T("b" \o ToString(i), 1, TRUE)>>
    [] kind = "MatrixMatrixFC" -> <<T("w" \o ToString(i), 2, TRUE)>>
    [] kind = "MatrixMatrixFCBias" -> <<T("w" \o ToString(i), 2, TRUE), T("b" \o ToString(i), 1, TRUE)>>
    [] kind = "BatchNormalization" -> [k \in 1 .. 4 |-> T("s" \o ToString(i) \o ToString(k), 1, FALSE)]
    [] OTHER -> <<>>

Spatial == {"Conv2d", "MaxPool", "AveragePool", "BatchNormalization", "LRN"}
Matrix == {"MatrixMatrixFC", "MatrixTanh", "MatrixSoftmax", "ArgMax"}

(* The axes after layers kinds on x of nd axes, 0 if they do not fit. *)
After(nd, kinds) ==
  FoldLeft(LAMBDA d, k : CASE k \in Spatial -> IF d = 4 THEN 4 ELSE 0
                           [] k \in Matrix -> IF d = 2 THEN 2 ELSE 0
                           [] k = "MatrixMatrixFCBias" -> IF d = 0 THEN 0 ELSE 2
                           [] OTHER -> d, nd, kinds)

Chain(nd, kinds, loss) ==
  LET Extra(i) == Weights(kinds[i], i)
      X(i) == "x" \o ToString(i)
      Reads(i) == <<X(i - 1)>> \o [k \in DOMAIN Extra(i) |-> Extra(i)[k].name]
      layers == [i \in DOMAIN kinds |->
                   L(kinds[i], Reads(i), <<T(X(i), After(nd, SubSeq(kinds, 1, i)), FALSE)>>)]
      head == IF loss THEN <<L("MatrixSoftmaxWithLoss", <<X(Len(kinds)), "label">>,
                               <<T("prob", 2, FALSE), T("loss", 1, FALSE)>>)>> ELSE <<>>
  IN  Graph(<<T(X(0), nd, FALSE)>> \o (IF loss THEN <<T("label", 1, FALSE)>> ELSE <<>>)
              \o FlattenSeq([i \in DOMAIN kinds |-> Extra(i)]), layers \o head)

Chains(kinds, nds, depth) ==
  {<<nd, c>> \in nds \X UNION {[1 .. k -> kinds] : k \in 1 .. depth} : After(nd, c) # 0}

Inference == [train |-> FALSE, mkldnn |-> FALSE, lowering |-> TRUE]
Training == [Inference EXCEPT !.train = TRUE]
WithMKLDNN == [Inference EXCEPT !.mkldnn = TRUE]

InferenceKinds == Spatial \cup Matrix \cup {"Relu", "MatrixMatrixFCBias"}
TrainingKinds == {"Conv2d", "MaxPool", "Relu", "MatrixTanh", "MatrixMatrixFC", "MatrixMatrixFCBias"}
MKLDNNKinds == InferenceKinds

---------------------------------------------------------------------------
(* Networks with branches. *)

(* Two paths that meet in a sum, of which one may be the input itself. *)
Residual ==
  Graph(<<T("x", 4, FALSE), T("w", 4, TRUE), T("b", 1, TRUE), T("v", 4, TRUE), T("c", 1, TRUE)>>,
        <<L("Conv2d", <<"x", "w", "b">>, <<T("y", 4, FALSE)>>),
          L("Relu", <<"y">>, <<T("r", 4, FALSE)>>),
          L("Conv2d", <<"r", "v", "c">>, <<T("z", 4, FALSE)>>),
          L("ElementAdd", <<"z", "r">>, <<T("s", 4, FALSE)>>),
          L("MaxPool", <<"s">>, <<T("p", 4, FALSE)>>)>>)

(* A classifier that is also measured. *)
Measured ==
  Graph(<<T("x", 2, FALSE), T("label", 1, FALSE), T("w", 2, TRUE), T("b", 1, TRUE)>>,
        <<L("MatrixMatrixFCBias", <<"x", "w", "b">>, <<T("y", 2, FALSE)>>),
          L("MatrixSoftmaxWithLoss", <<"y", "label">>, <<T("prob", 2, FALSE), T("loss", 1, FALSE)>>),
          L("ArgMax", <<"prob">>, <<T("top", 2, FALSE)>>)>>)

(* One weight for two layers. *)
Tied ==
  Graph(<<T("x", 2, FALSE), T("w", 2, FALSE)>>,
        <<L("MatrixMatrixFC", <<"x", "w">>, <<T("y", 2, FALSE)>>),
          L("MatrixTanh", <<"y">>, <<T("t", 2, FALSE)>>),
          L("MatrixMatrixFC", <<"t", "w">>, <<T("z", 2, FALSE)>>)>>)

(* A single op on matrices. *)
LoneKinds == {"MatrixMatrixMul", "ElementAdd", "ElementSub", "ElementMul", "ElementDiv", "BatchedReduceAdd"}

Lone(kind) ==
  LET sums == kind = "BatchedReduceAdd"
  IN  Graph(<<T("x", 2, FALSE), T("y", 2, FALSE)>>,
            <<L(kind, IF sums THEN <<"x">> ELSE <<"x", "y">>, <<T("z", IF sums THEN 1 ELSE 2, FALSE)>>)>>)

(* One input for two convolutions. *)
Forked ==
  Graph(<<T("x", 4, FALSE), T("w", 4, TRUE), T("b", 1, TRUE), T("v", 4, TRUE), T("c", 1, TRUE)>>,
        <<L("Conv2d", <<"x", "w", "b">>, <<T("y", 4, FALSE)>>),
          L("Conv2d", <<"x", "v", "c">>, <<T("z", 4, FALSE)>>),
          L("ElementAdd", <<"y", "z">>, <<T("s", 4, FALSE)>>)>>)

(* LeNet, as test/engine trains it. *)
LeNet(loss) ==
  Chain(4, <<"Conv2d", "MaxPool", "Conv2d", "MaxPool", "MatrixMatrixFCBias">>, loss)

---------------------------------------------------------------------------
(* Caffe2 networks. *)
P(type, ins, out) == [type |-> type, ins |-> ins, out |-> out]
F(name, nd) == [name |-> name, nd |-> nd, zeroed |-> FALSE]

Files(tensors, ops) == [tensors |-> tensors, ops |-> ops]

Data == <<F("data", 4)>>
Filters == <<F("data", 4), F("w", 4), F("b", 1), F("v", 4), F("c", 1), F("u", 2), F("d", 1),
             F("k", 2), F("e", 1)>>

Statistics == <<F("w", 4), F("b", 1), F("s", 1), F("c", 1), F("m", 1), F("v", 1)>>

(* Rectified in place, and a product after the last pool. *)
Plain ==
  <<P("Conv", <<"data", "w", "b">>, "x"), P("Relu", <<"x">>, "x"), P("MaxPool", <<"x">>, "p"),
    P("FC", <<"p", "u", "d">>, "y"), P("Softmax", <<"y">>, "softmax")>>

(* A shortcut, summed and rectified in place. *)
Shortcut ==
  <<P("Conv", <<"data", "w", "b">>, "x"), P("Conv", <<"x", "v", "c">>, "y"),
    P("Sum", <<"y", "x">>, "y"), P("Relu", <<"y">>, "y"), P("AveragePool", <<"y">>, "p"),
    P("FC", <<"p", "u", "d">>, "z")>>

Normalised ==
  <<P("Conv", <<"data", "w", "b">>, "x"), P("SpatialBN", <<"x", "s", "c", "m", "v">>, "n"),
    P("Relu", <<"n">>, "n")>>

(* The pool reads x before it is rectified in place. *)
Early ==
  <<P("Conv", <<"data", "w", "b">>, "x"), P("MaxPool", <<"x">>, "p"), P("Relu", <<"x">>, "x"),
    P("Sum", <<"p", "x">>, "y")>>

(* The sum with x is of a later level than the op that rectifies x in place. *)
Late ==
  <<P("Conv", <<"data", "w", "b">>, "x"), P("AveragePool", <<"x">>, "p"), P("Sum", <<"p", "x">>, "s"),
    P("Relu", <<"x">>, "x"), P("Sum", <<"s", "x">>, "y")>>

(* The product that reads x is of the level of the op that rectifies x, but is pushed later. *)
LateProduct ==
  <<P("FC", <<"data", "u", "d">>, "x"), P("FC", <<"x", "k", "e">>, "y"), P("Relu", <<"x">>, "x"),
    P("Sum", <<"y", "x">>, "z")>>

(* The sum that replaces the blob x is of an earlier level than the convolution that made it. *)
Replaced ==
  <<P("Conv", <<"data", "w", "b">>, "y"), P("Conv", <<"y", "v", "c">>, "x"), P("Relu", <<"x">>, "r"),
    P("Sum", <<"data", "data">>, "x")>>

Dropped ==
  <<P("Conv", <<"data", "w", "b">>, "x"), P("Dropout", <<"x">>, "z"), P("MaxPool", <<"z">>, "p"),
    P("Relu", <<"x">>, "x")>>

(* The importer takes the one op and not the other. *)
Foreign == <<P("Dropout", <<"data">>, "x"), P("LRN", <<"x">>, "y")>>

---------------------------------------------------------------------------
Families ==
  {"inference", "training", "mkldnn", "branches", "import"} \cap Networks

Compile(family) ==
  CASE family = "inference" ->
         \E c \in Chains(InferenceKinds, {2, 4}, Depth) :
           Start(Chain(c[1], c[2], FALSE), <<>>, NoNet, Inference)
    [] family = "training" ->
         \/ \E c \in Chains(TrainingKinds, {2, 4}, Depth) :
              /\ After(c[1], c[2]) = 2
              /\ Start(Chain(c[1], c[2], TRUE), <<>>, NoNet, Training)
         \/ Start(LeNet(TRUE), <<>>, NoNet, Training)
    [] family = "mkldnn" ->
         \/ \E c \in Chains(MKLDNNKinds, {2, 4}, Depth) :
              Start(Chain(c[1], c[2], FALSE), <<>>, NoNet, WithMKLDNN)
         \/ Start(LeNet(FALSE), <<>>, NoNet, WithMKLDNN)
    [] family = "branches" ->
         \/ \E h \in {Residual, Forked, Tied} \cup {Lone(kind) : kind \in LoneKinds} :
              \E c \in {Inference, WithMKLDNN} : Start(h, <<>>, NoNet, c)
         \/ \E c \in {Inference, Training, WithMKLDNN} : Start(Measured, <<>>, NoNet, c)
    [] family = "import" ->
         \/ \E ops \in {Plain, Shortcut, Early, Late, LateProduct, Replaced, Dropped} :
              \E c \in {Inference, WithMKLDNN} : Start(EmptyGraph, Data, Files(Filters, ops), c)
         \/ \E c \in {Inference, WithMKLDNN} :
              Start(EmptyGraph, Data, Files(Statistics, Normalised), c)
         \/ Start(EmptyGraph, Data, Files(<<>>, Foreign), Inference)

Init == \E family \in Families : Compile(family)

Spec == Init /\ [][CompilerNext]_compilerVars
=============================================================================
