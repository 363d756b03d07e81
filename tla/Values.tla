--------------------------------- MODULE Values ---------------------------------
(***************************************************************************)
(* What a network means, apart from how it is compiled: the value of every *)
(* tensor as a term over the tensors that no op makes, and the gradient of *)
(* every tensor by the chain rule.  Four-dimensional values are NHWC.      *)
(***************************************************************************)
EXTENDS IRGraph

Term(f, args) == [f |-> f, args |-> args]

(* A shuffle of the axes; two that are inverse cancel. *)
InverseOf == [NHWC2NCHW |-> "NCHW2NHWC", NCHW2NHWC |-> "NHWC2NCHW", T |-> "T"]

Shuffle(perm, x) == IF x.f = InverseOf[perm] THEN x.args[1] ELSE Term(perm, <<x>>)

Mul(x, w) == Term("Mul", <<x, w>>)

Plus(x, y) == Term("Plus", <<x, y>>)

(* The initial value of tensor t. *)
Leaf(g, t) == Term(IF g.tensor[t].zeroed THEN "0" ELSE ToString(t), <<>>)

(***************************************************************************)
(* The out-th result of an op on operands a.  A reshape changes the view   *)
(* and not the value.  A gradient op that is also given an output has the  *)
(* gradient it should if that is the output for its input.                 *)
(***************************************************************************)
Meaning(kind, perm, out, a) ==
  LET x == a[1]
      dy == a[Len(a)]
      Checked(f) == IF a[2] = Term(f \o "1", <<a[1]>>)
                    THEN Term(f \o "Grad1", <<a[1], dy>>) ELSE Term("wrong", <<>>)
  IN  CASE kind = "Transpose" -> Shuffle(perm, a[1])
        [] kind = "MatrixTranspose" -> Shuffle("T", a[1])
        [] kind = "Reshape" -> x
        [] kind \in {"MatrixMatrixFC", "MatrixMatrixMul"} -> Mul(x, a[2])
        [] kind = "MatrixMatrixFCBias" -> Plus(Mul(x, a[2]), a[3])
        [] kind = "MatrixVectorAdd" -> Plus(a[1], a[2])
        [] kind = "BatchedReduceAdd" -> Term("ColumnSums", <<a[1]>>)
        [] kind \in {"MatrixMatrixFCGrad", "MatrixMatrixFCBiasGrad"} ->
             <<Mul(dy, Shuffle("T", a[2])), Mul(Shuffle("T", x), dy), Term("ColumnSums", <<dy>>)>>[out]
        [] kind = "MatrixTanhGrad" -> Checked("MatrixTanh")
        [] kind = "MaxPoolGrad" -> Checked("MaxPool")
        [] OTHER -> Term(kind \o ToString(out), a)

(* The values of all tensors of g. *)
Value(g) ==
  LET Result(v, op) ==
        LET args == [i \in DOMAIN Par(g, op) |-> v[Par(g, op)[i]]]
        IN  [n \in ToSet(Chi(g, op)) |->
               Meaning(Kind(g, op), g.node[op].perm,
                       SelectInSeq(Chi(g, op), LAMBDA m : m = n), args)] @@ v
  IN  FoldLeft(Result,
               [n \in {t \in ToSet(g.tensors) : Par(g, t) = <<>>} |-> Leaf(g, g.node[n].tensor)],
               SelectSeq(Refresh(g).topo, LAMBDA n : IsOp(g, n)))

(***************************************************************************)
(* The chain rule: what the gradient dy of the result of an op adds to the *)
(* gradient of its i-th operand.  A loss starts the gradients itself.      *)
(***************************************************************************)
Back(kind, i, a, dy) ==
  CASE kind \in {"MatrixMatrixFC", "MatrixMatrixFCBias"} ->
         <<Mul(dy, Shuffle("T", a[2])), Mul(Shuffle("T", a[1]), dy),
           Term("ColumnSums", <<dy>>)>>[i]
    [] kind \in {"MatrixTanh", "MaxPool", "Relu"} -> Term(kind \o "Grad1", <<a[1], dy>>)
    [] kind = "Conv2d" -> Term("Conv2dGrad" \o ToString(i), <<a[1], a[2], dy>>)
    [] kind = "MatrixSoftmaxWithLoss" ->
         Term("MatrixSoftmaxWithLossGrad1", <<a[2], Term("MatrixSoftmaxWithLoss1", a)>>)

(* The gradients of a network, from its losses up: of one reader, or the sum over the readers. *)
Gradients(g) ==
  LET v == Value(g)
      Add(grads, n, term) == IF n \in DOMAIN grads THEN [grads EXCEPT ![n] = Plus(@, term)]
                             ELSE (n :> term) @@ grads
      Through(grads, op) ==
        LET args == [i \in DOMAIN Par(g, op) |-> v[Par(g, op)[i]]]
            loss == Kind(g, op) = "MatrixSoftmaxWithLoss"
            dy == IF loss THEN Term("1", <<>>) ELSE grads[Chi(g, op)[1]]
        IN  FoldLeft(LAMBDA h, i : Add(h, Par(g, op)[i],
                                       Back(Kind(g, op), i, args, dy)),
                     grads, [i \in 1 .. (IF loss THEN 1 ELSE Len(args)) |-> i])
  IN  FoldLeft(Through, <<>>, SelectSeq(Reverse(Refresh(g).topo), LAMBDA n : IsOp(g, n)))

---------------------------------------------------------------------------
(* A Caffe2 network, whose ops write blobs one after the other.  Its blobs *)
(* are NCHW: what is computed of NHWC values is a shuffle of theirs.       *)
BlobOp(type, x) ==
  CASE type = "Conv" -> Term("Conv2d1", <<x[1], Shuffle("NCHW2NHWC", x[2]), x[3]>>)
    [] type = "SpatialBN" -> Term("BatchNormalization1", x)
    [] type = "Sum" -> Term("ElementAdd1", x)
    [] type = "FC" -> Plus(Mul(x[1], Shuffle("T", x[2])), x[3])
    [] type = "Softmax" -> Term("MatrixSoftmax1", x)
    [] OTHER -> Term(type \o "1", x)

(* The blobs after all ops of net, of which one may be a Dropout; the tensors of net, the mask and
   the user's nodes are the leaves of g. *)
BlobValue(g, net) ==
  LET leaves == {n \in ToSet(g.tensors) : Par(g, n) = <<>>}
      Start(name) == Leaf(g, CHOOSE n \in leaves : g.node[n].name = <<name>>)
      Write(v, op) ==
        LET x == [i \in DOMAIN op.ins |-> v.blob[op.ins[i]]]
            flat == op.type = "FC" /\ v.nd[op.ins[1]] = 4
            nd == CASE op.type \in {"FC"} -> 2 [] OTHER -> v.nd[op.ins[1]]
            y == CASE flat -> [x EXCEPT ![1] = Shuffle("NHWC2NCHW", @)]
                   [] op.type = "Dropout" -> Append(x, v.blob["dropout_mask"])
                   [] OTHER -> x
        IN  [blob |-> (op.out :> BlobOp(op.type, y)) @@ v.blob, nd |-> (op.out :> nd) @@ v.nd]
      named == {n \in leaves : Len(g.node[n].name) = 1}
      first == [blob |-> [name \in {g.node[n].name[1] : n \in named} |-> Start(name)],
                nd |-> [name \in {g.node[n].name[1] : n \in named} |->
                          TensorOf(g, CHOOSE n \in named : g.node[n].name = <<name>>).nd]]
  IN  FoldLeft(Write, first, net.ops).blob
=============================================================================
