---------------------------- MODULE Caffe2Importer ----------------------------
(***************************************************************************)
(* Caffe2Importer: the graph of a Caffe2 network.  Blobs of Caffe2 are     *)
(* NCHW and an op may overwrite one; tensors here are NHWC, and a name     *)
(* stands for the node that wrote it last.                                 *)
(***************************************************************************)
EXTENDS PassManager

VARIABLES
  names,   \* name_tNode_map_: a name to its newest node
  net,     \* the files: tensors (name, axes, zeroed) and ops (type, names of inputs and output)
  filled,  \* tensors loaded so far
  loaded   \* ops loaded so far

importVars == <<names, net, filled, loaded>>

(* Loading goes on. *)
Loading == Due("import") /\ UNCHANGED <<source, config, plan, pass, todo, failed>>

(* Mutant: a name that stands for a node is kept, as map::insert does. *)
NamesKept(out, h) == g' = h /\ names' = names @@ (out :> Len(h.node))

(* h is the graph with a new node last: it goes by the name of the output. *)
Names(out, h) == g' = h /\ names' = (out :> Len(h.node)) @@ names

---------------------------------------------------------------------------
(* The constructor: the user's own nodes first. *)
ImportOf(nodes) ==
  [graph |-> FoldLeft(LAMBDA h, t : AddTensor(h, <<t.name>>, [TensorWith(t.nd) EXCEPT !.zeroed = t.zeroed], <<>>),
                      EmptyGraph, nodes),
   names |-> [n \in {nodes[i].name : i \in DOMAIN nodes} |->
                CHOOSE i \in DOMAIN nodes : nodes[i].name = n]]

(* loadTensor; a name the user has a node for is left to the user. *)
loadTensor ==
  /\ Loading /\ filled < Len(net.tensors)
  /\ LET t == net.tensors[filled + 1]
     IN  IF t.name \in DOMAIN names THEN UNCHANGED <<g, names>>
         ELSE Names(t.name, AddTensor(g, <<t.name>>, [TensorWith(t.nd) EXCEPT !.zeroed = t.zeroed], <<>>))
  /\ filled' = filled + 1
  /\ UNCHANGED <<net, loaded>>

---------------------------------------------------------------------------
(* loadOp: the next op, of one of the types; its i-th input. *)
OpsLeft == filled = Len(net.tensors) /\ loaded < Len(net.ops)

Proto == net.ops[loaded + 1]

NextOp(types) ==
  /\ Loading /\ OpsLeft /\ Proto.type \in types
  /\ loaded' = loaded + 1
  /\ UNCHANGED <<net, filled>>

Input(i) == names[Proto.ins[i]]

(* An op that makes one new tensor, which is pushed before it. *)
WithOp(h, kind, name, operands, result) ==
  LET op == Next1(h)
      read == exlinkUpperNode(NewNode(h, kind, <<name>>, NoTensor), op, operands)
  IN  pushOpNode(AddTensor(read, <<Proto.out>>, result, <<op>>), op)

(* A transposed copy of x, in the given layout: node Next1(h) + 1. *)
Transposed(h, x, perm, layout) ==
  LET op == Next1(h)
      name == Append(h.node[x].name, "_T")
  IN  AddTensor(WithShuffle(AddOp(h, "Transpose", <<"op_">> \o name, <<x>>, <<>>), perm),
                name, [TensorWith(TensorOf(h, x).nd) EXCEPT !.layout = layout], <<op>>)

(* The filter is NCHW; a convolution without a bias is given one that nothing initialises. *)
loadConv ==
  /\ NextOp({"Conv"})
  /\ LET given == Len(Proto.ins) = 3
         filter == Input(2)
         withBias == IF given THEN g ELSE AddTensor(g, <<"conv_bias">>, TensorWith(1), <<>>)
         bias == IF given THEN Input(3) ELSE Next1(g)
         tagged == [withBias EXCEPT !.tensor[g.node[filter].tensor].layout = "nchw"]
         trans == Transposed(tagged, filter, "NCHW2NHWC", "nhwc")
     IN  Names(Proto.out,
               WithOp(trans, "Conv2d", "conv", <<Input(1), Len(trans.node), bias>>, TensorWith(4)))

loadBatchNorm ==
  /\ NextOp({"SpatialBN"})
  /\ Names(Proto.out,
           WithOp(g, "BatchNormalization", "spatialbn", [i \in 1 .. 5 |-> Input(i)],
                  TensorWith(TensorOf(g, Input(1)).nd)))

(* The result of an op that may run in place is of the Tensor that has its name already. *)
ResultTensor(h) ==
  LET out == Proto.out
      n == Len(h.node)
  IN  IF out \in DOMAIN names THEN [h EXCEPT !.node[n].tensor = h.node[names[out]].tensor] ELSE h

loadRelu ==
  /\ NextOp({"Relu"})
  /\ Names(Proto.out,
           ResultTensor(WithOp(g, "Relu", "relu", <<Input(1)>>, TensorWith(TensorOf(g, Input(1)).nd))))

loadSum ==
  /\ NextOp({"Sum"})
  /\ Names(Proto.out,
           ResultTensor(WithOp(g, "ElementAdd", "sum", <<Input(1), Input(2)>>,
                               TensorWith(TensorOf(g, Input(1)).nd))))

loadPool ==
  /\ NextOp({"MaxPool", "AveragePool"})
  /\ Names(Proto.out,
           WithOp(g, Proto.type, Proto.type, <<Input(1)>>, TensorWith(4)))

(* The weight is transposed, and an input of four axes is put back into the order NCHW. *)
loadFC ==
  /\ NextOp({"FC"})
  /\ LET weight == Input(2)
         w == Transposed(g, weight, "T", "default")
         x == IF TensorOf(g, Input(1)).nd = 4 THEN Transposed(w, Input(1), "NHWC2NCHW", "nhwc") ELSE w
         in == IF x = w THEN Input(1) ELSE Len(x.node)
     IN  Names(Proto.out,
               WithOp(x, "MatrixMatrixFCBias", "fc", <<in, Len(w.node), Input(3)>>, TensorWith(2)))

loadSoftmax ==
  /\ NextOp({"Softmax"})
  /\ Names(Proto.out,
           WithOp(g, "MatrixSoftmax", "softmax", <<Input(1)>>, TensorWith(TensorOf(g, Input(1)).nd)))

loadDropout ==
  /\ NextOp({"Dropout"})
  /\ LET nd == TensorOf(g, Input(1)).nd
         mask == AddTensor(g, <<"dropout_mask">>, TensorWith(nd), <<>>)
     IN  Names(Proto.out,
               WithOp(mask, "Dropout", "dropout", <<Input(1), Next1(g)>>, TensorWith(nd)))

(* checkSupported: exit. *)
Unsupported ==
  /\ Due("import") /\ OpsLeft
  /\ Proto.type \notin {"Conv", "SpatialBN", "Relu", "Sum", "MaxPool", "AveragePool", "FC",
                               "Softmax", "Dropout"}
  /\ Fail
  /\ UNCHANGED <<g, importVars>>

(* The network is loaded, and is what the engine has to compile. *)
EndImport ==
  /\ Due("import") /\ filled = Len(net.tensors) /\ loaded = Len(net.ops)
  /\ plan' = Tail(plan) /\ source' = g
  /\ UNCHANGED <<g, config, pass, todo, failed, importVars>>

ImportNext ==
  \/ loadTensor \/ loadConv \/ loadBatchNorm \/ loadRelu \/ loadSum \/ loadPool \/ loadFC
  \/ loadSoftmax \/ loadDropout \/ Unsupported \/ EndImport
=============================================================================
