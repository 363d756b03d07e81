--------------------------- MODULE MCParallelProgram ---------------------------
(***************************************************************************)
(* The programs of the training graph of a matrix product, for every       *)
(* choice of legal strategies, and of two layers, for some.                *)
(***************************************************************************)
EXTENDS ParallelProgram

Op(ins, outs, stgy) == [ins |-> ins, outs |-> outs, stgy |-> stgy, sgd |-> FALSE]

SGD(ins, outs) == [ins |-> ins, outs |-> outs, stgy |-> <<>>, sgd |-> TRUE]

Graph(nt, training, ops, c) ==
  [nt |-> nt, ops |-> ops, training |-> training, comm |-> c.comm,
   decentralized |-> c.decentralized, benchmark |-> c.benchmark]

Product == {<<>>, <<0, -1, 0>>, <<-1, 0, -2>>, <<-1, 1, 1>>}
GradX == {<<>>, <<0, -1, 0>>, <<1, 1, -2>>, <<-1, 0, 1>>}
GradW == {<<>>, <<0, 0, -2>>, <<1, -1, 0>>, <<-1, 1, 1>>}

(* x1, w2, y3, dy4, dw5, momentum6, w'7; dy is the gradient of y. *)
Training(configs) ==
  {Graph(7, {2},
         <<Op(<<1, 2>>, <<3>>, p), Op(<<3, 2>>, <<4>>, x), Op(<<1, 4>>, <<5>>, w),
           SGD(<<2, 5, 6>>, <<7>>)>>, c) :
     p \in Product, x \in GradX, w \in GradW, c \in configs}

(***************************************************************************)
(* Two layers, their gradients lowered to transpositions and products:     *)
(* x1, w2, v3; y4 = x w, z5 = y v, its gradient dz6; v'7, dy8 = dz v';     *)
(* y'9, dv10 = y' dz.  v' does not lead to the update of v.  The first     *)
(* layer is trained as well (x'11, dw12 = x' dy), or it is frozen, and its *)
(* gradient op has two results, dx11 and dw12, that nothing reads.         *)
(***************************************************************************)
Forward(z) ==
  <<Op(<<1, 2>>, <<4>>, <<0, -1, 0>>), Op(<<4, 3>>, <<5>>, z), Op(<<5>>, <<6>>, <<0, 0>>)>>

Backward(vT) ==
  <<Op(<<3>>, <<7>>, vT), Op(<<6, 7>>, <<8>>, <<0, -1, 0>>),
    Op(<<4>>, <<9>>, <<0, 1>>), Op(<<9, 6>>, <<10>>, <<1, 0, -2>>)>>

Trained ==
  <<Op(<<1>>, <<11>>, <<0, 1>>), Op(<<11, 8>>, <<12>>, <<1, 0, -2>>),
    SGD(<<3, 10, 13>>, <<14>>), SGD(<<2, 12, 15>>, <<16>>)>>

Frozen ==
  <<Op(<<1, 2, 8>>, <<11, 12>>, <<0, -1, 0, 0, -2>>), SGD(<<3, 10, 13>>, <<14>>)>>

Layers(configs) ==
  {Graph(16, first[1], Forward(z) \o Backward(vT) \o first[2], c) :
     z \in {<<0, -1, 0>>, <<-1, 1, 1>>}, vT \in {<<>>, <<0, 1>>, <<1, 0>>},
     first \in {<<{2, 3}, Trained>>, <<{3}, Frozen>>}, c \in configs}

OneRoot == [comm : BOOLEAN, decentralized : {FALSE}, benchmark : {FALSE}]

Central == Training(OneRoot) \cup Layers(OneRoot)

Decentralized ==
  Training([comm : {TRUE}, decentralized : {TRUE}, benchmark : {FALSE}])

(* For three ranks: every op in parallel, so that conversions are among all of them. *)
Distributed ==
  {G \in Training([comm : {TRUE}, decentralized : {FALSE}, benchmark : BOOLEAN]) :
     /\ \A a \in 1 .. 3 : G.ops[a].stgy # <<>>
     /\ G.benchmark => G.ops[3].stgy = <<0, 0, -2>>}
================================================================================
