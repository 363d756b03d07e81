--------------------------- MODULE MCParallelLowering ---------------------------
(***************************************************************************)
(* Instances of ParallelLowering: the training graph of a matrix product   *)
(* under every choice of legal strategies, and small graphs for the cases  *)
(* it has not.  Tensors are numbered; an op without a label has <<>>.      *)
(***************************************************************************)
EXTENDS ParallelLowering

Op(ins, outs, stgy) == [ins |-> ins, outs |-> outs, stgy |-> stgy, sgd |-> FALSE]

SGD(ins, outs) == [ins |-> ins, outs |-> outs, stgy |-> <<>>, sgd |-> TRUE]

(* The configurations: parallel_preference, decentralized_optimizer, benchmark. *)
Configs == [comm : BOOLEAN, decentralized : BOOLEAN, benchmark : BOOLEAN]

Graph(nt, training, ops, c) ==
  [nt |-> nt, ops |-> ops, training |-> training, comm |-> c.comm,
   decentralized |-> c.decentralized, benchmark |-> c.benchmark]

(* The strategies generateStgy finds for x*w, dy*wT and xT*dy; <<>>: not labelled. *)
Product == {<<>>, <<0, -1, 0>>, <<-1, 0, -2>>, <<-1, 1, 1>>}
GradX == {<<>>, <<0, -1, 0>>, <<1, 1, -2>>, <<-1, 0, 1>>}
GradW == {<<>>, <<0, 0, -2>>, <<1, -1, 0>>, <<-1, 1, 1>>}

(* x1, w2, y3, dy4, dw5, momentum6, w'7; dy is the gradient of y. *)
Training ==
  {Graph(7, {2},
         <<Op(<<1, 2>>, <<3>>, p), Op(<<3, 2>>, <<4>>, x), Op(<<1, 4>>, <<5>>, w),
           SGD(<<2, 5, 6>>, <<7>>)>>, c) :
     p \in Product, x \in GradX, w \in GradW, c \in Configs}

(* A tensor read by three ops, and one op that reads a tensor twice. *)
Diamond ==
  {Graph(4, {},
         <<Op(<<1>>, <<2>>, <<0, 0>>), Op(<<2>>, <<3>>, <<s, 0>>),
           Op(<<2, 2>>, <<4>>, <<r, q, 0>>), Op(<<2>>, <<>>, <<q>>)>>, c) :
     s \in -1 .. 1, r \in -1 .. 1, q \in -1 .. 1, c \in Configs}

(* Two weights in one op, the second read by the first SGD's gradient op too. *)
TwoWeights ==
  {Graph(8, {1, 2},
         <<Op(<<1, 2>>, <<3>>, p), Op(<<3, 2>>, <<4>>, x), Op(<<2, 3>>, <<5>>, <<0, 0, -2>>),
           SGD(<<1, 4, 6>>, <<7>>), SGD(<<2, 5, 6>>, <<8>>)>>, c) :
     p \in Product, x \in GradX, c \in Configs}

AllGraphs == Training \cup Diamond \cup TwoWeights

(* Every op that can be labelled is, and the optimizer is decentralized. *)
Decentralized ==
  {G \in Training : /\ G.comm /\ G.decentralized
                    /\ \A a \in 1 .. 3 : G.ops[a].stgy # <<>>}

PartlyLabelled == {G \in Training : G.comm /\ G.decentralized}
=============================================================================
