-------------------------------- MODULE Compiler --------------------------------
(***************************************************************************)
(* A compilation for one process from end to end: Engine::compile runs the *)
(* passes on the user's graph, genCode generates the program, and the      *)
(* program runs.  The modules of the passes share the graph.               *)
(***************************************************************************)
EXTENDS Autodiff, GraphPasses, MKLDNNLayout, SerialProgram, Caffe2Importer

compilerVars ==
  <<passVars, gradNodeMap, namesMap, planVars, calls, runVars, importVars>>

---------------------------------------------------------------------------
(* The engine. *)

runInferPasses == <<"label", "lower", "label", "rename", "refresh", "outmark">>

(* Mutant: the inputs are not looked for again after the gradients were added. *)
runTrainPassesUnsought ==
  <<"autodiff", "label", "lower", "label", "rename", "eliminate", "refresh">>

runTrainPasses ==
  <<"autodiff", "refresh", "label", "lower", "label", "rename", "eliminate", "refresh">>

transformForMKLDNN == <<"layout", "label">>

optimize == <<"elimtranspose", "eliminate">>

compile(c) ==
  (IF c.train THEN runTrainPasses ELSE runInferPasses)
    \o (IF c.mkldnn THEN transformForMKLDNN \o optimize ELSE <<>>)

genCode == <<"allocate", "emit", "run">>

NoNet == [tensors |-> <<>>, ops |-> <<>>]

(***************************************************************************)
(* The user has built graph h, or has Caffe2 files to load beside nodes of *)
(* his own; he looks for inputs and outputs, and compiles under c.         *)
(***************************************************************************)
Start(h, udef, files, c) ==
  /\ g = (IF files = NoNet THEN h ELSE ImportOf(udef).graph)
  /\ source = g /\ config = c
  /\ plan = (IF files = NoNet THEN <<>> ELSE <<"import">>) \o <<"refresh">> \o compile(c) \o genCode
  /\ pass = "none" /\ todo = <<>> /\ failed = FALSE
  /\ names = ImportOf(udef).names /\ net = files /\ filled = 0 /\ loaded = 0
  /\ gradNodeMap = <<>> /\ namesMap = <<>>
  /\ addr = <<>> /\ allocated = 0 /\ calls = <<>>
  /\ pointer = <<>> /\ memory = <<>> /\ pc = 0

Import == ImportNext /\ UNCHANGED <<gradNodeMap, namesMap, planVars, calls, runVars>>

Differentiate == AutodiffNext /\ UNCHANGED <<namesMap, planVars, calls, runVars, importVars>>

Transform == GraphPassesNext /\ UNCHANGED <<gradNodeMap, planVars, calls, runVars, importVars>>

ChangeLayout ==
  LayoutNext /\ UNCHANGED <<gradNodeMap, namesMap, planVars, calls, runVars, importVars>>

Allocate == MemoryPlanNext /\ UNCHANGED <<gradNodeMap, namesMap, calls, runVars, importVars>>

Emit == EmissionNext /\ UNCHANGED <<gradNodeMap, namesMap, planVars, runVars, importVars>>

Run == SerialProgramNext /\ UNCHANGED <<gradNodeMap, namesMap, planVars, calls, importVars>>

(* The program has run, or an assertion ended the compilation. *)
Ended == failed \/ Compiled

Stop == Ended /\ UNCHANGED compilerVars

CompilerNext ==
  Import \/ Differentiate \/ Transform \/ ChangeLayout \/ Allocate \/ Emit \/ Run \/ Stop

---------------------------------------------------------------------------
(* Properties. *)

(***************************************************************************)
(* Only what the passes have agreed on is looked at: the loop of a pass,   *)
(* the code generator and the running program take the lists, the links    *)
(* and the topology as they are.                                           *)
(***************************************************************************)
Walking == {"autodiff", "eliminate", "allocate", "emit"}

(***************************************************************************)
(* A pass that walks the topology walks all of the graph, operands first:  *)
(* nodes that earlier passes pushed without a new search for inputs        *)
(* (IRGraph::findInOut) are in it and in their place.                      *)
(***************************************************************************)
WalksOrdered ==
  (~failed /\ pass = "none" /\ plan # <<>> /\ Head(plan) \in Walking) => Ordered(g)

(***************************************************************************)
(* Between any two steps of any pass the links of the graph agree: a node  *)
(* lists a reader as often as the reader lists it, nothing in the graph is *)
(* linked to what a pass took out of it, and the plan of the memory gives  *)
(* places to Tensors of the graph only.                                    *)
(***************************************************************************)
Linked == Mirrored(g) /\ Closed(g) /\ Sized

(***************************************************************************)
(* Lowering, elimination and the bypassing of transposes change how values *)
(* are computed and never the value of a tensor that stays in the graph.   *)
(***************************************************************************)
SameValues(h, k) ==
  LET before == Value(h)
      after == Value(k)
  IN  \A n \in ToSet(k.tensors) \cap ToSet(h.tensors) : after[n] = before[n]

PassesPreserve ==
  [][(pass \in {"lower", "eliminate", "elimtranspose"} /\ g' # g) => SameValues(g, g')]_compilerVars

(***************************************************************************)
(* The program's variables are named after the ops: two ops of one name    *)
(* would declare the same variable twice.  So do the transposes of one     *)
(* tensor that transformForMKLDNN puts before several readers, after the   *)
(* renaming, where no pass removes them; no other ops share a name.        *)
(***************************************************************************)
NamesDistinct ==
  (~failed /\ pass = "emit") =>
    \A m, n \in ToSet(g.ops) : m # n /\ g.node[m].name = g.node[n].name =>
      /\ config.mkldnn /\ Par(g, m) = Par(g, n)
      /\ \A op \in {m, n} : Kind(g, op) = "Transpose" /\ op \notin ToSet(source.ops)

---------------------------------------------------------------------------
(* What the program is to compute, of the user's graph. *)

(* What the program leaves in the buffer of node n, if n was given one. *)
Content(n) ==
  LET t == source.node[n].tensor
  IN  IF t \in DOMAIN pointer THEN memory[pointer[t]] ELSE Term("no buffer", <<>>)

BiasOfProduct(n) ==
  \E op \in ToSet(Chi(source, n)) : Kind(source, op) = "MatrixMatrixFCBias" /\ Par(source, op)[3] = n

(***************************************************************************)
(* Ops whose code does not compute what they mean: emitFuncCall has no     *)
(* branch for them, or the kernel adds up the wrong axis (BiasGradients of *)
(* StrategySearch); or under MKL-DNN batch normalisation is given the      *)
(* scale, and what lies behind it, and takes mean and variance from the    *)
(* batch, the kernel of a product reads the weight transposed, as only the *)
(* inner product should, and a sum of matrices is taken for one of images. *)
(***************************************************************************)
Miscoded(op) ==
  LET kind == Kind(g, op)
      matrices == kind = "ElementAdd" /\ TensorOf(g, Par(g, op)[1]).nd = 2
  IN  \/ kind \in {"Dropout", "LRN", "ElementSub", "ElementMul", "ElementDiv", "BatchedReduceAdd"}
      \/ config.mkldnn /\ (kind \in {"BatchNormalization", "MatrixMatrixMul"} \/ matrices)

(* Behind these ops the last to have written the Tensor of node n is not the op that makes n. *)
Overwritten(n, ops) ==
  LET writers == SelectSeq(ops, LAMBDA op :
                   \E m \in ToSet(Chi(g, op)) : g.node[m].tensor = g.node[n].tensor)
  IN  ToSet(Par(g, n)) # IF writers = <<>> THEN {} ELSE {Last(writers)}

(* What ops make that are miscoded, or whose operands are overwritten, or made so themselves. *)
Spoilt(ops) ==
  LET Through(bad, i) ==
        LET op == ops[i]
            before == SubSeq(ops, 1, i - 1)
        IN  IF Miscoded(op) \/ \E n \in ToSet(Par(g, op)) : n \in bad \/ Overwritten(n, before)
            THEN bad \cup ToSet(Chi(g, op)) ELSE bad
  IN  FoldLeft(Through, {}, [i \in DOMAIN ops |-> i])

(***************************************************************************)
(* Whatever the passes did to the graph, the program leaves in the buffer  *)
(* of an output the value the user's graph gives it, unless the output     *)
(* depends on an op that is miscoded, or on a blob that the order of the   *)
(* statements, which is the order of the levels, overwrites before its     *)
(* reader: then it does not.                                               *)
(***************************************************************************)
CodeComputes ==
  (Compiled /\ ~config.train) =>
    LET ops == SelectSeq(g.topo, LAMBDA n : IsOp(g, n))
        spoilt == Spoilt(ops)
        value == Value(source)
    IN  \A n \in ToSet(source.tensors) : Chi(source, n) = <<>> =>
          (Content(n) = value[n] <=> n \notin spoilt /\ ~Overwritten(n, ops))

Updated(n) ==
  Term("SGD1", <<Leaf(source, source.node[n].tensor), Gradients(source)[n], Term("0", <<>>)>>)

Trained(n) == TensorOf(source, n).train

(***************************************************************************)
(* In training the program leaves in each weight what the optimizer makes  *)
(* of its gradient by the chain rule.  The biases of products are left     *)
(* out: the kernel that sums their gradient is wrong (BiasGradients of     *)
(* StrategySearch).                                                        *)
(***************************************************************************)
WeightsLearn ==
  (Compiled /\ config.train) =>
    \A n \in ToSet(source.tensors) : Trained(n) /\ ~BiasOfProduct(n) => Content(n) = Updated(n)

(***************************************************************************)
(* An imported network means what its files say, op by op in their order,  *)
(* where an op may overwrite a blob: each name stands for a tensor of the  *)
(* blob's last value.                                                      *)
(***************************************************************************)
ImportFaithful ==
  (net # NoNet /\ ~failed /\ ~Due("import")) =>
    \A name \in DOMAIN names : Value(source)[names[name]] = BlobValue(source, net)[name]
=============================================================================
