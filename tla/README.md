# A TLA+ verification development for SWCompiler

SWCompiler takes a dataflow graph of tensor ops, differentiates it, labels its
ops with parallel strategies, rewrites it for the processes of an MPI job,
allocates memory and emits a C++ program that trains on a sample file. The
modules here model the parts of it where a wrong order of legal steps gives a
wrong program, check them with TLC on small instances and prove the central
invariants with TLAPS for all instances.

## The system

| Component | State | Operations | Models |
|---|---|---|---|
| **Graph IR** (`graphIR/`) | nodes with ordered parent and child lists, inputs, outputs, topology levels | link, relink, destroy, push, delete, findInOut, updateTopology | `IRGraph`; what a graph means: `Values` |
| **Autodiff** (`pass/AutodiffPass.cpp`, `op/dlOp/dlOpAD.cpp`, `graphIR/TensorNode.cpp`) | map from a node to its gradient node | one step per op and tensor in reverse topological order, an SGD op per weight | `Autodiff` |
| **Labelling, lowering, renaming, elimination** (`pass/`, `op/dlOp/dlOpEinsum.cpp`) | labels, names, the walk over the graph | passes over the graph | `GraphPasses` |
| **Strategy generation** (`parallel/parallelGen.*`, einsum strings in `op/`) | none | legal strategies of an einsum | `StrategyGen`; what they promise: `DividedOps` |
| **Strategy search** (`parallel/SearchSpace.*`) | population, fitness | sort, breed, mutate | `StrategySearch` |
| **Parallel labelling** (`pass/ParallelLabelingPass.h`) | a StrategyLabel per op | label each op or leave it | `StrategySearch` |
| **Parallel lowering** (`pass/ParallelLoweringPass.h`, `pass/CommSavingParaLoweringPass.cpp`, `parallel/ParallelPattern.h`, `parallel/TilingLabel.h`) | a TilingLabel per tensor: its current layout and node, and a map of all layouts made | fork, transform, join; relink operands and results; eliminate redundant Scatters | `ParallelLowering` |
| **SPMD code emission** (`codegen/ParallelCodegen.cpp`) | three code buffers, the hetero section flag, run-once marks | initialisations, dispatch of communication and compute ops, end of a section | `SPMDCodegen` |
| **SPMD program at run time** (the text `ParallelCodegen.cpp` emits, `codegen/utils/kernels.h`) | per rank: line, iteration, memory; messages under way | MPI calls, copies, kernels | `SPMD`, `ParallelProgram` |
| **Generated program** (`codegen/Codegen.cpp`, `ParallelCodegen.cpp`) | iteration count, weights, snapshot files | initialise, restore, train, save | `TrainingRun` |
| **Data loader** (`codegen/utils/DataLoader.*`), compiled into that program | open flag, stream position and failbit, sample and epoch counters | construct, shift, next | `DataLoader` |
| **Memory allocation** (`codegen/MemoryAllocator.*`, `Codegen.cpp`) | offset of each Tensor | allocate | `MemoryPlan` |
| **Serial code generation** (`codegen/Codegen.cpp`) and the program it emits | statements; variables and buffers | one statement per op, on kernels or MKL-DNN; execute | `Emission`, `SerialProgram` |
| **Kernels** (`codegen/utils/kernels.h`) | none | matrices, convolutions, pools and their gradients | `Kernels`, `DividedOps` |
| **Caffe2 importer** (`importer/Caffe2Importer.cpp`) | a name map | one step per tensor and op of the files | `Caffe2Importer` |
| **Engine** (`engine/Engine.cpp`, `pass/Optimizer.h`) | the order of the passes | infer, train, MKL-DNN and parallel passes; generate | `PassManager`, `MKLDNNLayout`, `Compiler`; the parallel ones: `ParallelProgram` |
| Cost model, old tiling, dot output | | | see `PROJECT.json` |

How they interact: the engine runs the passes one after another on one graph
(shared state, no threads). Labelling leaves labels on ops; the lowering reads
them and leaves communication ops and parallel tensors; the code generator
walks the topology of the result and emits a program; several processes run
it, exchange tensors by MPI, and rank 0 reads samples through the data loader
and writes snapshots. The compiler itself is sequential: what is hard is the
*order* in which the readers and writers of one tensor meet its label. In the
generated program it is the failure of a process between two writes, the
loader's state after a restart, and the agreement of several processes.

What makes each component correct:

* lowering: after it, every labelled op works on tensors in the layout of its
  strategy, each conversion is from the layout the data really has, and the
  next iteration of training sees the updated weights;
* loader: the batches are consecutive pieces of the file, epoch after epoch;
* training program: a snapshot holds as many training steps as its name says,
  and a crash loses no more than the steps since the last snapshot;
* SPMD emission: each role's code in the order of the schedule, none lost;
* SPMD program: every kernel finds the blocks of this iteration in their place,
  no rank waits for ever, no message is left over;
* graph IR: parent and child lists mirror each other, the topology orders ops;
* passes: they change how a graph computes and not what;
* autodiff: a weight is trained with its gradient by the chain rule;
* allocation and serial code: the statements leave the graph's values in the
  buffers of its outputs, though Tensors are shared, written in place and laid
  out in several ways;
* importer: each blob name stands for the blob's last value;
* strategies: processes that run an op on their parts make the whole;
* search: the cheapest individual is kept, selection ends.

`PROJECT.json` lists the hazards of this code at the line where each bites,
with the properties that cover it.

## Modules

### `ParallelLowering`

State: the graph `g` with its configuration (chosen in `Init`, then constant);
the loop of the pass that is running (`pc`), the op and operand it is at (`k`,
`i`); the StrategyLabels (`lab`); the links of operands and results (`par`,
`chi`); the TilingLabels (`tl`); the tensor nodes created (`nodes`); and the
Scatters unlinked at the end (`cut`). One action is one iteration of one of
the loops. `ForkWeight`, `TransformWeight` and `WeightsDone` are the prepass of
COMM_SAVING over the weights; `SkipOp`, `StartOp`, `LabelSgd` and
`SgdAssertFails` the head of the loop over ops; `ForkOperand`, `ReuseOperand`,
`TransformOperand` and `NullTilingLabel` one operand; `SgdResult` and
`JoinResult` one result; `Finish` the benchmark-mode elimination. The two
lowerings differ in what they remember of a tensor, which `Seen`, `Has`,
`LayoutNode` and `Pre` say; all actions are shared. The weights of the prepass
are taken in any order, since the code iterates a map keyed by address.

A node stands for its tensor, its layout and how it is filled; shapes and names
are left out. `TilingLabel`'s two members without an initialiser are given a
value in `NoTiling`: no path reads them before they are set, which
`LayoutsSound` and `SourcesSound` would show (both compare what a label says
with what the node is). `runCommSavingLowering` is not modelled: `run` does not
call it. SGD takes no label in the strategies enumerated, as its einsum
representation is 0 (`dlOp.h`).

### `SampleStream`, `DataLoader`

`SampleStream` is the promise: batch *b* holds samples *b·mini … b·mini+mini-1*
modulo the number of samples, and there are ⌊samples·epochs / mini⌋ of them.
`DataLoader` is the class: `Call` is the head of `next` with the lazy opening,
`Read` and `Wrap` one iteration of its loop, `Shift` the method of the same
name. A sample is its number in the file; memory that was not written, or was
left over, is `Garbage`. The stream is a position and failbit: reading past the
end sets failbit, seeking with failbit set fails, opening clears it. `given`
and `buf` let properties speak of what the caller sees.

### `TrainingRun`

`TrainingRun` extends `DataLoader` with the program around it: `Start`,
`InitTensors` or `Restore`, then `Load`, `Fetch` (the loader's steps), `Train`,
and `TruncateFile` and `WriteFile` when a snapshot is due. `Crash` may come
between any two steps, and the next process may be compiled to resume from any
file left behind, torn ones too. The serial program listens to the loader; the
MPI program counts to `MaxIter` and does not. Weights are what they started
from and the sequence of batches trained on; numerical values are left out.
In a torn file the iteration count is lost, because the weights come first in
it (fields 2 and 6 of NetDef, serialised in order), and what weights are left
is not modelled further than that they are not those of the snapshot.

### `SPMDCodegen`

The generator walks the scheduled ops once and writes one text. The code of a
Scatter or Gather has a side for rank 0 and one for the other ranks, which wait
in `master` and `worker` (`masterWriter_`, `workerWriter_`) while a run of such
ops, a hetero section, lasts; `hetero` is `hetero_pending_`. One action is one
iteration of the loop of `emitFuncCalls`: `EmitTwoSided`, `EmitOther` (which
first ends the section), and `EmitSumTransform`, the Transform of partial sums
that opens and closes a section of its own. `EmitTensorInitializations` is the
loop over PARENTOP Scatters before it. A line of text stands for all that is
written for one side of one op; `guard` is the rank test it lies behind. `ran`
holds the run-once ops already dispatched (`OpNode::runable`).

### `SPMD`

The ranks run the emitted lines. Memory is modelled cell by cell, and a cell
holds a *stamp*: which element of which tensor it is and which iteration made
it. So a block placed a row off, or one iteration old, shows, while numerical
values are left out. `Vector` is the strided datatype the generator declares
from a tensor's shape and cut axis; `Global`, by row and column, is the
independent reference it is compared with. Rank 0's part along axis 0, and its
copy of a replica, is no buffer but a pointer into the original (`alias`).
`Begin` is the head of the loop body; `Post`, `Receive` and `Return` are the
halves and the end of a blocking call, and one turn of a loop over ranks;
`Local` is a copy on rank 0 or a kernel. What each of them waits for has a name
of its own (`CanPost`, `CanReceive`, ...), so that `NoneStuck` can say that one
of them is never wanting. `RunSpec` is the emission and run of any `Runnable`
plan, without the graph it came from: that is what the proofs are about. The kernel of an SGD op writes its
weight and momentum in place. Messages from one rank to another are a queue;
`MPI_Send` returns when no more than `buffered` of its messages are waiting,
where 0 is a library that always waits for the receiver. MPI matches by source
and tag, in order; collective calls match without tag. MPI itself is external:
`Sent`, `Fits`, `Matching`, `Taken`, `Sum`.

`iter` counts an iteration when its body begins; the code increments at the
end of the body. Nothing in the body reads it but the snapshot test, which
comes after the increment.

### `ParallelProgram`

The composition: `ParallelLowering` turns a labelled graph into nodes and
links; `Generate` takes from its result the ops that `EliminationPass` keeps
(`Live`: what leads to an output, and what an op of several results makes,
which the pass keeps though nothing reads it), orders them by topology level
(`schedule`), and hands the plan to
`SPMDCodegen`, whose text `SPMD` runs. All of it is one state machine, so a
property of the running program is one of the strategies it was compiled from.

### `IRGraph`, `Values`, `PassManager`

`IRGraph` is the graph as one value, `g`, and the operations of `graphIR/` as
operators that return the changed graph: one handler of a pass makes many such
changes, and is one action all the same. A node is an index into `g.node` and
stays there when it is taken out of the lists, as the C++ object does; Labels
and Tensors are objects of their own, because clones share them. The
operations are written as the code is, duplicates and all: `ReplaceUse` erases
from the child list it walks over, `delTensorNode` leaves links alone.

`Values` is the abstract specification, and knows nothing of passes: the value
of every tensor of a graph as a term, the gradients by the chain rule, and the
blobs of a Caffe2 network. Shuffles of axes cancel with their inverses;
otherwise terms are compared as they are, so nothing is taken for equal that
the real operations might tell apart.

`PassManager` is the queue of passes, `plan`, and the walk of the pass that
runs, `todo`: a list of nodes taken when the pass begins (`Enter`), as the code
takes a topology or a list, worked off one node a step (`NextNode`).

### `Autodiff`, `GraphPasses`, `MKLDNNLayout`

One action per turn of each pass's loop, with all the turn does to the graph.
`Autodiff`: `DiffOp` is the `autoDiff` of each op class (their `*Rule`s give
what the gradient op reads), `MakeSgd` that of a weight, `GradUnfound` the
assertions. `GraphPasses`: `LabelingPass` (no other pass looks at the graph
meanwhile), `LowerOp` with every `einsumLowering`, `RenameNode`,
`EliminateNode`, `ElimTranspose`. `MKLDNNLayout` is `transformForMKLDNN`, which
puts transposes around the ops that are not to see the layout.

### `MemoryPlan`, `Emission`, `SerialProgram`

`MemoryPlan` gives each Tensor its offset. `Emission` is `emitFuncCalls` and
each branch of `emitFuncCall`: a statement is the kernel or primitive, and the
Tensors it names in the order of its arguments, so a swapped argument shows.
`SerialProgram` is one round of the emitted loop: a buffer holds a term of
`Values`, a kernel makes a term of those of its operands, and a `Reshape` only
moves a pointer. MKL-DNN is external: `Read` and `Stored` say that a memory is
read and written in the layout its tag names.

### `Caffe2Importer`, `Compiler`

The importer walks the two files. An op that writes the blob it reads gets a
new node over the same Tensor and takes over the name. `Compiler` composes all
modules above: the lists of passes are the engine's (`runInferPasses`,
`runTrainPasses`, `transformForMKLDNN`, `optimize`), and what was compiled runs.
`source` keeps the user's graph to compare with.

### `Kernels`, `StrategyGen`, `DividedOps`, `StrategySearch`

`Kernels` are the loops of `kernels.h` as functions on small tensors of
integers. Exponentials are replaced by a function that is not linear; what is
asked of them is which cells a result depends on and what may be summed.
`StrategyGen` reads strategies off the einsum strings of the op classes: of all
that set `_einOp` to 1 but `TensorDescend` and `TensorAscend`, which set no
string to read. Many of these classes have no kernel (`KernelKinds` are those
that do); they are labelled all the same.
`DividedOps` says what a strategy promises, and runs it: every process applies
the kernel to its `Part`s, and `Collected` puts the results together.
`StrategySearch` is `ParallelLabelingPass` in its four modes with the genetic
search: random draws are choices, the sort may order equal costs in any way,
and `cost` is any function of the identities (see *Not modelled*).

### Instances and proofs

`MC*.tla` define the finite sets; the `.cfg` of each run names them.
The `*Proofs` modules hold the proofs.

## Runs

| Run | Checks | Shows |
|---|---|---|
| `lowering` | 7 invariants, `LoweringCompletes` | see below |
| `loader` | `TypeOK`, `Position`, `Implements`, `LoopEnds` | the loader implements the stream and the loop over it ends |
| `loader_shift` | `ShiftSkips`, violated | shifting an unopened loader loses the seek |
| `training_run` | 4 invariants, `ProcessEnds` | crashes and resumptions, as below |
| `codegen` | `EmitTypeOK`, `ProgramOrder`, `NothingLost` | the emission, for all short schedules |
| `parallel_program` | 5 invariants, `ProgramEnds` | from labelled graph to two ranks that train two iterations |
| `three_ranks` | `Drained`, `NoneStuck` | rings and loops over more than one other rank, benchmark mode |
| `replica_tiling` | `ReplicaPartsFilled`, violated | a part cut from a replica is never written |
| `decentralized_update` | `LocalUpdates`, violated | a decentralized update is emitted for rank 0 only |
| `compiler` | 7 invariants, `PassesPreserve` | from the user's graph or Caffe2 files to the values the program leaves |
| `search` | `StrategiesSound`, `BestKept`, `GradientsAdjoint`, `SearchEnds` | labelling in all modes, and the strategies and kernels it rests on |
| `bias_gradient` | `BiasGradients`, violated | the gradient of a product's bias is summed along the wrong axis |

`lowering`: `LayoutsSound` relates each link to the strategy of its op,
`SourcesSound` and `TransformsImplemented` say that each conversion starts from
the layout it names and is one the code generator has, `SharedLayouts` that
COMM_SAVING communicates a layout once, `OutputsFresh` is the assertion on
results, and `UpdateReachesReaders` follows the contents of every node back to
what filled it, to say that the readers of a weight see the optimizer's update
in the next iteration. `LoweringCompletes` says that the pass neither stops at
an assertion nor meets a null label on the graphs of `Lowerable`.

`training_run`: `SnapshotsCount` and `RunComplete` hold across any number of
crashes and resumptions; `TrainsInOrder` holds of a process that started from
nothing. A resumed process does *not* train on the right samples (that is the
`loader_shift` finding); `ResumeRealigns` says how far the damage goes: it
lasts until the end of the epoch resumed in, and never makes the loader run off
the file or train a different number of batches.

`codegen`: `ProgramOrder` says that neither role meets the ops in another order
than the schedule's, `NothingLost` that an op the loop has passed is written
for every role it concerns. The one exception is stated there: a section still
open when the loop ends is never written out. The schedule of a training graph
ends in an SGD op, so it does not meet it; an inference graph that ends in a
Gather does.

`parallel_program`: `OperandsCurrent` says that every kernel finds each operand
complete, in its place, and of this iteration (a weight or momentum, of the
last). `SnapshotCurrent` says the same of the tensors a snapshot saves,
`UpdatesLast` that the schedule has an SGD op behind every reader of its weight.
In a network of two layers that takes more than the edges of the graph: the
transposition of the second layer's weight is needed for the gradients of the
first layer only, so nothing but the levels puts it before that weight's SGD op
(a schedule that follows what the SGD op needs is the mutant that breaks it).
`CollectivesAgree` says that ranks meet collective calls in one order, and
`ProgramEnds` that whatever MPI buffers, all ranks end. `Drained` in
`three_ranks`: no message is left when they have. `NoneStuck`: until then the
ranks never all wait, for each other or for a buffer.

`compiler`: `CodeComputes` compares what the program leaves in the buffer of
each output with `Values` of the user's graph, `WeightsLearn` each weight with
the chain rule. They are end-to-end, so they also fail on a swapped argument of
a kernel or a layout read wrong.
`CodeComputes` is an equivalence, because there are graphs the compiler accepts
and compiles wrongly: an output has its value if and only if it depends on
neither of two things.

* A *miscoded* op (`Miscoded`). `emitFuncCall` has no branch for Dropout, LRN and
  the elementwise difference, product and quotient; the kernel of
  `BatchedReduceAdd` sums along the wrong axis. Under MKL-DNN batch normalisation
  is given the scale, and the memory behind it for the bias, and takes mean and
  variance from the batch instead of its own operands (`Codegen.cpp:1843`, with a
  comment at 1881; the Resnet of `test/importer` is compiled so); a product of
  matrices is emitted like an inner product, whose weight is stored transposed,
  and a sum of matrices like one of images.
* An *overwritten* blob (`Overwritten`). Statements come in the order of the levels
  of the topology, and in a level in the order the ops were pushed. A reader of
  the old value of a blob that comes later than the op that overwrites it,
  because it is of a later level (`Late`) or was pushed later (`LateProduct`),
  reads the new value; an op that replaces a blob may even come before the op
  that made it (`Replaced`).

The other properties say where things would go wrong first: `PassesPreserve`
(a step of lowering or elimination keeps the value of every tensor that stays;
an action property), `Linked` (links agree between any two steps, nothing is
linked to what was taken out, and only Tensors of the graph have a place),
`WalksOrdered` (the topology a pass walks has all the graph in it, operands
first), `NamesDistinct`, `Disjoint`, and `ImportFaithful` for the importer.
`NamesDistinct` has one exception: `transformForMKLDNN` runs after the renaming
and gives the transposes it puts before several readers of one tensor one name.
The networks `Tied`, `Forked` and `Replaced` have such names, and the variables of their
programs are declared twice.

`search`: `StrategiesSound` says that a label is one of its own op's
strategies (`LabelsOwn`) and divides what it cuts, and that if the op has a
kernel the label is exact, but for five strategies (`Inexact` in `DividedOps`),
which never are. A label forced by `force_data_parallel` need not divide: the
code asks only that some strategy of the op is legal
(`ParallelLabelingPass.h:137`), and with the batches of three of this run it
does give two processes such labels. `GradientsAdjoint` compares the gradient
kernels with differences of the forward kernels; the bias of a padded
convolution is the exception it states. Both exceptions are behaviours of the
code, found while modelling; only the reduction of bias gradients, which
contradicts an assertion of the code generator, is reported as a finding.

Properties name what they leave out. `OperandsCurrent` excludes the parts
cut from a replica, which are the subject of `ReplicaPartsFilled`, and
benchmark mode, in which the generator omits rank 0's copies on purpose. It and
`SnapshotCurrent` exclude decentralized optimizers, which are the subject of
`LocalUpdates`. `LoweringCompletes` speaks of graphs in which no op reads a
tensor twice and the weight and gradient of each SGD op have labelled ops
(`Lowerable`); the others may stop at an assertion or a null label, as the code
does. `TrainsInOrder` says nothing of batches past the last, where rank 0 of the
MPI program would train on the old one again, and `SearchEnds` nothing of a
cost of 0, at which the selection need not end. `NothingLost` leaves out the
section that is open at the end of the text, and run-once ops, of which the code
of one side is not written in the loop. `WeightsLearn` is checked on networks in
which each tensor that needs a gradient has one reader. `UpdateReachesReaders` of run `lowering` is about the graph: it
follows a local update through the nodes and takes it that every process makes
it, which `decentralized_update` shows the emitted program does not do.

### Bounds

* `lowering`: `MaxAxis = 1` (two axes: enough for a transform between two cuts,
  which is all the strategies of a matrix product have). `Training` is the
  forward product, its two gradient products and an SGD op under all 64
  combinations of legal strategies, unlabelled included; `Diamond` gives one
  tensor four readings and one op the same tensor twice; `TwoWeights` crosses
  two weights. All with all eight configurations. 18,020 states.
* `loader`: up to 4 samples, batches of up to 5, up to 3 epochs, files one
  short to one long: batches divide epochs, straddle one or several of them and
  exceed them, and 0 epochs or samples occur. `MaxBatches = 14` exceeds the 12
  batches there can be, so it never stops a loader.
* `training_run`: three samples, two epochs, batches of 1, 2 and 4, snapshots
  never, each iteration and every other, two crashes. Two crashes are what a
  file rewritten by a resumed process takes. `MaxBatches = 8` is not reached.

* `codegen`: all schedules of up to four ops of seven kinds, and those of up to
  four whose first is a run-once Scatter. Four ops hold two sections with an op
  between them and an op after. The proofs cover longer schedules.
* `parallel_program`: the training graph of a matrix product under all 64
  combinations of strategies and both lowerings; the training graph of two
  layers, with the gradients as products and transpositions, under six
  combinations and both lowerings, with the first layer trained, or frozen and
  left with a gradient op whose two results nothing reads. Two ranks, tensors of 2 × 4
  (not square, so that a row taken for a column shows), two iterations (what is
  stale in the second is what the first left), no or one message buffered.
* `three_ranks`: tensors of 3 × 3, one iteration, only graphs in which every op
  is parallel: what differs from two ranks is the rings and loops. Its text is
  that of the same plans, so that the program ends is left to two ranks.

* `compiler`: all chains of up to two layers, of eleven kinds for inference and
  with MKL-DNN and six for training; LeNet; each with and without MKL-DNN,
  networks with a shortcut (`Residual`), one input of two convolutions
  (`Forked`), two outputs (`Measured`), a weight used twice (`Tied`), and single
  ops on matrices (`Lone`); and Caffe2 networks with in-place ops, a shortcut,
  batch normalisation, a dropout, readers of a value on the same level as the op
  that overwrites it (`Early`, `LateProduct`) and on a later one (`Late`), a
  blob that is replaced (`Replaced`), and one the importer stops at. Two layers
  are what an interaction between neighbouring ops takes; the passes look no
  farther. 16,611 states in 262 compilations.
* `search`: two processes; every kind of op that has einsum letters on several
  shapes, batches that do not divide among them, with windows
  that overlap, skip, and begin in the padding; for the genetic search two ops
  of two strategies each, a population of 3 with one elite, two
  generations, and every assignment of the costs 0, 1, 2.

`CHECK_DEADLOCK FALSE` where the pass stops at `done`, and where a process that
has ended, or that nobody restarts, may stay so, or where all ranks have
ended. That ranks do not stop earlier is what `NoneStuck` and `ProgramEnds` say.

### Fairness

The lowering and the loop over the loader are sequential code that nothing
blocks: `WF(Next)`. In `TrainingRun` weak fairness is on the steps of a running
process only; no process is obliged to be started, and crashes are free. In
`ParallelProgram` it is on the steps of each rank: a process whose call can
return, or which has a line to run, is not stopped for ever by its system. The
compiler's steps need none, since `ProgramEnds` speaks of a program that was
started.

`StrategySearch` has `WF(SearchNext)`: repeated draws that come to nothing are
stutters, so this says that the generator of random numbers does not draw the
same parent, or no crossover, for ever. `Compiler` states no fairness: it takes
every step in one way only, the graph of its states is finite and has no cycle
but the stop at the end, and deadlock is checked, so every compilation ends.

## Proofs

`ParallelLoweringProofs` proves, for every `MaxAxis` and every set of graphs
that satisfies `GraphAssumption`, the inductive invariant `IInv`, and from it
`TypeOK`, `LayoutsSound`, `SourcesSound`, `TransformsImplemented`,
`SharedLayouts` and `OutputsFresh`. None of them is inductive alone. `IInv`
adds `Labels`, which relates each TilingLabel to the nodes (an entry of the map
names a node of that tensor and layout; the current node has the current
layout; every node but an optimizer's is recorded), that the weights
have no partial-sum layout (no op produces a weight, so no join reaches their
label), and that results not yet reached have no label; and `Links`, the
soundness of what the loops have passed together with the phase of the op being
lowered. There is one lemma per action, over three lemmas on the patterns:
`AppendNode`, `ApplyLabel`, `NewLayout`.

It also proves `UpdateReachesReaders`, from a second invariant, `Weights`, about
the whole run of the pass: under `COMM_SAVING` the layouts of a weight are all
made before any op is lowered (`Planned`), so that no reader adds one later; the
first made is the least and the only Scatter, the rest are converted from
earlier ones (`WeightNodes`); a decentralized optimizer is given that least one
(`Least`), and ops without a label keep their links (`Unlabelled`). So if the
optimizer is serial it reads the original, no Scatter of the weight is the only
reader of it, and none is unlinked; if not, the one Scatter is unlinked and all
layouts are filled from the part the optimizer updates. Where a node is filled
from is a recursive function along the Transforms, which has values because
their sources are earlier nodes (`FillsOf`). The proof needs that the gradient
and momentum of an optimizer are no weights themselves, which autoDiff sees to
(each is a new Tensor): otherwise an optimizer that reads another weight whole
would scatter it a second time, and neither Scatter would be unlinked.

`SPMDCodegenProofs` proves `EmitTypeOK`, `ProgramOrder` and `NothingLost` for
every set of schedules of any length, from `PlanAssumption` alone. `IInv` adds
what each phase means (`Phases`); that the two buffers hold calls only while a
section is open, and each only calls for its own role (`OwnSide`), without
which writing one buffer before the other could put the later op first; that
every call written so far is of an op already passed (`Order`); and that what
waits in a buffer is in the text as soon as any other op has followed (`Kept`).
`ProgramOrder` alone is not inductive: it does not say that the next op comes
after all that is written, nor what the other buffer holds. The lemmas are
about concatenation (`Concat`, `OrderConcat`, `OrderParts`, `InOrderAround`:
lines a role does not meet may be put anywhere), then `Flush`, what the end of
a section leaves, and one lemma per action.

`TrainingRunProofs` begins with the loader by itself: `TypeOK`, `Position` and
the refinement `Spec => Implements`, for all parameters. The invariant adds to
`Position` the state of control and `Contents`, that the filled part of the
buffer is the prefix of the batch being asked for. It rests on the uniqueness of
quotient and remainder (`Division`), proved from arithmetic.

Then it proves `SnapshotsCount`, `TrainsInOrder`, `RunComplete` and
`ResumeRealigns` for every size of batch, file and snapshot interval, and
whatever crashes and resumptions a run meets. The loader's own invariant does
not serve here: `shift` moves the counters of a loader whose file is still closed,
so a resumed loader no longer matches the stream. `LoaderInv` says what
survives: the counters agree with each other (`Counters`), the stream never
runs ahead of them and has caught up after the epoch of the resumption
(`Behind`), and the contents are right if the process was not resumed
(`Unresumed`). `ProgramInv` adds how many batches each phase has trained on
(`Progress`), the counted loop of the MPI program (`MpiCounts`), and that the
number in the name of a whole snapshot fits in the epochs (`FilesFit`), without
which a shift by it could leave the loader past its last epoch (`ShiftFits`).
There is one lemma per action, over the lemmas on what a call of the loader
leaves.

`StrategySearchProofs` proves `BestKept` for every set of graphs, all costs and
all sizes. The invariant says which individual leads: before the sort the first
of the population is as cheap as all that were sorted, after it the first
child is, because it is an elite. It uses only that a sort is a permutation in
ascending order (`SortedFirst`), and that at least one elite survives
(`SearchAssumption`).

It also proves `LabelsOwn`, in every mode: an op ends with a strategy of its own
list, or with the forced one, and an op without legal strategies ends with none.
The search names strategies by two indices, of an entry of the space and into the
entry's list, and the space leaves ops out; `Catalogued` says that each entry
holds the list of the op it names and that no op with strategies is missing, and
`LabelsOfIdentity` that then any identity that crossover and mutation can make
(`SearchInv` keeps them within the lists) labels each op from its own list. That
the list holds legal strategies only is what the filter of a sequence does
(`SelectSeq`), which the provers do not know; TLC checks it (`StrategiesSound`).

`SPMDProofs` is about the ranks: for every runnable plan (any number of ops in
any order), every number of processes from two on, every number of iterations
and every depth of the library's buffers it proves `RunTypeOK`,
`CollectivesAgree`, `Drained` and `NoneStuck`. None of the four is inductive. The
invariant `RunInv` says what the messages are. At most one transfer from rank s
to rank d belongs to each op of each iteration, at a known turn of the sender's
loop and a known turn of the receiver's (`SendTurn`, `RecvTurn`). From where
the ranks are it follows which transfers have been sent and which received
(`HasSent`, `HasReceived`); those sent and not received are under way, and
`Queues` says that the queue from s to d holds exactly these, in the order of
iteration and op, with their tags. `Causal` (nothing was received that had not
been sent) is needed beside it: without it a rank could have passed a receive
that was never served. `Emission` says of the text that both roles meet its
lines in the order of the ops, each Scatter and Gather on both sides.
From that: a receive finds first what was sent for it, since whatever is before
it in the queue would be of an op this rank is already past (`CollectivesAgree`);
nothing can be under way to a rank that has ended (`Drained`); and `Bounded`
bounds the queues. For `NoneStuck` consider the earliest op of the earliest
iteration that any rank is at (`Front`): every other rank is at it or past it,
so what a rank at it waits for has been sent, or will be sent by a rank at it
that can go on. The five kinds of op are cases: rank 0 serving a Scatter, rank 0
collecting, a worker alone, a kernel, and a Transform, where the rank that is at
the least turn of the ring is the one that can go on. There are lemmas for the
queue under `Post` and `Receive` and one on the turns of every kind of op.

`SPMDDataProofs` is about what the messages carry: for every number of rows and
columns that the number of processes divides, the strided MPI types the
generator emits (`Vector`: a count, a length and a stride taken from the shapes,
an offset from the rank) name the cells that rows and columns say (`Global`).
A Scatter gives each rank its part (`ScatterDelivers`; where rank 0 shares the
original instead, `SharedBeginning`); the blocks of a Gather, and of a Transform
between rows and columns, are the right cells at both ends (`ExchangeSends`,
`ExchangeFills`, `OwnTurnFills`) and cover the buffer, so that it is whole when
every rank has given (`ExchangeCompletes`); a Reduce makes the tensor
(`SumsMake`). The argument is one about quotients: `RowMajor` and `CellOf` give
a cell its row and column, `Crossing` says that a cell of a Transform's block is
one of p's rows and q's columns whichever of them sends, `Cover` that every row
and column is some rank's.

On these steps rests `DataInvariant`, from which `KernelsReadCurrent` and
`SnapshotsCurrent` follow: in the run of any plan whose data flows
(`DataPlan`), with any number of ranks, iterations and buffered messages, each
operand of a kernel is current cell by cell, and so is what a snapshot saves.
`DataPlan` is about the plan alone: ops read and write buffers of the layouts
their kind converts, kernels on all processes work on parts and the others on
originals (`OpFlow`); a buffer has one writer; what is read is a weight, an
input, or made by an earlier op; and no op reads a weight or a part of it
behind its SGD op (`UpdatedLast`; rank 0 may have the part in the original's own
memory, so it is not only the readers of the original that matter).
`DataInv` joins `RunInv` with what the memories hold: a rank that is past an op
has what the op makes, of this iteration, unless it shares it (`Made`); what it
is receiving holds the blocks that have arrived (`Receiving`); each message
under way carries the block of the moment it was sent for (`Carrying`); rank 0's
weights are of the last iteration until their SGD op is past (`Weights`), its
batch is this iteration's (`Loaded`), and it shares the parts that it has
scattered so (`Sharing`). `OperandsCurrent` says nothing of messages or of
buffers that no kernel is about to read; without these a receive would bring
anything. A buffer is overwritten only by its one writer, and only when every
rank that reads it in this iteration is past it or has copied it into a message,
which is where the order of ops and `HasSent` come in. There is one lemma per
kind of op and turn.

`ParallelProgramProofs` puts the parts together: for every set of graphs that
satisfies `GraphAssumption`, every `MaxAxis`, number of processes, iterations and
buffers, it proves `RunTypeOK`, `CollectivesAgree`, `Drained` and `NoneStuck` of
the program of each graph, and `PlanRunnable`, on which they rest: whatever the
strategies, what lowering, elimination and schedule leave is a plan such as
`SPMDProofs` is about. `Lowering` strengthens `IInv` by what is to be
communicated: a Scatter's layout is never a sum, and a Join is of a sum or of
parts, never of a replica, since no labelled result is one (`ResultsKept`). The
rest is that `schedule` is a sequence of ops of the lowered graph. `Live` and
`schedule` are recursive functions, so that they have any value at all has to be
proved: `Recursion` shows it, from the least counterexample, for any step within
a set, `Ranked` that a finite set of numbers has an x-th member. From `Generate`
on, each step is one of `RunSpec` or leaves it alone (`SameModel`: the module
`SPMD` composed here is the one of `SPMDProofs`).

`ProgramReadsCurrent` and `ProgramSnapshots` say `OperandsCurrent` and
`SnapshotCurrent` of the program of every graph whose schedule satisfies
`UpdatesLast`, the invariant that the run checks; it is a hypothesis because
nothing in the graph enforces it: levels order an op behind its operands, and a
reader of a weight that does not lead to the gradient could have a level above
the SGD op's. (Where rank 0 alone updates a part, decentralized, both properties
claim nothing: that is `LocalUpdates`.) What has to be shown is that the plan
generated from a lowered graph satisfies the rest of `DataPlan` (`DataPlanned`).
The lowering's own invariant gains two conjuncts for it. `Weights` says which
labels, links and cuts a finished graph has. `Parts` says that an op with a
label writes parts that are joined, one node for each result, that an op without
one writes originals, and that what is scattered is read or trained
(`Sourced`). From them come the layouts of what each op reads and writes
(`ReadLayouts`, `WriteLayouts`, `ScatterFlows`, `JoinFlows`, `TransformFlows`),
that a buffer has one writer (`OneMaker`, `OneWriterNext`), and that each operand
has a producer (`Maker`). That the producer is kept and comes earlier is about
elimination and schedule: `LiveClosed`, that with an op the producers of its
operands are live and that a live op leads somewhere; `Scheduled`, that the
schedule lists each live op outside cycles once and behind all live producers of
its operands, by induction over the levels (`LevelOrdered`). `TrainingAssumption`
says of the graphs what `TensorNode::autoDiff` makes of a weight: one SGD op,
with a momentum of its own that nothing produces and a result that nothing
reads; TLC evaluates it on every run of the module. Without it two SGD ops could
update one weight in one iteration.

`CompilerProofs` proves `Disjoint` of every compilation: of any user's graph or
network, any passes, and while the program is emitted and runs. That
`allocate` only ever adds to its accumulator settles one step (`PlaceGiven`); the
rest is that nothing else touches the plan and that it is made at the right
time. `PlanInv` says that the three entries of `genCode` are the last of the
passes and occur nowhere else (`Queue`, `Lies`; `PassLists` shows it of all
that `compile` puts before them), so that nothing has a place while a pass may
still make Tensors, and that no pass runs once something has; the emission does
change the graph, the layouts of Tensors, but no size (`Relaid`).
`MemoryInv` adds to `Disjoint` that places are numbers and lie below the
accumulator. Both speak of states that are `Sized`: what has a place is a Tensor
of the graph with a number of axes. That is not proved, because graphs are made by
folds over data; it is part of `Linked`, which TLC evaluates in every state of
the run.

Model-checked only: liveness (`LoweringCompletes`, `LoopEnds`, `ProcessEnds`,
`ProgramEnds`, `SearchEnds`), which is out of reach of the prover;
`UpdatesLast`, which is a fact about the levels of the user's network and not of
every graph; the other properties of `Compiler` (`WalksOrdered`,
`Linked`, `NamesDistinct`, `ImportFaithful`, `CodeComputes`, `WeightsLearn`,
`PassesPreserve`), whose passes are folds over the graph; and the rest of
`StrategiesSound`, and `GradientsAdjoint`, which sum over data.
`NoneStuck` is the part of `ProgramEnds` that is no liveness: some rank can
always go on. That each of them ends in time is left to the run.

## Plan

In the order of what matters most in this code:

1. `ParallelLowering`, its runs and proofs: done.
2. `SampleStream`, `DataLoader`, `TrainingRun`, their runs and proofs: done.
3. `SPMDCodegen`, its runs and proofs; `SPMD` and `ParallelProgram`, their
   runs and proofs: done. To come:
   initialisation Scatters and Transforms of partial sums at run time.
4. `IRGraph`, the passes of the engine, `Compiler`: done. To come: a proof that
   links stay mirrored under every operation, `extractSubGraph`, several
   rounds of the emitted loop.
5. `StrategyGen`, `Kernels`, `StrategySearch`: done. To come: the cost model
   in the place of an arbitrary cost.
6. The parallel passes behind the training passes in one composition: from the
   user's network to the ranks.

## Not modelled

Dot output, logging and macros carry no control state. CUDA code emission
mirrors the CPU one. The old tiling pass (`ParallelingPass.h`),
`runCommSavingLowering`, `diff/AutoDiff.cpp` and `Optimizer::runOptimizer` are
not run by the engine. The communication cost model is arithmetic on shapes:
the search is checked, and its theorem proved, for any costs.

Of the compiler: shapes beyond the number of axes; training with MKL-DNN, for
which the gradient ops have no primitives; batch normalisation in training,
which has no derivative in the code; the Debug ops, which only print;
`extractSubGraph` and copies of graphs. Of the kinds without a branch in
`emitFuncCall` the networks have those named above and no other. The networks trained give every tensor that needs a gradient one
reader: for a tensor with several the code keeps the gradient of the last
(a hazard at `dlOpAD.cpp:62`), and no example of the repository trains one.
The emitted loop is run for one round; counts of an accuracy op add up over
rounds by intent. The importer leaves the bias of a convolution without one in
its file uninitialised (`Caffe2Importer.cpp:211`); the files here name it.

Of the kernels: batch normalisation, groups of a convolution other than one,
and rounding. The allocator never asks whether its device is large enough, and
so the model has no capacity.

Of the SPMD program, three things are emitted in the model but not run:
PARENTOP Scatters, which only a test builds; Transforms of partial sums, which
no lowering asks for (`TransformsImplemented`); and inference programs. Ranks
do not fail: an MPI job ends as a whole when one does, and restarting from a
snapshot is `TrainingRun`'s subject.
