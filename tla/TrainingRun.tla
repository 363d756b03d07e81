------------------------------- MODULE TrainingRun ------------------------------
(***************************************************************************)
(* The training program that Codegen and ParallelCodegen emit: a loop that *)
(* loads a batch, runs the ops of the graph on it (which trains the        *)
(* weights), counts the iteration and now and then saves a snapshot.  The  *)
(* process may die at any point and be started again, from nothing or, by  *)
(* its user, from any snapshot file it left behind.                        *)
(*                                                                         *)
(* The serial program loops while the loader has batches; the MPI program  *)
(* (here its rank 0, which does the loading and saving) counts iterations, *)
(* ignores what the loader answers, and cannot be started from a snapshot. *)
(***************************************************************************)
EXTENDS DataLoader

CONSTANTS
  MaxCrashes  \* bound on the times a process dies

ASSUME CrashAssumption == MaxCrashes \in Nat

ASSUME ProgramAssumption ==
  \A c \in Loaders :
    /\ c.mpi \in BOOLEAN
    /\ c.maxIters \in Nat  \* max_iters, 0: as many as the epochs have batches
    /\ c.snapshot \in Nat  \* snapshot interval, 0: none

VARIABLES
  phase,   \* where the process is in the program, "down" if there is none
  iter,    \* iter
  w,       \* the weights: what they started from, and the batches trained on
  from,    \* the iteration this process resumed from (a history variable)
  files,   \* the snapshot files, at most one for each iteration
  crashes  \* the number of crashes so far

programVars == <<phase, iter, w, from>>
vars == <<loaderVars, programVars, files, crashes>>

RunInit ==
  /\ Init
  /\ phase = "down"
  /\ iter = 0
  /\ w = [base |-> "garbage", batches |-> <<>>]
  /\ from = 0
  /\ files = {}
  /\ crashes = 0

(* main: memory is allocated and the loader constructed. *)
Start ==
  /\ phase = "down"
  /\ phase' = "started"
  /\ Construct
  /\ iter' = 0
  /\ w' = [base |-> "garbage", batches |-> <<>>]
  /\ from' = 0
  /\ UNCHANGED <<files, crashes>>

(* emitTensorInitializations *)
InitTensors ==
  /\ phase = "started"
  /\ phase' = "head"
  /\ w' = [base |-> "init", batches |-> <<>>]
  /\ UNCHANGED <<loaderVars, iter, from, files, crashes>>

(* Mutant: the weights are loaded, the iteration count is not restored. *)
RestoreUncounted(f) ==
  /\ phase = "started" /\ ~loader.mpi
  /\ phase' = "head"
  /\ w' = IF f.whole THEN f.w ELSE w
  /\ Shift(IF f.whole THEN f.at ELSE 0)
  /\ UNCHANGED <<iter, from, files, crashes>>

(***************************************************************************)
(* emitTensorInitFromSnapshot.  The result of parsing is not looked at.    *)
(* The weights come before the iteration count in the file: of a torn one  *)
(* the count is lost (0 is returned) and some weights stay uninitialised.  *)
(***************************************************************************)
Restore(f) ==
  /\ phase = "started" /\ ~loader.mpi
  /\ phase' = "head"
  /\ w' = IF f.whole THEN f.w ELSE w
  /\ iter' = IF f.whole THEN f.at ELSE 0
  /\ from' = iter'
  /\ Shift(iter')
  /\ UNCHANGED <<files, crashes>>

(***************************************************************************)
(* The loop.  MaxIter is max_iter of the MPI program.                      *)
(***************************************************************************)
MaxIter ==
  IF loader.maxIters = 0
  THEN (loader.num * loader.epochs) \div loader.mini
  ELSE loader.maxIters

Load ==
  /\ phase = "head"
  /\ loader.mpi => iter < MaxIter
  /\ Call
  /\ phase' = "fetch"
  /\ UNCHANGED <<iter, w, from, files, crashes>>

Fetch ==
  /\ phase = "fetch"
  /\ Read \/ Wrap
  /\ UNCHANGED <<programVars, files, crashes>>

Due == loader.snapshot > 0 /\ (iter + 1) % loader.snapshot = 0

(* Mutant: the serial program does not look at the loader's answer either. *)
TrainAnyway ==
  /\ phase = "fetch"
  /\ pc = "ready" \/ (pc = "over" /\ Len(w.batches) < MaxBatches)
  /\ w' = [w EXCEPT !.batches = Append(@, buf)]
  /\ iter' = iter + 1
  /\ phase' = IF Due THEN "save" ELSE "head"
  /\ UNCHANGED <<loaderVars, from, files, crashes>>

(* emitFuncCalls and iter++: an SGD op at the end of the graph updates w. *)
Train ==
  /\ phase = "fetch"
  /\ pc = "ready" \/ (pc = "over" /\ loader.mpi)
  /\ w' = [w EXCEPT !.batches = Append(@, buf)]
  /\ iter' = iter + 1
  /\ phase' = IF Due THEN "save" ELSE "head"
  /\ UNCHANGED <<loaderVars, from, files, crashes>>

Finish ==
  /\ \/ phase = "fetch" /\ pc = "over" /\ ~loader.mpi
     \/ phase = "head" /\ loader.mpi /\ iter >= MaxIter
  /\ phase' = "ended"
  /\ UNCHANGED <<loaderVars, iter, w, from, files, crashes>>

(***************************************************************************)
(* emitSaveSnapshot: the file named after the iteration is truncated, then *)
(* written.                                                                *)
(***************************************************************************)
Others == {f \in files : f.at # iter}

TruncateFile ==
  /\ phase = "save"
  /\ files' = Others \cup {[at |-> iter, whole |-> FALSE, w |-> w]}
  /\ phase' = "saving"
  /\ UNCHANGED <<loaderVars, iter, w, from, crashes>>

WriteFile ==
  /\ phase = "saving"
  /\ files' = Others \cup {[at |-> iter, whole |-> TRUE, w |-> w]}
  /\ phase' = "head"
  /\ UNCHANGED <<loaderVars, iter, w, from, crashes>>

Crash ==
  /\ phase \notin {"down", "ended"} /\ crashes < MaxCrashes
  /\ phase' = "down"
  /\ crashes' = crashes + 1
  /\ UNCHANGED <<loaderVars, iter, w, from, files>>

Step ==
  \/ InitTensors \/ (\E f \in files : Restore(f))
  \/ Load \/ Fetch \/ Train \/ TruncateFile \/ WriteFile \/ Finish

RunNext == Start \/ Step \/ Crash

RunSpec == RunInit /\ [][RunNext]_vars

(* A process that runs keeps running; nobody is obliged to start one. *)
FairRun == RunSpec /\ WF_vars(Step)

-----------------------------------------------------------------------------
Done == Len(w.batches)

Weights == [base : {"garbage", "init"}, batches : Seq([1 .. loader.mini -> Int])]

RunTypeOK ==
  /\ TypeOK
  /\ phase \in {"down", "started", "head", "fetch", "save", "saving", "ended"}
  /\ iter \in Nat /\ from \in Nat /\ crashes \in 0 .. MaxCrashes
  /\ w \in Weights
  /\ \A f \in files : f.at \in Nat /\ f.whole \in BOOLEAN /\ f.w \in Weights

(***************************************************************************)
(* A whole snapshot file named after iteration i holds weights trained on  *)
(* i batches (whoever wrote it: a process that resumed from an earlier one *)
(* goes on counting, and rewrites files another process left).             *)
(***************************************************************************)
SnapshotsCount ==
  \A f \in files : f.whole => Len(f.w.batches) = f.at

(***************************************************************************)
(* A process that did not resume past iteration 0 trains on the batches of *)
(* the sample stream, each once and in order, as long as there are any:    *)
(* the serial program to the end, the MPI program, which does not listen   *)
(* to the loader, up to the number of batches the epochs have.             *)
(***************************************************************************)
TrainsInOrder ==
  phase # "down" /\ from = 0 /\ loader.file >= loader.num =>
    \A b \in 1 .. Done : b <= Stream!Total => w.batches[b] = Stream!Batch(b - 1)

(***************************************************************************)
(* Whatever crashes and resumptions there were, the process that ends has  *)
(* trained on exactly as many batches as one that was never interrupted:   *)
(* none lost, none counted twice.                                          *)
(***************************************************************************)
RunComplete ==
  phase = "ended" =>
    /\ iter = Done
    /\ Done = IF loader.mpi THEN MaxIter ELSE Stream!Total

(***************************************************************************)
(* A resumed process reads the wrong samples (shift cannot seek), but only *)
(* until the epoch it resumed in is over, it never reads past the end of   *)
(* the file, and it is always behind, never ahead.                         *)
(***************************************************************************)
ResumeRealigns ==
  phase \in {"head", "fetch", "save", "saving"} /\ opened /\ loader.file >= loader.num =>
    /\ ~failed
    /\ pos <= sampleIter
    /\ epoch > (from * loader.mini) \div loader.num => pos = sampleIter

(* A process that is not killed comes to its end. *)
ProcessEnds == phase = "started" ~> phase \in {"ended", "down"}
=============================================================================
