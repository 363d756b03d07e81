------------------------------- MODULE DataLoader -------------------------------
(***************************************************************************)
(* The DataLoader class compiled into every generated training program:    *)
(* fixed-size batches are cut out of a binary file of samples, wrapping at *)
(* the end of each epoch.  A call of next is several steps: the opening    *)
(* (lazily, in the first call), then one step per iteration of its loop.   *)
(* Positions count samples, not bytes.                                     *)
(***************************************************************************)
EXTENDS Integers, Sequences

CONSTANTS
  Loaders,   \* the parameters loaders are constructed with
  MaxBatches \* bound on the calls of next (the code has none)

ASSUME LoaderAssumption ==
  \A c \in Loaders :
    /\ c.num \in Nat        \* _sample_num, as declared by the user
    /\ c.mini \in Nat \ {0} \* _minibatch, the first dimension of a tensor
    /\ c.epochs \in Nat     \* _max_epoch
    /\ c.file \in Nat       \* the samples the file really has

VARIABLES
  loader,     \* the parameters
  opened,     \* init_flag
  pos,        \* the position of _stream
  failed,     \* failbit of _stream
  sampleIter, \* _sample_iter
  epoch,      \* _epoch
  res,        \* batch_res, what is still to be read by this call
  buf,        \* the label and data tensors: the samples in memory
  pc,         \* "idle", "filling" (inside next), "ready" (true), "over" (false)
  given       \* the batches given so far (a history variable)

loaderVars == <<loader, opened, pos, failed, sampleIter, epoch, res, buf, pc, given>>

Garbage == -1   \* a sample that was never read: uninitialised or left-over memory

Least(a, b) == IF a <= b THEN a ELSE b

(* The constructor, and the fresh memory of the tensors. *)
FreshBuffer == [j \in 1 .. loader.mini |-> Garbage]

Init ==
  /\ loader \in Loaders
  /\ opened = FALSE /\ pos = 0 /\ failed = FALSE
  /\ sampleIter = 0 /\ epoch = 0 /\ res = 0
  /\ buf = FreshBuffer
  /\ pc = "idle" /\ given = 0

Construct ==
  /\ opened' = FALSE /\ pos' = 0 /\ failed' = FALSE
  /\ sampleIter' = 0 /\ epoch' = 0 /\ res' = 0
  /\ buf' = FreshBuffer
  /\ pc' = "idle" /\ given' = 0
  /\ UNCHANGED loader

(***************************************************************************)
(* shift: before the first call of next the stream is not open.  Its seekg *)
(* then sets failbit, which the open of check_init clears again.           *)
(***************************************************************************)
Shift(b) ==
  /\ pc = "idle"
  /\ loader.num > 0
  /\ epoch' = (loader.mini * b) \div loader.num
  /\ sampleIter' = (loader.mini * b) % loader.num
  /\ pos' = IF opened /\ ~failed THEN sampleIter' ELSE pos
  /\ failed' = (failed \/ ~opened)
  /\ given' = b
  /\ UNCHANGED <<loader, opened, res, buf, pc>>

(* Mutant: open does not clear failbit. *)
CallUncleared ==
  /\ pc # "filling" /\ given < MaxBatches
  /\ opened' = TRUE
  /\ pos' = IF opened THEN pos ELSE 0
  /\ IF epoch = loader.epochs
     THEN pc' = "over" /\ UNCHANGED res
     ELSE pc' = "filling" /\ res' = loader.mini
  /\ UNCHANGED <<loader, failed, sampleIter, epoch, buf, given>>

(* Mutant: the epoch is tested after a restart only. *)
CallUntested ==
  /\ pc # "filling" /\ given < MaxBatches
  /\ opened' = TRUE
  /\ pos' = IF opened THEN pos ELSE 0
  /\ failed' = (opened /\ failed)
  /\ pc' = "filling" /\ res' = loader.mini
  /\ UNCHANGED <<loader, sampleIter, epoch, buf, given>>

(* next, up to its loop: check_init and the test of the epoch. *)
Call ==
  /\ pc # "filling" /\ given < MaxBatches
  /\ opened' = TRUE
  /\ pos' = IF opened THEN pos ELSE 0
  /\ failed' = (opened /\ failed)
  /\ IF epoch = loader.epochs
     THEN pc' = "over" /\ UNCHANGED res
     ELSE pc' = "filling" /\ res' = loader.mini
  /\ UNCHANGED <<loader, sampleIter, epoch, buf, given>>

(***************************************************************************)
(* read(n): past the end of the file get() and read() set failbit and      *)
(* leave memory undefined.  Once set, failbit is never cleared.            *)
(***************************************************************************)
Sample(m) == IF failed \/ m >= loader.file THEN Garbage ELSE m

Filled(n) ==
  LET first == loader.mini - res
  IN  [j \in 1 .. loader.mini |->
         IF j \in first + 1 .. first + n THEN Sample(pos + j - first - 1) ELSE buf[j]]

(* Mutant: a whole batch is read, whatever is left of the epoch. *)
ReadWhole ==
  /\ pc = "filling" /\ sampleIter < loader.num
  /\ buf' = Filled(res)
  /\ pos' = IF failed THEN pos ELSE Least(pos + res, loader.file)
  /\ failed' = (failed \/ pos + res > loader.file)
  /\ sampleIter' = sampleIter + res
  /\ res' = 0
  /\ pc' = "ready"
  /\ given' = given + 1
  /\ UNCHANGED <<loader, opened, epoch>>

Read ==
  /\ pc = "filling" /\ sampleIter < loader.num
  /\ LET n == Least(res, loader.num - sampleIter)
     IN  /\ buf' = Filled(n)
         /\ pos' = IF failed THEN pos ELSE Least(pos + n, loader.file)
         /\ failed' = (failed \/ pos + n > loader.file)
         /\ sampleIter' = sampleIter + n
         /\ res' = res - n
         /\ IF res = n
            THEN pc' = "ready" /\ given' = given + 1
            ELSE UNCHANGED <<pc, given>>
  /\ UNCHANGED <<loader, opened, epoch>>

(* Mutant: restart does not seek back. *)
WrapUnsought ==
  /\ pc = "filling" /\ sampleIter = loader.num
  /\ epoch' = epoch + 1
  /\ sampleIter' = 0
  /\ pc' = IF epoch' = loader.epochs THEN "over" ELSE "filling"
  /\ UNCHANGED <<loader, opened, pos, failed, res, buf, given>>

(* Mutant: restart does not count the epoch. *)
WrapUncounted ==
  /\ pc = "filling" /\ sampleIter = loader.num
  /\ sampleIter' = 0
  /\ pos' = IF failed THEN pos ELSE 0
  /\ UNCHANGED <<loader, opened, failed, epoch, res, buf, pc, given>>

(* restart: the next epoch begins, or next returns false. *)
Wrap ==
  /\ pc = "filling" /\ sampleIter = loader.num
  /\ epoch' = epoch + 1
  /\ sampleIter' = 0
  /\ pos' = IF failed THEN pos ELSE 0
  /\ pc' = IF epoch' = loader.epochs THEN "over" ELSE "filling"
  /\ UNCHANGED <<loader, opened, failed, res, buf, given>>

Next == Call \/ Read \/ Wrap

(* while (loader.next(label, data)) { ... }, a loader just constructed. *)
Spec == Init /\ [][Next]_loaderVars /\ WF_loaderVars(Next)

(* The same loop, the loader having been shifted by some batches first. *)
ShiftedNext ==
  \/ Next
  \/ \E b \in 1 .. MaxBatches :
       /\ ~opened /\ given = 0
       /\ b * loader.mini <= loader.num * loader.epochs
       /\ Shift(b)

ShiftedSpec == Init /\ [][ShiftedNext]_loaderVars

-----------------------------------------------------------------------------
Stream == INSTANCE SampleStream WITH
  n <- given,
  state <- CASE pc = "filling" -> "asked" [] pc = "ready" -> "handed" [] OTHER -> pc,
  batch <- IF pc = "ready" THEN buf ELSE <<>>

(* Every variable has its type and stays within the epoch and the batch. *)
TypeOK ==
  /\ loader \in Loaders
  /\ opened \in BOOLEAN
  /\ failed \in BOOLEAN
  /\ pos \in Nat
  /\ sampleIter \in 0 .. loader.num
  /\ epoch \in 0 .. loader.epochs
  /\ res \in 0 .. loader.mini
  /\ buf \in [1 .. loader.mini -> 0 .. loader.num - 1 \cup {Garbage}]
  /\ pc \in {"idle", "filling", "ready", "over"}
  /\ given \in Nat

(***************************************************************************)
(* The samples read are the batches given and the begun one; and unless    *)
(* the file was too short the stream stands where _sample_iter says, the   *)
(* two being advanced and reset apart from each other.                     *)
(***************************************************************************)
Consumed == given * loader.mini + (IF pc = "filling" THEN loader.mini - res ELSE 0)

Position ==
  /\ pc # "over" => epoch * loader.num + sampleIter = Consumed
  /\ opened /\ ~failed => pos = sampleIter
  /\ loader.file >= loader.num => ~failed

(***************************************************************************)
(* The loop over next sees the stream of batches that SampleStream         *)
(* promises, and no more and no fewer of them.                             *)
(***************************************************************************)
Implements == Stream!Spec

(* The loop ends: however short the file, next returns false at last. *)
LoopEnds == <>(pc = "over")

(***************************************************************************)
(* The comment on shift in DataLoader.h, "shift n batch": the batches that *)
(* follow are those that would have followed n calls of next.              *)
(***************************************************************************)
ShiftSkips ==
  pc = "ready" /\ loader.file >= loader.num => buf = Stream!Batch(given - 1)
=============================================================================
