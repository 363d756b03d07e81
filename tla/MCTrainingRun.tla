------------------------------ MODULE MCTrainingRun -----------------------------
(***************************************************************************)
(* Training programs: two epochs of three samples in batches of one, two   *)
(* (which straddle epochs) or four, with a whole and a short file, saving  *)
(* every iteration, every other one or never.                              *)
(***************************************************************************)
EXTENDS TrainingRun

Program(mini, file, mpi, maxIters, snapshot) ==
  [num |-> 3, mini |-> mini, epochs |-> 2, file |-> file,
   mpi |-> mpi, maxIters |-> maxIters, snapshot |-> snapshot]

Serial ==
  {Program(mini, file, FALSE, 0, every) :
     mini \in {1, 2, 4}, file \in {2, 3}, every \in 0 .. 2}

Mpi ==
  {Program(mini, 3, TRUE, iters, 2) : mini \in {1, 2, 4}, iters \in {0, 2, 4}}

Programs == Serial \cup Mpi
=============================================================================
