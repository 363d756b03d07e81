------------------------------ MODULE SampleStream ------------------------------
(***************************************************************************)
(* What a data loader promises the loop that calls it: the batches it      *)
(* hands out are consecutive pieces of the sample file, read over and over *)
(* for the given number of epochs; a batch may straddle two epochs, and    *)
(* what is left after the last whole batch is dropped.                     *)
(***************************************************************************)
EXTENDS Integers

VARIABLES
  loader,  \* its parameters
  n,       \* the batches handed out
  state,   \* "idle", "asked", "handed" or "over"
  batch    \* the batch last handed out, Nothing outside "handed"

streamVars == <<loader, n, state, batch>>

Nothing == <<>>

(* Samples are numbered from 0, as batches are. *)
Batch(b) ==
  [j \in 1 .. loader.mini |-> (b * loader.mini + j - 1) % loader.num]

Total == (loader.num * loader.epochs) \div loader.mini

(* The file holds the samples that were declared. *)
Intact == loader.file >= loader.num

Init ==
  /\ n = 0
  /\ state = "idle"
  /\ batch = Nothing

Ask ==
  /\ state # "asked"
  /\ state' \in {"asked", "over"}
  /\ state' = "over" => n = Total
  /\ state = "over" => state' = "over"
  /\ batch' = Nothing
  /\ UNCHANGED <<loader, n>>

Hand ==
  /\ state = "asked" /\ n < Total
  /\ state' = "handed"
  /\ n' = n + 1
  /\ Intact => batch' = Batch(n)
  /\ UNCHANGED loader

Exhaust ==
  /\ state = "asked" /\ n = Total
  /\ state' = "over"
  /\ batch' = Nothing
  /\ UNCHANGED <<loader, n>>

Next == Ask \/ Hand \/ Exhaust

Spec == Init /\ [][Next]_streamVars
=============================================================================
