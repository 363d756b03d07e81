------------------------------ MODULE MCDataLoader ------------------------------
(* Small loaders: every relation of batch, epoch and file size. *)
EXTENDS DataLoader

SmallLoaders ==
  {c \in [num : 0 .. 4, mini : 1 .. 5, epochs : 0 .. 3, file : 0 .. 5] :
     c.file \in c.num - 1 .. c.num + 1}

WholeFiles == {c \in SmallLoaders : c.file >= c.num}
=============================================================================
