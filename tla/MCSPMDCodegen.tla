----------------------------- MODULE MCSPMDCodegen -----------------------------
(***************************************************************************)
(* Instances of SPMDCodegen: all schedules of up to MaxOps ops of seven    *)
(* kinds, and those whose first op is a run-once Scatter whose result is   *)
(* initialised by it, as testJointGraph.cpp builds them.                   *)
(***************************************************************************)
EXTENDS SPMDCodegen

CONSTANT MaxOps

POp(kind, pre, post, par) ==
  [kind |-> kind, pre |-> pre, post |-> post, par |-> par, once |-> FALSE]

OpKinds ==
  {POp("Scatter", 0, 0, FALSE), POp("Gather", 0, 0, FALSE), POp("Reduce", -2, -2, FALSE),
   POp("Transform", 0, 1, TRUE), POp("Transform", -2, 0, TRUE),
   POp("Compute", 0, 0, TRUE), POp("Compute", 0, 0, FALSE)}

Sequences_(n) == UNION {[1 .. m -> OpKinds] : m \in 0 .. n}

OnceScatter == [POp("Scatter", -1, -1, FALSE) EXCEPT !.once = TRUE]

AllPlans ==
  {[ops |-> s, inits |-> <<>>] : s \in Sequences_(MaxOps)}
    \cup {[ops |-> <<OnceScatter>> \o s, inits |-> <<1>>] : s \in Sequences_(MaxOps - 1)}
================================================================================
