------------------------------ MODULE PassManager ------------------------------
(***************************************************************************)
(* The engine's queue of passes and the loop of the pass that runs.  One   *)
(* action of a pass module is one iteration of its loop.                   *)
(***************************************************************************)
EXTENDS IRGraph

VARIABLES
  g,        \* the graph every pass works on
  source,   \* the user's graph, as it was
  config,   \* train, mkldnn, lowering: the fields of Config that passes read
  plan,     \* names of the passes still to run, in order
  pass,     \* the pass whose loop runs, or "none"
  todo,     \* the nodes that loop has still to visit
  failed    \* an assertion stopped the compiler

passVars == <<g, source, config, plan, pass, todo, failed>>

(* The next pass in the queue is p. *)
Due(p) == ~failed /\ pass = "none" /\ plan # <<>> /\ Head(plan) = p

(* It starts to visit nodes. *)
Enter(p, nodes) ==
  /\ pass' = p /\ plan' = Tail(plan) /\ todo' = nodes
  /\ UNCHANGED <<source, config, failed>>

(* A pass without a loop is one step. *)
Pop == plan' = Tail(plan) /\ UNCHANGED <<source, config, pass, todo, failed>>

(* The loop of p is at node n. *)
At(p, n) == ~failed /\ pass = p /\ todo # <<>> /\ n = Head(todo)

NextNode == todo' = Tail(todo) /\ UNCHANGED <<source, config, plan, pass, failed>>

(* The loop of p has visited all its nodes. *)
Leave(p) ==
  /\ ~failed /\ pass = p /\ todo = <<>> /\ pass' = "none"
  /\ UNCHANGED <<source, config, plan, todo, failed>>

Fail == failed' = TRUE /\ UNCHANGED <<source, config, plan, pass, todo>>

Compiled == ~failed /\ pass = "none" /\ plan = <<>>
=============================================================================
