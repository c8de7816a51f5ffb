------------------------------ MODULE DepsOrder ------------------------------
(***************************************************************************)
(* What a dependency graph promises its client, without queues or ready    *)
(* flags: once started, every edge is executed at most once, only after    *)
(* every edge that produces something it needs, and the execution ends     *)
(* either with a failure or when nothing that may execute is left.         *)
(***************************************************************************)
CONSTANT Edge

VARIABLES
  phase,  \* "build", "running", "finished" or "failed"
  made,   \* the edges the client declared
  needs,  \* needs[e]: the edges that write something e reads
  done    \* the edges executed so far

vars == <<phase, made, needs, done>>

Init ==
  /\ phase = "build"
  /\ made = {} /\ done = {}
  /\ needs = [e \in Edge |-> {}]

\* The client adds edges and dependencies; it takes nothing back.
Declare ==
  /\ phase = "build"
  /\ made' \in SUBSET Edge /\ made \subseteq made'
  /\ needs' \in [Edge -> SUBSET Edge]
  /\ \A e \in Edge : needs[e] \subseteq needs'[e]
  /\ UNCHANGED <<phase, done>>

Start ==
  /\ phase = "build"
  /\ phase' = "running"
  /\ UNCHANGED <<made, needs, done>>

Executable == {e \in made \ done : needs[e] \subseteq done}

Execute(e) ==
  /\ phase = "running"
  /\ e \in Executable
  /\ done' = done \cup {e}
  /\ UNCHANGED <<phase, made, needs>>

Fail ==
  /\ phase = "running"
  /\ phase' = "failed"
  /\ UNCHANGED <<made, needs, done>>

Finish ==
  /\ phase = "running"
  /\ Executable = {}
  /\ phase' = "finished"
  /\ UNCHANGED <<made, needs, done>>

Progress == (\E e \in Edge : Execute(e)) \/ Fail \/ Finish

Next == Declare \/ Start \/ Progress

Spec == Init /\ [][Next]_vars

FairSpec == Spec /\ WF_vars(Progress)
=============================================================================
