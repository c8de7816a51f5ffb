------------------------------ MODULE Positions ------------------------------
(***************************************************************************)
(* What a PositionTracker promises: the code that is being compiled enters *)
(* positions and leaves them again, in any order, and the current position *)
(* is the one entered last among those not left.  Positions are numbered   *)
(* in the order they are entered; the first belongs to the tracker.        *)
(***************************************************************************)
EXTENDS Naturals

CONSTANT Nowhere

VARIABLES
  entered,  \* how many positions have been entered
  open,     \* those not left yet
  curr      \* the current position

vars == <<entered, open, curr>>

Latest(S) == CHOOSE p \in S : \A q \in S : q <= p

Init == entered = 1 /\ open = {1} /\ curr = 1

Enter ==
  /\ open # {}
  /\ entered' = entered + 1
  /\ open' = open \cup {entered + 1}
  /\ curr' = entered + 1

Leave(p) ==
  /\ p \in open \ {1}
  /\ open' = open \ {p}
  /\ curr' = Latest(open \ {p})
  /\ UNCHANGED entered

Close ==
  /\ open = {1}
  /\ open' = {} /\ curr' = Nowhere
  /\ UNCHANGED entered

Next == Enter \/ (\E p \in open : Leave(p)) \/ Close

Spec == Init /\ [][Next]_vars
=============================================================================
