------------------------------ MODULE AckPacing ------------------------------
(***************************************************************************)
(* What the engine may rely on in a backtest: it is told that an event is  *)
(* done at most once, and only after the strategy has acknowledged it or   *)
(* because the event has no message for the strategy.                      *)
(***************************************************************************)
EXTENDS Integers

CONSTANTS
  Events,         \* engine event ids
  Silent          \* those without a message for the strategy

VARIABLES
  processed,      \* events the strategy has acknowledged
  released        \* event -> times its acknowledgement was forwarded

Init == processed = {} /\ released = [e \in Events |-> 0]

\* The strategy acknowledges ids and the gateway forwards out; either may be
\* empty.
Step(ids, out) ==
  /\ processed' = processed \cup ids
  /\ \A e \in out : e \in processed' \cup Silent /\ released[e] = 0
  /\ released' = [e \in Events |-> IF e \in out THEN released[e] + 1 ELSE released[e]]

Next == \E ids, out \in SUBSET Events : Step(ids, out)

Spec == Init /\ [][Next]_<<processed, released>>
==============================================================================
