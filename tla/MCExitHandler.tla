---------------------------- MODULE MCExitHandler ----------------------------
(***************************************************************************)
(* Small instances of ExitHandler for TLC.  Trading is unrestricted; the   *)
(* number of disturbances (position closes, cancellations, clean-ups,      *)
(* breaker resets, foreign fills, hang-ups) is bounded by MaxDisturbances. *)
(***************************************************************************)
EXTENDS ExitHandler, TLC

CONSTANTS p1, p2, s1, s2, x1, x2, MaxDisturbances

VARIABLE disturbances

OnePrimary == {p1}
OneSubmission == {s1}
TwoPrimaries == {p1, p2}
TwoSubmissions == {s1, s2}
OnePrimaryOf == (s1 :> p1)
BothPrimariesOf == (s1 :> p1 @@ s2 :> p2)
RetriedPrimaryOf == (s1 :> p1 @@ s2 :> p1)
StopOnly == (p1 :> {"sl"})
StopAndTarget == (p1 :> {"sl"} @@ p2 :> {"tp"})
TwoSymbolOf == (p1 :> x1 @@ p2 :> x1)
BothLegs == (p1 :> Legs)
OneSymbolOf == (p1 :> x1)

mcVars == <<vars, disturbances>>

MCInit == Init /\ disturbances = 0

MCNext ==
  \/ Trading /\ UNCHANGED disturbances
  \/ /\ disturbances < MaxDisturbances
     /\ Disturbance \/ HangUp
     /\ disturbances' = disturbances + 1

MCSpec == MCInit /\ [][MCNext]_mcVars
MCFairSpec == MCSpec /\ Fairness
==============================================================================
