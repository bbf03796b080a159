------------------------------ MODULE MCPhoto ------------------------------
(***************************************************************************)
(* The photo check and the limits in Redis side by side: the rate limiter, *)
(* the keys with the burst queue, and the gate share no state and are      *)
(* explored one at a time, the others at rest.                             *)
(***************************************************************************)
EXTENDS RedisLimits, PhotoGate

PhotoInit == RateInit /\ BurstInit /\ GateInit

PhotoNext ==
    \/ BurstInit /\ GateInit /\ RateNext /\ UNCHANGED gateVars
    \/ RateInit /\ GateInit /\ BurstNext /\ UNCHANGED gateVars
    \/ RateInit /\ BurstInit /\ GateNext /\ UNCHANGED limVars

PhotoSpec == PhotoInit /\ [][PhotoNext]_<<limVars, gateVars>> /\ GateFairness

(* The type invariant of both components.                                  *)
PhotoTypeOK == LimTypeOK /\ GateTypeOK
=============================================================================
