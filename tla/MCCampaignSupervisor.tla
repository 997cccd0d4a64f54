---------------------- MODULE MCCampaignSupervisor ----------------------
(* Two scopes; the first of the manifest is the one that may hang.         *)
EXTENDS CampaignSupervisor

CONSTANTS btc, eth

Scopes2 == <<btc, eth>>

(* The interval has just the room that the worst ticks need.               *)
ASSUME IntervalAssumption ==
    /\ Powers /\ IntervalSuffices
    /\ Poll + 2 * QueueCost(Positions) - Timeout = Interval + 1
=============================================================================
