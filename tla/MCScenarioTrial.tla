---------------------------- MODULE MCScenarioTrial ----------------------------
(***************************************************************************)
(* A trial of one scenario, on small instances.                            *)
(***************************************************************************)
EXTENDS ScenarioTrial

(* Some of the behaviours of Spec, to look further into them: what the     *)
(* bridge's threads, the campaign's cycles, the command and the verifier   *)
(* can do without a failure, they do at once, and nothing is asked for in  *)
(* vain.  What they violate, Spec violates.                                *)
BridgeDoesAlone(move) == move /\ UNCHANGED trialVars

AtOnce ==
    \/ BridgeDoesAlone(Boot) \/ BridgeDoesAlone(Connect) \/ BridgeDoesAlone(Subscribe)
    \/ BridgeDoesAlone(RefreshChecks) \/ BridgeDoesAlone(RefreshRecordsReady)
    \/ BridgeDoesAlone(ControlArms) \/ BridgeApplies \/ (Exit /\ BridgeGoes)
    \/ (~opened /\ SlotBecomesDue) \/ CycleReads \/ CycleRecords
    \/ CommandChecks \/ VerifierTakes \/ BeginRefuses \/ BeginResumes \/ CompletePeeks
    \/ CompleteResumes

PromptNext ==
    /\ Next /\ ((ENABLED AtOnce) => AtOnce)
    /\ ~FetchFails /\ ~CollectFails /\ ~RecoveryTimesOut
PromptSpec == Init /\ [][PromptNext]_vars
=============================================================================
