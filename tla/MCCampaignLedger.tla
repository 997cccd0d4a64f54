-------------------------- MODULE MCCampaignLedger --------------------------
(***************************************************************************)
(* The ledger on small instances: the sets of processes and the bounds are *)
(* those of the configurations.                                            *)
(***************************************************************************)
EXTENDS CampaignLedgerInvariant
=============================================================================
