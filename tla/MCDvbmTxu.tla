------------------------------ MODULE MCDvbmTxu ------------------------------
(***************************************************************************)
(* Model-checking instance of DvbmTxu: both board variants and an unknown  *)
(* device id (the default case), firmware just below and at 0x0E07, three  *)
(* probes so that a failed probe can follow a bound and removed one, and a *)
(* chain of two descriptors so that a completion can fall inside the       *)
(* handler's run for the one before it.                                    *)
(***************************************************************************)
EXTENDS DvbmTxu

MCDeviceIds == {"TXU", "TXE", "OTHER"}

MCVersions == {3590, 3591}
=============================================================================
