------------------------- MODULE MCProviderRequests -------------------------
(***************************************************************************)
(* Small instances of ProviderRequests for TLC.                            *)
(***************************************************************************)
EXTENDS ProviderRequests
=============================================================================
