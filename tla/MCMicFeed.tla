----------------------------- MODULE MCMicFeed ------------------------------
(* MicFeed for TLC.                                                        *)
EXTENDS MicFeed
=============================================================================
