---------------------------- MODULE MCMsfzWriter ----------------------------
(* MsfzWriter for TLC.                                                      *)
EXTENDS MsfzWriter
=============================================================================
