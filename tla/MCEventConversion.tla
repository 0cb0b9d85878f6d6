-------------------------- MODULE MCEventConversion --------------------------
(* EventConversion for TLC.  With two items a failure can come before or   *)
(* after something has been converted, and with two events an error can be *)
(* left for the next one.                                                  *)
EXTENDS EventConversion
=============================================================================
