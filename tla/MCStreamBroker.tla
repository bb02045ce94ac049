--------------------------- MODULE MCStreamBroker ---------------------------
(* Small instances of StreamBroker for TLC; the liveness property rules a   *)
(* symmetry reduction out.                                                  *)
EXTENDS StreamBroker
=============================================================================
