--------------------------- MODULE MCVerification ---------------------------
(* The single attempt of DefaultRunConfig, the three in a row of           *)
(* config.example.yaml, and two in a row out of three attempts.            *)
EXTENDS Verification

Configurations == {<<1, 1>>, <<3, 3>>, <<3, 2>>}
=============================================================================
