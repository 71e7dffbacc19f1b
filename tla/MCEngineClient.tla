--------------------------- MODULE MCEngineClient ---------------------------
(* EngineClient with a few calls and a low threshold.                      *)
EXTENDS EngineClient

=============================================================================
