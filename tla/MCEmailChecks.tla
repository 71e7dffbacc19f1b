--------------------------- MODULE MCEmailChecks ----------------------------
(* EmailChecks on small instances.                                         *)
EXTENDS EmailChecks

=============================================================================
