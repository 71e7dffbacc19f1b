----------------------------- MODULE MCBatches ------------------------------
(* Batches on small instances.                                             *)
EXTENDS Batches

=============================================================================
