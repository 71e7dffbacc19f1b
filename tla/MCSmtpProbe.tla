---------------------------- MODULE MCSmtpProbe -----------------------------
(* SmtpProbe on a small instance.                                          *)
EXTENDS SmtpProbe

=============================================================================
