---------------------------- MODULE MCWebhooks -----------------------------
EXTENDS Webhooks

\* A public and a private IPv4 address, and the private one in mapped form.
MCAddress == {<<8, 8, 4, 4>>, <<10, 0, 0, 1>>, <<0, 0, 0, 0, 0, 65535, 2560, 1>>}
=============================================================================
