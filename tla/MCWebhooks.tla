----------------------------- MODULE MCWebhooks -----------------------------
(* Webhooks for TLC: the constants are given by the configurations. *)
EXTENDS Webhooks
=============================================================================
