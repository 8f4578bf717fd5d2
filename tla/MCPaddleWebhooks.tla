---------------------------- MODULE MCPaddleWebhooks ----------------------------
(* One or two subscriptions, one or two plans, one or two deliveries at once. *)
EXTENDS PaddleWebhooks, TLC

Symmetry == Permutations(Handlers)
=================================================================================
