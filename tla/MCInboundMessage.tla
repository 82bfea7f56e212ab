-------------------------- MODULE MCInboundMessage --------------------------
(* Small instances of InboundMessage: webhooks, messages and inboxes are   *)
(* interchangeable.                                                        *)
EXTENDS InboundMessage, TLC

CONSTANTS e1, e2, e3, m1, m2, i1, i2, g1

Symmetry == Permutations(Webhooks) \cup Permutations(Messages) \cup Permutations(Inboxes)

=============================================================================
