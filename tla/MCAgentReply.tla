---------------------------- MODULE MCAgentReply ----------------------------
(* Small instances of AgentReply: two numbers of the company that one      *)
(* customer writes to, and which may share the inbox.                      *)
EXTENDS AgentReply, TLC

CONSTANTS e1, e2, m1, m2, i1, g1, g2, r1

Symmetry == Permutations(Webhooks) \cup Permutations(Messages)

=============================================================================
