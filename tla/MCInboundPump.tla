---------------------------- MODULE MCInboundPump ----------------------------
(* InboundPump on a few frames and tool calls.                             *)
EXTENDS InboundPump, TLC

Symmetry == Permutations(Chats) \cup Permutations(Controls) \cup Permutations(Tools)
=============================================================================
