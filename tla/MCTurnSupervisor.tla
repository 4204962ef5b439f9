-------------------------- MODULE MCTurnSupervisor --------------------------
(* TurnSupervisor on a few turns and attachments.                          *)
EXTENDS TurnSupervisor, TLC

\* Turns differ only in what spawn records, attachments not at all.
Symmetry == Permutations(Turns) \cup Permutations(Bidis)
=============================================================================
