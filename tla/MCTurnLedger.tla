---------------------------- MODULE MCTurnLedger ----------------------------
(* TurnLedger for TLC: threads and turns are interchangeable. *)
EXTENDS TurnLedger, TLC

ThreadsAndTurns == Permutations(Thread) \union Permutations(Turn)
=============================================================================
