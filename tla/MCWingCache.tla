---------------------------- MODULE MCWingCache ----------------------------
(* Threads, keys and wings may be exchanged. *)
EXTENDS WingCache, TLC

Interchangeable ==
  Permutations(Thread) \union Permutations(Key) \union Permutations(Wing)
=============================================================================
