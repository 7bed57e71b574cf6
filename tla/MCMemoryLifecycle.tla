-------------------------- MODULE MCMemoryLifecycle -------------------------
(* Threads, keys and contents may be exchanged. *)
EXTENDS MemoryLifecycle, TLC

Interchangeable ==
  Permutations(Thread) \union Permutations(Key) \union Permutations(Version)
=============================================================================
