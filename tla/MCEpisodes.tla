------------------------------ MODULE MCEpisodes -----------------------------
(* Threads, keys, contents and wings may be exchanged; episodes tie by id, and *)
(* every order of the ids is among the choices of Newest.                      *)
EXTENDS Episodes, TLC

Interchangeable ==
  Permutations(Thread) \union Permutations(Key) \union Permutations(Content)
    \union Permutations(Wing)
=============================================================================
