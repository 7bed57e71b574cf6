--------------------------- MODULE MCConsolidation ---------------------------
(* Two memories and a summary of both, which a second summary may take in; the *)
(* first two may also be linked to the second directly, in either order.       *)
EXTENDS Consolidation, TLC

CONSTANTS a, b, s1, s2

MCKey == {a, b, s1, s2}
MCGiven == {{}, {a, b}, MCKey}
MCBatches == {{}, {s1}, {a, s2}}
MCRequests ==
  {[sources |-> <<a, b>>, target |-> s1, summarise |-> TRUE, abort |-> FALSE],
   [sources |-> <<s1, a>>, target |-> s2, summarise |-> TRUE, abort |-> FALSE],
   [sources |-> <<b, s2>>, target |-> s1, summarise |-> FALSE, abort |-> TRUE]}
Interchangeable == Permutations(Thread)
=============================================================================
