------------------------------ MODULE MCFanOut ------------------------------
(* A member that repeats a content, once signed in the earlier scheme, beside  *)
(* one that holds the other; and a start with one row each.                    *)
EXTENDS FanOut

MCSignal == [c \in Content |-> c]
Own(b, k, c, v) == [content |-> c, vis |-> v, author |-> b,
                    sig |-> [by |-> b, key |-> k, content |-> c, vis |-> v]]
OwnLegacy(b, c, v) == [content |-> c, vis |-> v, author |-> b,
                       sig |-> [by |-> b, content |-> c, vis |-> v]]
Unsigned(c, v) == [content |-> c, vis |-> v, author |-> NoBrain, sig |-> NoSignature]
MCCorpora ==
  {<<[k \in Key |-> IF k = 3 THEN OwnLegacy(1, 2, 1) ELSE Own(1, k, k, 1)],
     [k \in Key |-> IF k = 1 THEN Own(2, 1, 1, 1) ELSE NoRow]>>,
   <<[k \in Key |-> IF k = 1 THEN Unsigned(1, 0) ELSE NoRow],
     [k \in Key |-> IF k = 1 THEN Own(2, 1, 2, 1) ELSE NoRow]>>}
MCWrites == {<<1, 1, 2, 1>>, <<1, 1, 1, 1>>, <<1, 3, 2, 0>>}
MCPolicies ==
  {[fusion |-> "Rrf", cap |-> 3, grants |-> {}, signed |-> FALSE],
   [fusion |-> "Rrf", cap |-> 2, grants |-> {1}, signed |-> TRUE],
   [fusion |-> "RawScore", cap |-> 3, grants |-> {}, signed |-> FALSE]}
=============================================================================
