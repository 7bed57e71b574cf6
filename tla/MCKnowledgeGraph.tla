-------------------------- MODULE MCKnowledgeGraph --------------------------
(* A city and a person of the ontology; a city under two names and a person  *)
(* that it does not have; a functional predicate and one that accumulates;   *)
(* one fact of the wrong type and one whose object's type cannot be told.    *)
EXTENDS KnowledgeGraph, TLC

Ann == <<"person", "ann">>
Bob == [id |-> <<"person", "bob">>, aliases |-> {}]
Lisbon == [id |-> <<"city", "lisbon">>, aliases |-> {}]

MCMention == {"ann", "bob", "rome", "roma", "lisbon"}
MCType == {"person", "city"}
MCEntity == {Ann, Bob.id, Lisbon.id, <<"city", "rome">>}
MCPredicate == {"home", "saw"}
MCDomain == [p \in MCPredicate |-> {"person"}]
MCRange == [p \in MCPredicate |-> IF p = "home" THEN {"city"} ELSE {"city", "person"}]
MCSingleValued == {<<"home", "person">>}
MCGiven == <<Lisbon, Bob>>
MCCanon == [m \in MCMention |-> IF m = "roma" THEN "rome" ELSE m]
MCNear == [m \in MCMention |-> IF m = "roma" THEN <<"rome">> ELSE <<>>]

Says(p, o, types) == [s |-> "ann", p |-> p, o |-> o, types |-> types]
MCCalls == {Says("home", "roma", <<>>), Says("home", "lisbon", <<>>), Says("home", "bob", <<"person", "person">>),
            Says("saw", "ann", <<"person", "person">>), Says("saw", "roma", <<>>)}

Interchangeable == Permutations(Thread)
=============================================================================
