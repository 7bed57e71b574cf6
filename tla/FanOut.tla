------------------------------- MODULE FanOut -------------------------------
(***************************************************************************)
(* Federated recall: one query put to several brains and their answers     *)
(* merged into one ranking.                                                *)
(*                                                                         *)
(*   crates/spectral-graph/src/federation.rs  FederationCoordinator        *)
(*   crates/spectral-graph/src/brain.rs       verify_hit, signing          *)
(*                                                                         *)
(* The members are asked one after the other, each as it is at that moment; *)
(* between two answers any member may write, forget, import or sign, or    *)
(* fail to answer.  A row's signature covers what the row held when it was *)
(* read for signing.  Brains, keys and contents are numbers so that ties   *)
(* are broken as the code breaks them.  A score of reciprocal ranks is     *)
(* counted in parts of a common denominator; the code adds it up in f64,   *)
(* in the order of a HashMap, which can change the last bit of a sum of    *)
(* three or more: such a sum may be off by up to Error parts.  The         *)
(* creation time under a signature is left out.                            *)
(***************************************************************************)
EXTENDS Integers, Sequences, FiniteSets, SequencesExt, Functions

CONSTANTS
  Brain, Key, Content,   \* sets of numbers
  Clearance,             \* visibility levels: numbers, 0 is private
  Signal,                \* the score a member gives to each content
  Weights,               \* the weights a host may give a member
  Policies,              \* [fusion, cap, grants]
  K,                     \* the constant of reciprocal rank fusion
  Limit,                 \* the most a member returns
  Denominator,           \* common to the reciprocals of the ranks
  Error,                 \* how far the order of adding may move a sum
  Writes,                \* what hosts write: <<brain, key, content, visibility>>
  Corpora,               \* what the members hold at first
  MaxChanges             \* bound on the changes to the members

ASSUME FanOutConstants ==
  /\ Brain \subseteq Nat /\ Key \subseteq Nat /\ Content \subseteq Nat /\ Clearance \subseteq Nat
  /\ Signal \in [Content -> Nat] /\ Weights \subseteq Nat /\ K \in Nat \ {0} /\ Limit \in Nat
  /\ Policies \subseteq [fusion : {"Rrf", "RawScore"}, cap : Nat, grants : SUBSET Brain, signed : BOOLEAN]
  /\ Denominator \in Nat \ {0} /\ \A r \in 0 .. Limit : Denominator % (K + r) = 0
  \* Rounding is finer than the difference between two ranks.
  /\ Error \in Nat
  /\ \A r \in 0 .. Limit - 1 : (Denominator \div (K + r)) - (Denominator \div (K + r + 1)) > 2 * Error
  /\ Writes \subseteq Brain \X Key \X Content \X Clearance /\ MaxChanges \in Nat

VARIABLES
  rows,      \* the memories of each brain
  signing,   \* what each brain has read and is about to sign
  children,  \* the coordinator's members, in order, with their weights
  registry,  \* the brains whose directory it has recorded
  call,      \* the query under way
  result,    \* the answer to the last one, until something else happens
  signed,    \* history: what brains have signed
  changes    \* how many changes the members have made, up to the bound

vars == <<rows, signing, children, registry, call, result, signed, changes>>
memberVars == <<rows, signing, signed, changes>>

NoBrain == -1
Signature == [by : Brain, key : Key, content : Content, vis : Clearance]
\* Signed before the key was part of what is signed.
LegacySignature == [by : Brain, content : Content, vis : Clearance]
NoSignature == [by |-> NoBrain]
NoRow == [content |-> -1, sig |-> NoSignature]
Row == [content : Content, vis : Clearance, author : Brain \union {NoBrain},
        sig : Signature \union LegacySignature \union {NoSignature}]
Hit == [key : Key, row : Row]
ASSUME CorporaHoldRows == Corpora \subseteq [Brain -> [Key -> Row \union {NoRow}]]

NoCall == [pc |-> "idle"]
NoResult == [pc |-> "none"]

TypeOK ==
  /\ rows \in [Brain -> [Key -> Row \union {NoRow}]]
  /\ \A b \in Brain : signing[b] \subseteq Signature
  /\ children \in Seq([brain : Brain, weight : Weights])
  /\ registry \subseteq Brain
  /\ signed \subseteq Signature \union LegacySignature /\ changes \in 0 .. MaxChanges
  /\ call.pc \in {"idle", "asking"}

Init ==
  /\ rows \in Corpora
  /\ signing = [b \in Brain |-> {}]
  /\ signed = {rows[b][k].sig : b \in Brain, k \in Key} \ {NoSignature}
  /\ children = <<>> /\ registry = {}
  /\ call = NoCall /\ result = NoResult /\ changes = 0

-----------------------------------------------------------------------------
(* The members' own life. *)

Held(b) == {k \in Key : rows[b][k] # NoRow}
SetRow(b, k, r) == rows' = [rows EXCEPT ![b][k] = r]
Counted == changes < MaxChanges /\ changes' = changes + 1
Attestation(b, k, r) == [by |-> b, key |-> k, content |-> r.content, vis |-> r.vis]
LegacyAttestation(b, r) == [by |-> b, content |-> r.content, vis |-> r.vis]

\* A write changes the content of a row and nothing else; it is signed afterwards.
Remember(b, k, c, v) ==
  LET r == IF k \in Held(b) THEN [rows[b][k] EXCEPT !.content = c]
           ELSE [content |-> c, vis |-> v, author |-> NoBrain, sig |-> NoSignature]
  IN  /\ Counted
      /\ SetRow(b, k, r)
      /\ signing' = [signing EXCEPT ![b] = @ \union {Attestation(b, k, r)}]
      /\ UNCHANGED signed

\* repair_derivations signs what has no signature.
Repair(b, k) ==
  /\ Counted
  /\ k \in Held(b) /\ rows[b][k].sig = NoSignature
  /\ signing' = [signing EXCEPT ![b] = @ \union {Attestation(b, k, rows[b][k])}]
  /\ UNCHANGED <<rows, signed>>

\* The row may hold something else by now, or be gone.
set_signature(b, s) ==
  /\ s \in signing[b]
  /\ signing' = [signing EXCEPT ![b] = @ \ {s}]
  /\ signed' = signed \union {s}
  /\ IF s.key \in Held(b) THEN SetRow(b, s.key, [rows[b][s.key] EXCEPT !.author = b, !.sig = s])
                          ELSE UNCHANGED rows
  /\ UNCHANGED changes

\* An import keeps the author's name; the signature of a row does not travel.
Import(b, k, from, x) ==
  /\ Counted
  /\ b # from /\ k \notin Held(b) /\ x \in Held(from)
  /\ SetRow(b, k, [rows[from][x] EXCEPT !.sig = NoSignature])
  /\ UNCHANGED <<signing, signed>>

Forget(b, k) ==
  /\ Counted
  /\ k \in Held(b)
  /\ SetRow(b, k, NoRow)
  /\ UNCHANGED <<signing, signed>>

\* The process of a member ends before it has signed.
Crash(b) ==
  /\ signing[b] # {}
  /\ signing' = [signing EXCEPT ![b] = {}]
  /\ UNCHANGED <<rows, signed, changes>>

MemberStep ==
  /\ \/ \E w \in Writes : Remember(w[1], w[2], w[3], w[4])
     \/ \E b \in Brain :
          \/ \E k, x \in Key, from \in Brain : Import(b, k, from, x)
          \/ \E k \in Key : Repair(b, k) \/ Forget(b, k)
          \/ \E s \in signing[b] : set_signature(b, s)
          \/ Crash(b)
  /\ result' = NoResult
  /\ UNCHANGED <<children, registry, call>>

-----------------------------------------------------------------------------
(* Sequences.  What the library's sorting and selecting give can be computed, *)
(* but not reasoned about.                                                     *)

\* The members of S, each after those that before puts before it.
InOrder(S, before) ==
  [i \in 1 .. Cardinality(S) |->
     CHOOSE x \in S : Cardinality({y \in S : <<y, x>> \in before}) = i - 1]
\* What s has at the places given, in the same order.
Selected(s, places) ==
  LET from == InOrder(places, {p \in places \X places : p[1] < p[2]})
  IN  [j \in 1 .. Cardinality(places) |-> s[from[j]]]

-----------------------------------------------------------------------------
(* merge_and_rank. *)

Least(S) == CHOOSE x \in S : \A y \in S : x <= y
Capped(hits, policy) == SubSeq(hits, 1, IF Len(hits) <= policy.cap THEN Len(hits) ELSE policy.cap)

\* Every hit with its member and its rank, from 0.
Flat(contributions, policy) ==
  UNION {{[child |-> i, origin |-> contributions[i].origin, weight |-> contributions[i].weight,
           rank |-> j - 1, hit |-> contributions[i].hits[j]]
            : j \in 1 .. Len(Capped(contributions[i].hits, policy))}
         : i \in DOMAIN contributions}

Reciprocal(f) == f.weight * (Denominator \div (K + f.rank))
Total(S) == SumFunctionOnSet([f \in S |-> Reciprocal(f)], S)
Copies(flat, c) == {f \in flat : f.hit.row.content = c}
\* A member counts once for a content, with its best rank.
Fused_every_copy(flat, c) == Total(Copies(flat, c))
Best(flat, c) ==
  {f \in Copies(flat, c) : \A g \in Copies(flat, c) : g.origin = f.origin => f.rank <= g.rank}
Fused(flat, c) == Total(Best(flat, c))

\* Two numbers give the same sum in either order; three or more may not.
OrderFree(flat, c) == Cardinality({f \in Best(flat, c) : f.weight > 0}) <= 2
Roundings(flat) ==
  {r \in [Content -> -Error .. Error] : \A c \in Content : OrderFree(flat, c) => r[c] = 0}
Effective(flat, f, policy, rounding) ==
  IF policy.fusion = "Rrf" THEN Fused(flat, f.hit.row.content) + rounding[f.hit.row.content]
  ELSE f.weight * Signal[f.hit.row.content]

Precedes(s, t) == \E i \in DOMAIN s : s[i] < t[i] /\ \A j \in 1 .. i - 1 : s[j] = t[j]
\* By score, then content, brain and memory; the sort is stable.
SortKey_by_score(f) == <<0 - f.score, f.child, f.rank>>
SortKey(f) == <<0 - f.score, f.hit.row.content, f.origin, f.hit.key, f.child, f.rank>>
Scored(contributions, policy, rounding) ==
  LET flat == Flat(contributions, policy)
  IN  {[score |-> Effective(flat, f, policy, rounding), child |-> f.child, rank |-> f.rank,
        origin |-> f.origin, hit |-> f.hit] : f \in flat}
Sorted(contributions, policy, rounding) ==
  LET scored == Scored(contributions, policy, rounding)
  IN  InOrder(scored, {p \in scored \X scored : Precedes(SortKey(p[1]), SortKey(p[2]))})
Ranked(contributions, policy, rounding) ==
  LET sorted == Sorted(contributions, policy, rounding)
  IN  [i \in DOMAIN sorted |-> [origin |-> sorted[i].origin, hit |-> sorted[i].hit]]

-----------------------------------------------------------------------------
(* The coordinator. *)

\* Adding a brain again replaces its handle.
add_brain_weighted_again(b, w) ==
  /\ call = NoCall
  /\ registry' = registry \union {b}
  /\ children' = Append(children, [brain |-> b, weight |-> w])
  /\ Len(children) <= Cardinality(Brain)
  /\ result' = NoResult
  /\ UNCHANGED <<memberVars, call>>
add_brain_weighted(b, w) ==
  /\ call = NoCall
  /\ registry' = registry \union {b}
  /\ children' = IF \E i \in DOMAIN children : children[i].brain = b
                 THEN [i \in DOMAIN children |->
                         IF children[i].brain = b THEN [brain |-> b, weight |-> w] ELSE children[i]]
                 ELSE Append(children, [brain |-> b, weight |-> w])
  /\ result' = NoResult
  /\ UNCHANGED <<memberVars, call>>

Start(context, policy) ==
  /\ call = NoCall
  /\ call' = [pc |-> "asking", context |-> context, policy |-> policy, next |-> 1,
              contributions |-> <<>>, failed |-> <<>>, unverified |-> 0]
  /\ result' = NoResult
  /\ UNCHANGED <<memberVars, children, registry>>

Asked == children[call.next].brain
Admits(vis) == vis >= call.context
\* What a member may return: some of what the context admits, in any order and up
\* to the limit, as the query has it.
Admissible(b) == {k \in Held(b) : Admits(rows[b][k].vis)}
recall_cascade_scoped(b) ==
  LET hits == {[key |-> k, row |-> rows[b][k]] : k \in Admissible(b)}
  IN  {s \in BoundedSeq(hits, Limit) : \A i, j \in DOMAIN s : s[i] = s[j] => i = j}

\* Over this row or, in the earlier scheme, over what it says under whatever key.
verify_memory_signature(h) ==
  h.row.sig \in {Attestation(h.row.author, h.key, h.row), LegacyAttestation(h.row.author, h.row)}
\* By the brain that the row names, and that one granted.
verify_hit_author_only(h) == h.row.sig # NoSignature /\ h.row.sig.by = h.row.author
verify_hit(h) == h.row.author # NoBrain /\ h.row.sig # NoSignature /\ verify_memory_signature(h)
Authentic(h) == call.policy.signed => h.row.author \in call.policy.grants /\ verify_hit(h)

Answer ==
  /\ call # NoCall /\ call.next <= Len(children)
  /\ \E hits \in recall_cascade_scoped(Asked) :
       LET visible == Selected(hits, {i \in DOMAIN hits : Admits(hits[i].row.vis)})
           kept == Selected(visible, {i \in DOMAIN visible : Authentic(visible[i])})
       IN  call' = [call EXCEPT
             !.next = @ + 1, !.unverified = @ + (Len(visible) - Len(kept)),
             !.contributions = Append(@, [origin |-> Asked, weight |-> children[call.next].weight,
                                          hits |-> kept])]
  /\ UNCHANGED <<memberVars, children, registry, result>>

\* A member that cannot answer is left out and named.
Fails ==
  /\ call # NoCall /\ call.next <= Len(children)
  /\ call' = [call EXCEPT !.next = @ + 1, !.failed = Append(@, Asked)]
  /\ UNCHANGED <<memberVars, children, registry, result>>

merge_and_rank ==
  /\ call # NoCall /\ call.next > Len(children)
  /\ \E rounding \in Roundings(Flat(call.contributions, call.policy)) :
       result' = [pc |-> "done", context |-> call.context, policy |-> call.policy,
                  contributions |-> call.contributions,
                  ranked |-> Ranked(call.contributions, call.policy, rounding),
                  per_brain |-> [i \in DOMAIN call.contributions |->
                    [brain |-> call.contributions[i].origin,
                     count |-> Len(Capped(call.contributions[i].hits, call.policy))]],
                  failed |-> call.failed, unverified |-> call.unverified]
  /\ call' = NoCall
  /\ UNCHANGED <<memberVars, children, registry>>

Next ==
  \/ MemberStep
  \/ \E b \in Brain, w \in Weights : add_brain_weighted(b, w)
  \/ \E context \in Clearance, policy \in Policies : Start(context, policy)
  \/ Answer \/ Fails \/ merge_and_rank

Spec == Init /\ [][Next]_vars

-----------------------------------------------------------------------------
(* Properties. *)

Done == result # NoResult
Places(origin) == {i \in DOMAIN result.ranked : result.ranked[i].origin = origin}

\* The types; each brain is asked once however often it was added, and is either
\* named as failed or has exactly the hits that are counted for it in the ranking,
\* no more than its cap: one member's failure or length takes nothing from another.
FanOutInv ==
  /\ TypeOK
  /\ Cardinality(registry) = Len(children)
  /\ Done =>
       /\ \A b \in Brain :
            Cardinality({i \in DOMAIN result.per_brain : result.per_brain[i].brain = b})
              + Cardinality({i \in DOMAIN result.failed : result.failed[i] = b}) <= 1
       /\ \A i \in DOMAIN result.per_brain :
            Cardinality(Places(result.per_brain[i].brain)) = result.per_brain[i].count
       /\ \A i \in DOMAIN result.failed : Places(result.failed[i]) = {}

\* What was merged may be shown to the caller and, under a grant set, says what a
\* granted brain signed: not what it held before an edit that was not signed again,
\* nor what it imported.  It signed it for that very memory or, in the scheme before
\* keys were signed, under any key (MergePolicy::grants, verify_memory_signature).
OnlyAdmissible ==
  Done => \A i \in DOMAIN result.ranked :
    LET h == result.ranked[i].hit IN
    /\ h.row.vis >= result.context
    /\ result.policy.signed =>
         \E b \in result.policy.grants :
           Attestation(b, h.key, h.row) \in signed \/ LegacyAttestation(b, h.row) \in signed

\* "it cannot self-corroborate by flooding identical copies" and "content
\* independently returned by K members outranks a lone assertion": a content that
\* every member ranks at least as high as another, and one member strictly higher,
\* comes before it, however often a member repeats the other.
BestRank(c, i) ==
  LET hits == Capped(result.contributions[i].hits, result.policy)
      at == {j \in DOMAIN hits : hits[j].row.content = c}
  IN  IF at = {} THEN Limit + 1 ELSE Least(at)
AgreementOutranks ==
  Done /\ result.policy.fusion = "Rrf" =>
    \A c, d \in Content :
      LET voters == {i \in DOMAIN result.contributions : result.contributions[i].weight > 0} IN
      (/\ \A i \in voters : BestRank(c, i) <= BestRank(d, i)
       /\ \E i \in voters : BestRank(c, i) < BestRank(d, i)) =>
        \A i, j \in DOMAIN result.ranked :
          result.ranked[i].hit.row.content = c /\ result.ranked[j].hit.row.content = d => i < j

AskedRoundings == Roundings(Flat(result.contributions, result.policy))
\* The ranking is one of the answers, not of the order in which members were added:
\* ties end with the content, the brain and the memory.  For fused scores this takes
\* that no content is added up from more than two members: with more, merge_and_rank
\* adds f64s in the order of a HashMap, and equal sums may come out in either order.
ChildOrderIsIrrelevant ==
  /\ Done
  /\ result.policy.fusion = "Rrf" =>
       \A c \in Content : OrderFree(Flat(result.contributions, result.policy), c)
  => \A r \in AskedRoundings :
       result.ranked = Ranked(Reverse(result.contributions), result.policy, r)
=============================================================================
