---------------------------- MODULE MCTaxKnowledge ----------------------------
(* An instance of TaxKnowledge for TLC: two laws, the second of which has    *)
(* nothing but a preface.                                                    *)
EXTENDS TaxKnowledge, TLC
CONSTANTS vat, corp, ann, bob, eve, c1, c2, c3, c4

MCRegistry == <<vat, corp>>
MCArticle(n) == [number |-> n, preface |-> FALSE]
MCPreface    == [number |-> 1, preface |-> TRUE]
MCUnits ==
  vat  :> (1 :> <<MCArticle(1)>> @@ 2 :> <<MCArticle(2), MCArticle(None)>>) @@
  corp :> (1 :> <<MCPreface>> @@ 2 :> <<MCPreface>>)
MCBy == c1 :> ann @@ c2 :> bob @@ c3 :> ann @@ c4 :> eve

\* Two runs overlap with each other, and a third comes after them; a review is asked for
\* and resolved after a single run; rules are approved while no law is walked.
\* Only the first law is amended or reviewed.
Stage ==
  LET approving == {c \in Calls : call[c] # "idle" /\ want[c] \in [rule : Rules]}
      resolving == {c \in Calls : call[c] # "idle"} \ approving
      started   == {r \in Runs : pc[r] # "idle"}
      running   == {r \in started : pc[r] \notin {"done", "failed"}}
      reviewed  == {l \in Laws : review[l] # "none"}
  IN /\ started = Runs => Cardinality(running) <= 1
     /\ approving # {} => resolving = {} /\ started = {}
     /\ resolving \cup reviewed # {} => running = {} /\ Cardinality(started) = 1
     /\ resolving # {} => reviewed # {} /\ resolving \subseteq {c1, c2}
     /\ c2 \in resolving => c1 \in resolving
     /\ newest[corp] = 1 /\ reviewed \subseteq {vat}
     /\ reviewed # {} => newest[vat] = 1

MCSymmetry == Permutations(Runs)
=============================================================================
