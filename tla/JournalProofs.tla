---------------------------- MODULE JournalProofs ----------------------------
(***************************************************************************)
(* Proofs about the journal: the review of its entries (EntryReview), for    *)
(* any entries, requests and line arrays, and what is made of its entries    *)
(* (Books), for any finite set of entries, any periods and any companies.    *)
(***************************************************************************)
EXTENDS EntryReview, Books, FiniteSetTheorems, WellFoundedInduction, SequenceTheorems, TLAPS

---------------------------------------------------------------------------
(* The review of an entry.                                                  *)

USE DEF vars, db, At, Goto, Reply

\* What a request asks for decides where it can be.
LEMMA AsksType == \A q \in Asks : /\ q.entry \in Entries
                                  /\ q.kind \in {"confirm", "discard", "patch"}
                                  /\ q.kind = "patch" => q.body \in Bodies
  BY DEF Asks

\* What is stored for the lines of a request are rows of this request.
LEMMA StoredType ==
  ASSUME NEW r \in Requests, NEW B \in Bodies
  PROVE  Stored(B, r) \subseteq Row
<1> SUFFICES ASSUME NEW l \in B
             PROVE  [no |-> l.no, side |-> l.side, amt |-> (l.amt + 1) \div 2, by |-> r] \in Row
  BY DEF Stored
<1>1. l.no \in Nat \ {0} /\ l.side \in Sides /\ l.amt \in Nat
  BY LinesAssumption DEF Line
<1>2. (l.amt + 1) \div 2 \in Nat
  BY <1>1
<1> QED
  BY <1>1, <1>2 DEF Row

\* Each action keeps every variable in its type.
LEMMA TypeStep == TypeOK /\ [Next]_vars => TypeOK'
<1> SUFFICES ASSUME TypeOK, [Next]_vars PROVE TypeOK'
  OBVIOUS
<1> USE DEF TypeOK
<1>1. ASSUME NEW r \in Requests, NEW q \in Asks, Arrive(r, q) PROVE TypeOK'
  BY <1>1 DEF Arrive
<1>2. ASSUME NEW r \in Requests, Read(r) PROVE TypeOK'
  BY <1>2 DEF Read, Route
<1>3. ASSUME NEW r \in Requests, UpdateStatus(r) PROVE TypeOK'
  <2>1. req[r].entry \in Entries /\ Verdict[req[r].kind] \in {"certain", "discarded"}
    BY <1>3, AsksType DEF UpdateStatus, Verdict
  <2> QED
    BY <1>3, <2>1 DEF UpdateStatus, AfterUpdate
<1>4. ASSUME NEW r \in Requests, BeginReplace(r) PROVE TypeOK'
  <2>1. req[r].entry \in Entries
    BY <1>4, AsksType DEF BeginReplace
  <2> QED
    BY <1>4, <2>1 DEF BeginReplace
<1>5. ASSUME NEW r \in Requests, CommitReplace(r) PROVE TypeOK'
  <2>1. req[r].entry \in Entries /\ Stored(req[r].body, r) \subseteq Row
    BY <1>5, AsksType, StoredType DEF CommitReplace
  <2>2. lines' \in [Entries -> SUBSET Row]
    BY <1>5, <2>1 DEF CommitReplace, Rollback
  <2>3. /\ UNCHANGED <<confidence, posted, req, victims>> /\ pc[r] = "insert"
        /\ \/ pc' = [pc EXCEPT ![r] = "refresh"] /\ answer' = answer
           \/ pc' = [pc EXCEPT ![r] = "done"] /\ answer' = [answer EXCEPT ![r] = 500]
    BY <1>5 DEF CommitReplace
  <2> QED
    BY <2>2, <2>3
<1>6. ASSUME NEW r \in Requests, Refresh(r) PROVE TypeOK'
  BY <1>6 DEF Refresh
<1>7. ASSUME NEW r \in Requests, Fail(r) PROVE TypeOK'
  BY <1>7 DEF Fail
<1>8. CASE UNCHANGED vars
  BY <1>8
<1> HIDE DEF TypeOK, vars, db
<1> QED
  BY <1>1, <1>2, <1>3, <1>4, <1>5, <1>6, <1>7, <1>8 DEF Next

\* A PATCH past its validation has an acceptable body; a verdict that was given
\* stands while it is read back and after it was answered.
Reviewed ==
  /\ \A r \in Requests :
       pc[r] \in {"read", "delete", "insert"} /\ req[r].kind = "patch" => Acceptable(req[r].body)
  /\ \A r \in Requests :
       req[r] # None /\ req[r].kind # "patch" /\ (pc[r] = "refresh" \/ answer[r] = 200)
         => confidence[req[r].entry] = Verdict[req[r].kind]
  /\ \A r \in Requests : pc[r] # "done" => answer[r] = None
  /\ \A r \in Requests : pc[r] = "idle" => req[r] = None
  /\ BalancedEntries /\ NeverEmptied /\ PostedIffCertain

\* No status other than uncertain is ever changed.
LEMMA VerdictStep ==
  ASSUME TypeOK, [Next]_vars
  PROVE  \A e \in Entries : confidence[e] # "uncertain" => confidence'[e] = confidence[e]
<1>1. ASSUME NEW r \in Requests, UpdateStatus(r) PROVE
        \A e \in Entries : confidence[e] # "uncertain" => confidence'[e] = confidence[e]
  BY <1>1 DEF UpdateStatus, Matches, TypeOK
<1>2. confidence' = confidence \/ \E r \in Requests : UpdateStatus(r)
  BY DEF Next, Arrive, Read, BeginReplace, CommitReplace, Refresh, Fail
<1> QED
  BY <1>1, <1>2

\* Requests keep to the protocol and entries stay whole: one proof step per action.
LEMMA ReviewStep ==
  ASSUME TypeOK, Reviewed, [Next]_vars
  PROVE  Reviewed'
<1> USE DEF TypeOK, Reviewed
<1>1. ASSUME NEW r \in Requests, NEW q \in Asks, Arrive(r, q) PROVE Reviewed'
  <2>1. UNCHANGED db /\ req' = [req EXCEPT ![r] = q] /\ pc[r] = "idle"
    BY <1>1 DEF Arrive
  <2>2. \/ pc' = [pc EXCEPT ![r] = "done"] /\ answer' = [answer EXCEPT ![r] = 422]
        \/ /\ pc' = [pc EXCEPT ![r] = "read"] /\ answer' = answer
           /\ q.kind = "patch" => Acceptable(q.body)
    BY <1>1 DEF Arrive
  <2>3. BalancedEntries' /\ NeverEmptied' /\ PostedIffCertain'
    BY <2>1 DEF BalancedEntries, NeverEmptied, PostedIffCertain
  <2> HIDE DEF BalancedEntries, NeverEmptied, PostedIffCertain, Acceptable
  <2> QED
    BY <2>1, <2>2, <2>3, NoneAssumption
<1>2. ASSUME NEW r \in Requests, Read(r) PROVE Reviewed'
  BY <1>2 DEF Read, Route, BalancedEntries, NeverEmptied, PostedIffCertain
<1>3. ASSUME NEW r \in Requests, UpdateStatus(r) PROVE Reviewed'
  <2>1. req[r].entry \in Entries /\ req[r].kind \in {"confirm", "discard"}
    BY <1>3, AsksType DEF UpdateStatus
  <2>2. \A q \in Requests : req[q] # None /\ req[q].kind # "patch" =>
          req[q].entry \in Entries /\ Verdict[req[q].kind] # "uncertain"
    BY AsksType DEF Verdict
  <2>3. PostedIffCertain'
    BY <1>3, <2>1 DEF UpdateStatus, Matches, Promotes, Verdict, PostedIffCertain
  <2>4. /\ UNCHANGED <<lines, req, victims>> /\ pc[r] = "update"
        /\ \/ /\ confidence' = [confidence EXCEPT ![req[r].entry] = Verdict[req[r].kind]]
              /\ pc' = [pc EXCEPT ![r] = "refresh"] /\ answer' = answer
           \/ /\ confidence' = confidence
              /\ pc' = [pc EXCEPT ![r] = "done"] /\ answer' = [answer EXCEPT ![r] = 409]
    BY <1>3 DEF UpdateStatus, AfterUpdate
  <2>5. ASSUME NEW q \in Requests, req'[q] # None, req'[q].kind # "patch",
               pc'[q] = "refresh" \/ answer'[q] = 200
        PROVE  confidence'[req'[q].entry] = Verdict[req'[q].kind]
    <3> HIDE DEF Verdict
    <3>1. CASE q = r
      BY <2>1, <2>4, <2>5, <3>1, NoneAssumption
    <3>2. CASE q # r
      BY <2>2, <2>4, <2>5, <3>2, VerdictStep
    <3> QED
      BY <3>1, <3>2
  <2>6. BalancedEntries' /\ NeverEmptied'
    BY <2>4 DEF BalancedEntries, NeverEmptied
  <2> HIDE DEF Verdict, BalancedEntries, NeverEmptied, PostedIffCertain
  <2> QED
    BY <2>3, <2>4, <2>5, <2>6
<1>4. ASSUME NEW r \in Requests, BeginReplace(r) PROVE Reviewed'
  BY <1>4 DEF BeginReplace, BalancedEntries, NeverEmptied, PostedIffCertain
<1>5. ASSUME NEW r \in Requests, CommitReplace(r) PROVE Reviewed'
  <2>1. req[r].entry \in Entries /\ req[r].kind = "patch" /\ req[r].body \in Bodies
    BY <1>5, AsksType DEF CommitReplace
  <2>2. Stored(req[r].body, r) # {}
    <3>1. Cardinality(req[r].body) >= 2
      BY <1>5, <2>1 DEF CommitReplace, Acceptable
    <3>2. PICK l \in req[r].body : TRUE
      BY <3>1, FS_EmptySet
    <3>3. [no |-> l.no, side |-> l.side, amt |-> (l.amt + 1) \div 2, by |-> r]
            \in Stored(req[r].body, r)
      BY <3>2 DEF Stored
    <3> QED
      BY <3>3
  <2> DEFINE new == (lines[req[r].entry] \ victims[r]) \cup Stored(req[r].body, r)
  <2>3. \/ lines' = lines
        \/ lines' = [lines EXCEPT ![req[r].entry] = new] /\ Balance(new)
    BY <1>5 DEF CommitReplace, Rollback, Constraints
  <2>4. BalancedEntries' /\ NeverEmptied'
    <3>1. new # {}
      BY <2>2
    <3> HIDE DEF new
    <3> QED
      BY <2>1, <2>3, <3>1 DEF BalancedEntries, NeverEmptied
  <2>5. /\ UNCHANGED <<confidence, posted, req, victims>> /\ pc[r] = "insert"
        /\ \/ pc' = [pc EXCEPT ![r] = "refresh"] /\ answer' = answer
           \/ pc' = [pc EXCEPT ![r] = "done"] /\ answer' = [answer EXCEPT ![r] = 500]
    BY <1>5 DEF CommitReplace
  <2> QED
    BY <2>1, <2>4, <2>5 DEF PostedIffCertain
<1>6. ASSUME NEW r \in Requests, Refresh(r) PROVE Reviewed'
  BY <1>6 DEF Refresh, BalancedEntries, NeverEmptied, PostedIffCertain
<1>7. ASSUME NEW r \in Requests, Fail(r) PROVE Reviewed'
  BY <1>7 DEF Fail, BalancedEntries, NeverEmptied, PostedIffCertain
<1>8. CASE UNCHANGED vars
  BY <1>8 DEF BalancedEntries, NeverEmptied, PostedIffCertain
<1> HIDE DEF TypeOK, Reviewed, vars, db
<1> QED
  BY <1>1, <1>2, <1>3, <1>4, <1>5, <1>6, <1>7, <1>8 DEF Next

---------------------------------------------------------------------------
(* What the review promises.                                               *)

\* Entries start balanced and uncertain, with nothing asked.
LEMMA Initially == Init => TypeOK /\ Reviewed
<1> SUFFICES ASSUME Init PROVE TypeOK /\ Reviewed
  OBVIOUS
<1>1. TypeOK
  BY LinesAssumption DEF Init, TypeOK
<1>2. Reviewed
  BY LinesAssumption DEF Init, Reviewed, BalancedEntries, NeverEmptied, PostedIffCertain
<1> QED
  BY <1>1, <1>2

\* Every variable keeps its type.
THEOREM TypeCorrect == Spec => []TypeOK
<1> QED
  BY Initially, TypeStep, PTL DEF Spec

\* The inductive invariant holds in every behaviour.
LEMMA Inductive == Spec => []Reviewed
<1>1. TypeOK /\ Reviewed /\ [Next]_vars => Reviewed'
  BY ReviewStep
<1> QED
  BY Initially, TypeCorrect, <1>1, PTL DEF Spec

\* No interleaving of PATCHes unbalances or empties an entry.
THEOREM EntriesStayWhole == Spec => []WholeEntries
<1>1. Reviewed => WholeEntries
  BY DEF Reviewed, WholeEntries
<1> QED
  BY Inductive, <1>1, PTL

\* Status and confidence_status agree: only certain entries are posted.
THEOREM OnlyCertainIsPosted == Spec => []PostedIffCertain
<1>1. Reviewed => PostedIffCertain
  BY DEF Reviewed
<1> QED
  BY Inductive, <1>1, PTL

\* A verdict, once given, is never changed, whatever requests race.
THEOREM VerdictsAreFinal == Spec => VerdictIsFinal
<1>1. TypeOK /\ [Next]_vars =>
        [\A e \in Entries : confidence[e] # "uncertain" => confidence'[e] = confidence[e]]_vars
  BY VerdictStep
<1> QED
  BY TypeCorrect, <1>1, PTL DEF Spec, VerdictIsFinal

\* A confirm or discard that was answered with success did happen and still stands.
THEOREM SuccessIsTrue == Spec => []OkMeansDone
<1>1. TypeOK /\ Reviewed => OkMeansDone
  BY NoneAssumption DEF TypeOK, Reviewed, OkMeansDone
<1> QED
  BY TypeCorrect, Inductive, <1>1, PTL

---------------------------------------------------------------------------
(* Sums over finite sets.                                                   *)

\* Induction over a finite set, for the property of being in G.
LEMMA SetInduction ==
  ASSUME NEW D, IsFiniteSet(D), NEW G, {} \in G,
         \A s \in SUBSET D, x \in D : s \in G /\ x \notin s => s \cup {x} \in G
  PROVE  D \in G
<1>1. SUFFICES ASSUME D \notin G PROVE FALSE
  OBVIOUS
<1> DEFINE Bad == {s \in SUBSET D : s \notin G}
           Sizes == {Cardinality(s) : s \in Bad}
           Less == OpToRel(<, Nat)
<1>2. \A s \in SUBSET D : IsFiniteSet(s) /\ Cardinality(s) \in Nat
  BY FS_Subset, FS_CardinalityType
<1>3. Sizes \subseteq Nat /\ Sizes # {}
  BY <1>1, <1>2
<1>4. Less = {ss \in Nat \X Nat : ss[1] < ss[2]}
  BY Zenon DEF OpToRel
<1>5. IsWellFoundedOn(Less, Nat)
  BY NatLessThanWellFounded, Zenon
<1> HIDE DEF Less
<1>6. PICK n \in Sizes : \A m \in Sizes : <<m, n>> \notin Less
  BY <1>3, <1>5, WFMin
<1>7. PICK s \in Bad : n = Cardinality(s)
  BY <1>6
<1>8. PICK x \in s : TRUE
  BY <1>7
<1>9. s \ {x} \in SUBSET D /\ Cardinality(s \ {x}) = Cardinality(s) - 1 /\ x \in D
  BY <1>2, <1>7, <1>8, FS_RemoveElement
<1>10. Cardinality(s \ {x}) < n /\ n \in Nat /\ Cardinality(s \ {x}) \in Nat
  BY <1>2, <1>7, <1>9
<1>11. s \ {x} \in G
  <2>1. SUFFICES ASSUME s \ {x} \notin G PROVE FALSE
    OBVIOUS
  <2>2. Cardinality(s \ {x}) \in Sizes
    BY <1>9, <2>1
  <2> QED
    BY <1>4, <1>6, <1>10, <2>2
<1>12. (s \ {x}) \cup {x} = s
  BY <1>8
<1> HIDE DEF Bad
<1>13. s \in G
  BY <1>8, <1>9, <1>11, <1>12
<1> QED
  BY <1>7, <1>13 DEF Bad

\* The recursion of the fold has a solution.
Any(s) == CHOOSE x \in s : TRUE
Sum(f, S) == SumFunctionOnSet(f, S)
Folded(h, f, S) == h = [s \in SUBSET S |-> IF s = {} THEN 0 ELSE f[Any(s)] + h[s \ {Any(s)}]]

\* The sum of the community modules is some function that recurs, at the whole set.
LEMMA FoldIs ==
  ASSUME NEW f, NEW S
  PROVE  Sum(f, S) = (CHOOSE h : Folded(h, f, S))[S]
BY DEF Sum, SumFunctionOnSet, FoldFunctionOnSet, MapThenFoldSet, Folded, Any

\* Induction over the natural numbers, for the property of being in G.
LEMMA NumberInduction ==
  ASSUME NEW G, 0 \in G, \A n \in Nat : n \in G => n + 1 \in G
  PROVE  \A n \in Nat : n \in G
<1> DEFINE Bad == Nat \ G
           Less == OpToRel(<, Nat)
<1>1. SUFFICES ASSUME Bad # {} PROVE FALSE
  OBVIOUS
<1>2. Less = {ss \in Nat \X Nat : ss[1] < ss[2]}
  BY Zenon DEF OpToRel
<1>3. IsWellFoundedOn(Less, Nat)
  BY NatLessThanWellFounded, Zenon
<1> HIDE DEF Less
<1>4. PICK n \in Bad : \A m \in Bad : <<m, n>> \notin Less
  BY <1>1, <1>3, WFMin
<1>5. n \in Nat \ {0}
  BY <1>4
<1>6. n - 1 \in Nat /\ n - 1 < n /\ (n - 1) + 1 = n
  BY <1>5
<1>7. n - 1 \in G
  BY <1>2, <1>4, <1>6
<1>8. n \in G
  BY <1>6, <1>7
<1> QED
  BY <1>4, <1>8

UpTo(D, n) == {s \in SUBSET D : Cardinality(s) <= n}
Partial(h, f, D, n) ==
  h = [s \in UpTo(D, n) |-> IF s = {} THEN 0 ELSE f[Any(s)] + h[s \ {Any(s)}]]

\* A function that recurs on the sets of up to n elements extends to those of one more.
LEMMA PartialStep ==
  ASSUME NEW f, NEW D, IsFiniteSet(D), NEW n \in Nat, NEW h, Partial(h, f, D, n)
  PROVE  \E k : Partial(k, f, D, n + 1)
<1> DEFINE k == [s \in UpTo(D, n + 1) |-> IF s = {} THEN 0 ELSE f[Any(s)] + h[s \ {Any(s)}]]
<1>1. ASSUME NEW s \in UpTo(D, n) PROVE k[s] = h[s]
  <2>1. s \in UpTo(D, n + 1)
    <3>1. Cardinality(s) \in Nat
      BY FS_Subset, FS_CardinalityType DEF UpTo
    <3> QED
      BY <3>1 DEF UpTo
  <2>2. h[s] = IF s = {} THEN 0 ELSE f[Any(s)] + h[s \ {Any(s)}]
    BY Zenon DEF Partial
  <2> QED
    BY <2>1, <2>2, Zenon
<1>2. ASSUME NEW s \in UpTo(D, n + 1), s # {} PROVE s \ {Any(s)} \in UpTo(D, n)
  <2>1. Any(s) \in s
    BY <1>2 DEF Any
  <2>2. IsFiniteSet(s) /\ s \subseteq D
    BY FS_Subset DEF UpTo
  <2>3. Cardinality(s) \in Nat /\ Cardinality(s \ {Any(s)}) = Cardinality(s) - 1
    BY <2>1, <2>2, FS_CardinalityType, FS_RemoveElement
  <2> QED
    BY <2>2, <2>3 DEF UpTo
<1>3. \A s \in UpTo(D, n + 1) :
        k[s] = IF s = {} THEN 0 ELSE f[Any(s)] + k[s \ {Any(s)}]
  BY <1>1, <1>2, Zenon
<1> HIDE DEF k
<1>4. k = [s \in UpTo(D, n + 1) |-> k[s]]
  BY Zenon DEF k
<1>5. Partial(k, f, D, n + 1)
  BY <1>3, <1>4, Zenon DEF Partial
<1> QED
  BY <1>5

\* Some function does recur on all subsets of a finite set.
LEMMA FoldExists ==
  ASSUME NEW f, NEW D, IsFiniteSet(D)
  PROVE  \E h : Folded(h, f, D)
<1> DEFINE G == {n \in Nat : \E h : Partial(h, f, D, n)}
<1>1. 0 \in G
  <2> DEFINE h == [s \in UpTo(D, 0) |-> 0]
  <2>1. \A s \in UpTo(D, 0) : s = {}
    BY FS_Subset, FS_EmptySet, FS_CardinalityType DEF UpTo
  <2>2. Partial(h, f, D, 0)
    BY <2>1 DEF Partial
  <2> QED
    BY <2>2
<1>2. ASSUME NEW n \in Nat, n \in G PROVE n + 1 \in G
  BY <1>2, PartialStep
<1>3. \A n \in Nat : n \in G
  <2> HIDE DEF G
  <2> QED
    BY <1>1, <1>2, NumberInduction
<1>4. Cardinality(D) \in Nat
  BY FS_CardinalityType
<1>5. PICK h : Partial(h, f, D, Cardinality(D))
  BY <1>3, <1>4
<1>6. UpTo(D, Cardinality(D)) = SUBSET D
  BY FS_Subset, FS_CardinalityType DEF UpTo
<1> QED
  BY <1>5, <1>6 DEF Partial, Folded

Fold(f, D) == CHOOSE h : Folded(h, f, D)

\* What the recursion says of each set.
Recurs(h, f, D) == \A s \in SUBSET D : h[s] = IF s = {} THEN 0 ELSE f[Any(s)] + h[s \ {Any(s)}]

\* So the function that the sum chooses recurs.
LEMMA FoldWorks ==
  ASSUME NEW f, NEW D, IsFiniteSet(D)
  PROVE  Recurs(Fold(f, D), f, D)
<1>1. Folded(Fold(f, D), f, D)
  BY FoldExists DEF Fold
<1> QED
  BY <1>1, Zenon DEF Folded, Recurs

\* A set that is not empty has a subset with one element less.
LEMMA OneLess ==
  ASSUME NEW D, IsFiniteSet(D), NEW s \in SUBSET D, NEW n \in Nat, Cardinality(s) = n + 1
  PROVE  /\ s # {} /\ Any(s) \in s
         /\ \A x \in s : s \ {x} \in SUBSET D /\ Cardinality(s \ {x}) = n
<1>1. IsFiniteSet(s)
  BY FS_Subset
<1>2. s # {}
  BY FS_EmptySet
<1>3. \A x \in s : Cardinality(s \ {x}) = Cardinality(s) - 1
  BY <1>1, FS_RemoveElement
<1> QED
  BY <1>2, <1>3 DEF Any

\* It does not depend on the set it is chosen for, nor on values off the set summed.
LEMMA FoldSame ==
  ASSUME NEW D, IsFiniteSet(D), NEW S \in SUBSET D, NEW f, NEW g, \A x \in S : f[x] = g[x]
  PROVE  Fold(f, S)[S] = Fold(g, D)[S]
<1> DEFINE G == {n \in Nat : \A s \in SUBSET S : Cardinality(s) = n => Fold(f, S)[s] = Fold(g, D)[s]}
<1>1. IsFiniteSet(S)
  BY FS_Subset
<1>4. Recurs(Fold(f, S), f, S)
  BY <1>1, FoldWorks
<1>6. Recurs(Fold(g, D), g, D)
  BY FoldWorks
<1>2. 0 \in G
  <2> SUFFICES ASSUME NEW s \in SUBSET S, Cardinality(s) = 0 PROVE Fold(f, S)[s] = Fold(g, D)[s]
    OBVIOUS
  <2>1. s = {}
    BY <1>1, FS_Subset, FS_EmptySet
  <2> QED
    BY <1>4, <1>6, <2>1 DEF Recurs
<1>3. ASSUME NEW n \in Nat, n \in G PROVE n + 1 \in G
  <2> SUFFICES ASSUME NEW s \in SUBSET S, Cardinality(s) = n + 1 PROVE Fold(f, S)[s] = Fold(g, D)[s]
    OBVIOUS
  <2>1. s # {} /\ Any(s) \in s /\ s \ {Any(s)} \in SUBSET S /\ Cardinality(s \ {Any(s)}) = n
    BY <1>1, OneLess
  <2>2. Fold(f, S)[s \ {Any(s)}] = Fold(g, D)[s \ {Any(s)}]
    BY <1>3, <2>1
  <2>3. Fold(f, S)[s] = f[Any(s)] + Fold(f, S)[s \ {Any(s)}]
    <3>1. Fold(f, S)[s] = IF s = {} THEN 0 ELSE f[Any(s)] + Fold(f, S)[s \ {Any(s)}]
      BY <1>4, Zenon DEF Recurs
    <3> QED
      BY <2>1, <3>1, Zenon
  <2>4. Fold(g, D)[s] = g[Any(s)] + Fold(g, D)[s \ {Any(s)}]
    <3>1. Fold(g, D)[s] = IF s = {} THEN 0 ELSE g[Any(s)] + Fold(g, D)[s \ {Any(s)}]
      BY <1>6 DEF Recurs
    <3> QED
      BY <2>1, <3>1, Zenon
  <2>5. f[Any(s)] = g[Any(s)]
    BY <2>1
  <2> QED
    BY <2>2, <2>3, <2>4, <2>5
<1>5. Cardinality(S) \in G
  <2> HIDE DEF G
  <2> QED
    BY <1>1, <1>2, <1>3, NumberInduction, FS_CardinalityType
<1> QED
  BY <1>5

\* The sum over a set depends on the values at its elements.
LEMMA SumSame ==
  ASSUME NEW S, IsFiniteSet(S), NEW f, NEW g, \A x \in S : f[x] = g[x]
  PROVE  Sum(f, S) = Sum(g, S)
<1>1. S \in SUBSET S
  OBVIOUS
<1>2. Fold(f, S)[S] = Fold(g, S)[S]
  BY <1>1, FoldSame
<1> QED
  BY <1>2, FoldIs DEF Fold

\* Nothing adds up to nothing.
LEMMA SumEmpty == \A f : Sum(f, {}) = 0
BY FoldIs, FoldWorks, FS_EmptySet DEF Fold, Recurs

\* The sum takes some element first.
LEMMA SumAny ==
  ASSUME NEW S, IsFiniteSet(S), S # {}, NEW f
  PROVE  Sum(f, S) = f[Any(S)] + Sum(f, S \ {Any(S)})
<1>1. Fold(f, S)[S] = f[Any(S)] + Fold(f, S)[S \ {Any(S)}]
  BY FoldWorks DEF Recurs
<1>2. Fold(f, S \ {Any(S)})[S \ {Any(S)}] = Fold(f, S)[S \ {Any(S)}]
  BY FoldSame
<1> QED
  BY <1>1, <1>2, FoldIs DEF Fold

\* Sums of integers are integers.
LEMMA SumInt ==
  ASSUME NEW D, IsFiniteSet(D), NEW f, \A x \in D : f[x] \in Int
  PROVE  Sum(f, D) \in Int
<1> DEFINE G == {n \in Nat : \A s \in SUBSET D : Cardinality(s) = n => Sum(f, s) \in Int}
<1>1. 0 \in G
  BY FS_Subset, FS_EmptySet, SumEmpty
<1>2. ASSUME NEW n \in Nat, n \in G PROVE n + 1 \in G
  <2> SUFFICES ASSUME NEW s \in SUBSET D, Cardinality(s) = n + 1 PROVE Sum(f, s) \in Int
    OBVIOUS
  <2>1. s # {} /\ Any(s) \in s /\ s \ {Any(s)} \in SUBSET D /\ Cardinality(s \ {Any(s)}) = n
    BY OneLess
  <2>2. Sum(f, s) = f[Any(s)] + Sum(f, s \ {Any(s)})
    BY <2>1, FS_Subset, SumAny
  <2>3. Sum(f, s \ {Any(s)}) \in Int /\ f[Any(s)] \in Int
    BY <1>2, <2>1
  <2> QED
    BY <2>2, <2>3
<1>3. Cardinality(D) \in G
  <2> HIDE DEF G
  <2> QED
    BY <1>1, <1>2, NumberInduction, FS_CardinalityType
<1> QED
  BY <1>3

\* Any element may be taken out first.
LEMMA SumRemove ==
  ASSUME NEW D, IsFiniteSet(D), NEW f, \A x \in D : f[x] \in Int
  PROVE  \A x \in D : Sum(f, D) = f[x] + Sum(f, D \ {x})
<1> DEFINE Good(s) == \A x \in s : Sum(f, s) = f[x] + Sum(f, s \ {x})
           G == {n \in Nat : \A s \in SUBSET D : Cardinality(s) = n => Good(s)}
<1>1. 0 \in G
  BY FS_Subset, FS_EmptySet
<1>2. ASSUME NEW n \in Nat, n \in G PROVE n + 1 \in G
  <2> SUFFICES ASSUME NEW s \in SUBSET D, Cardinality(s) = n + 1, NEW x \in s
               PROVE  Sum(f, s) = f[x] + Sum(f, s \ {x})
    OBVIOUS
  <2>1. /\ s # {} /\ Any(s) \in s
        /\ \A y \in s : s \ {y} \in SUBSET D /\ Cardinality(s \ {y}) = n
    BY OneLess
  <2>2. IsFiniteSet(s)
    BY FS_Subset
  <2> DEFINE p == Any(s)
  <2>3. p \in s /\ Sum(f, s) = f[p] + Sum(f, s \ {p})
    BY <2>1, <2>2, SumAny
  <2> HIDE DEF p
  <2>4. \A y \in s : Good(s \ {y})
    BY <1>2, <2>1
  <2>5. CASE x = p
    BY <2>3, <2>5
  <2>6. CASE x # p
    <3>1. Sum(f, s \ {p}) = f[x] + Sum(f, (s \ {p}) \ {x})
      BY <2>3, <2>4, <2>6
    <3>2. Sum(f, s \ {x}) = f[p] + Sum(f, (s \ {x}) \ {p})
      BY <2>3, <2>4, <2>6
    <3>3. (s \ {x}) \ {p} = (s \ {p}) \ {x}
      OBVIOUS
    <3> DEFINE t == (s \ {p}) \ {x}
    <3>4. Sum(f, t) \in Int
      <4>1. IsFiniteSet(t) /\ t \subseteq D
        BY <2>2, FS_Subset
      <4> HIDE DEF t
      <4> QED
        BY <4>1, SumInt
    <3>5. f[x] \in Int /\ f[p] \in Int
      BY <2>3
    <3> HIDE DEF t
    <3>6. Sum(f, s \ {p}) = f[x] + Sum(f, t) /\ Sum(f, s \ {x}) = f[p] + Sum(f, t)
      BY <3>1, <3>2, <3>3 DEF t
    <3> QED
      BY <2>3, <3>4, <3>5, <3>6
  <2> QED
    BY <2>5, <2>6
<1>3. Cardinality(D) \in G
  <2> HIDE DEF G
  <2> QED
    BY <1>1, <1>2, NumberInduction, FS_CardinalityType
<1> QED
  BY <1>3

\* One more element adds its value.
LEMMA SumAdd ==
  ASSUME NEW S, IsFiniteSet(S), NEW x, x \notin S, NEW f, \A y \in S \cup {x} : f[y] \in Int
  PROVE  Sum(f, S \cup {x}) = f[x] + Sum(f, S)
<1> DEFINE D == S \cup {x}
<1>1. IsFiniteSet(D) /\ x \in D /\ D \ {x} = S
  BY FS_AddElement
<1>2. \A y \in D : f[y] \in Int
  OBVIOUS
<1> HIDE DEF D
<1>3. Sum(f, D) = f[x] + Sum(f, D \ {x})
  BY <1>1, <1>2, SumRemove
<1> QED
  BY <1>1, <1>3 DEF D

\* What grows by f[x] with each x is the sum of f.
LEMMA SumIs ==
  ASSUME NEW D, IsFiniteSet(D), NEW f, \A x \in D : f[x] \in Int, NEW F, F[{}] = 0,
         \A s \in SUBSET D, x \in D : x \notin s => F[s \cup {x}] = F[s] + f[x]
  PROVE  Sum(f, D) = F[D]
<1> DEFINE G == {s \in SUBSET D : Sum(f, s) = F[s]}
<1>1. {} \in G
  BY SumEmpty
<1>2. ASSUME NEW s \in SUBSET D, NEW x \in D, s \in G, x \notin s PROVE s \cup {x} \in G
  <2>1. IsFiniteSet(s) /\ Sum(f, s) = F[s]
    BY <1>2, FS_Subset
  <2>2. Sum(f, s) \in Int /\ f[x] \in Int
    BY <2>1, SumInt
  <2>3. Sum(f, s \cup {x}) = f[x] + Sum(f, s)
    BY <1>2, <2>1, SumAdd
  <2>4. Sum(f, s \cup {x}) = F[s] + f[x]
    BY <2>1, <2>2, <2>3
  <2>5. F[s \cup {x}] = F[s] + f[x]
    BY <1>2
  <2> QED
    BY <2>4, <2>5
<1>3. D \in G
  <2> HIDE DEF G
  <2> QED
    BY <1>1, <1>2, SetInduction
<1> QED
  BY <1>3

\* A sum over two parts.
LEMMA SumParts ==
  ASSUME NEW S, IsFiniteSet(S), NEW T, IsFiniteSet(T), S \cap T = {}, NEW f, \A x \in S \cup T : f[x] \in Int
  PROVE  Sum(f, S \cup T) = Sum(f, S) + Sum(f, T)
<1> DEFINE F == [t \in SUBSET T |-> Sum(f, S \cup t) - Sum(f, S)]
<1>1. ASSUME NEW t \in SUBSET T PROVE IsFiniteSet(S \cup t) /\ Sum(f, S \cup t) \in Int
  <2>1. IsFiniteSet(S \cup t)
    BY FS_Subset, FS_Union
  <2>2. \A x \in S \cup t : f[x] \in Int
    OBVIOUS
  <2> QED
    BY <2>1, <2>2, SumInt
<1>2. Sum(f, S) \in Int
  BY SumInt
<1>3. F[{}] = 0
  <2>1. S \cup {} = S
    OBVIOUS
  <2> QED
    BY <1>2, <2>1
<1>4. ASSUME NEW t \in SUBSET T, NEW x \in T, x \notin t PROVE F[t \cup {x}] = F[t] + f[x]
  <2>1. S \cup (t \cup {x}) = (S \cup t) \cup {x} /\ x \notin S \cup t
    BY <1>4
  <2>2. Sum(f, (S \cup t) \cup {x}) = f[x] + Sum(f, S \cup t)
    <3>1. \A y \in (S \cup t) \cup {x} : f[y] \in Int
      OBVIOUS
    <3> QED
      BY <1>1, <2>1, <3>1, SumAdd
  <2>3. F[t \cup {x}] = Sum(f, S \cup (t \cup {x})) - Sum(f, S) /\ F[t] = Sum(f, S \cup t) - Sum(f, S)
    BY <1>4
  <2>4. f[x] \in Int /\ Sum(f, S \cup t) \in Int
    BY <1>1
  <2>5. F[t \cup {x}] = (f[x] + Sum(f, S \cup t)) - Sum(f, S)
    BY <2>1, <2>2, <2>3
  <2> HIDE DEF F
  <2> QED
    BY <1>2, <2>3, <2>4, <2>5
<1>5. Sum(f, T) = F[T]
  <2> HIDE DEF F
  <2> QED
    BY <1>3, <1>4, SumIs
<1>6. F[T] = Sum(f, S \cup T) - Sum(f, S) /\ Sum(f, S \cup T) \in Int
  BY <1>1
<1> HIDE DEF F
<1> QED
  BY <1>2, <1>5, <1>6

---------------------------------------------------------------------------
(* Sums over the lines of entries.                                         *)

Lines == Joined(Bookings, Codes)
Charged == [x \in Lines |-> x[2].debit]
Paid    == [x \in Lines |-> x[2].credit]
Net(B, C) == Debit(B, C) - Credit(B, C)

\* The lines of all entries, as the statements join them, are finitely many.
LEMMA LinesFinite == IsFiniteSet(Lines)
<1>1. ASSUME NEW L \in {b.lines : b \in Bookings} PROVE IsFiniteSet(L)
  BY BookingsAssumption
<1>2. IsFiniteSet({b.lines : b \in Bookings})
  <2> DEFINE f == [b \in Bookings |-> b.lines]
  <2>1. {b.lines : b \in Bookings} = {f[b] : b \in Bookings}
    OBVIOUS
  <2> HIDE DEF f
  <2>2. IsFiniteSet({f[b] : b \in Bookings})
    <3>1. \A x \in Bookings : f[x] \in {f[b] : b \in Bookings}
      OBVIOUS
    <3>2. [b \in Bookings |-> f[b]] \in Surjection(Bookings, {f[b] : b \in Bookings})
      BY DEF Surjection
    <3> QED
      BY <3>2, BookingsAssumption, FS_Surjection
  <2> QED
    BY <2>1, <2>2
<1>3. IsFiniteSet(UNION {b.lines : b \in Bookings})
  BY <1>1, <1>2, FS_UNION
<1>4. IsFiniteSet(Bookings \X UNION {b.lines : b \in Bookings})
  BY <1>3, BookingsAssumption, FS_Product
<1>5. Lines \subseteq Bookings \X UNION {b.lines : b \in Bookings}
  BY DEF Lines, Joined
<1> QED
  BY <1>4, <1>5, FS_Subset

\* What a statement joins are the lines of its entries at its accounts.
LEMMA JoinedIs ==
  ASSUME NEW B \in SUBSET Bookings, NEW C
  PROVE  /\ Joined(B, C) = {x \in Lines : x[1] \in B /\ x[2].account \in C}
         /\ Joined(B, C) \subseteq Lines /\ IsFiniteSet(Joined(B, C))
<1>1. \A b \in B : \A l \in b.lines : l.account \in Codes
  BY BookingsAssumption
<1>2. Joined(B, C) = {x \in Lines : x[1] \in B /\ x[2].account \in C}
  BY <1>1 DEF Lines, Joined
<1> QED
  BY <1>2, LinesFinite, FS_Subset

\* Amounts of lines are integers.
LEMMA AmountsOfLines ==
  /\ \A x \in Lines : Charged[x] \in Int /\ Paid[x] \in Int
  /\ \A x \in Lines : Charged[x] = x[2].debit /\ Paid[x] = x[2].credit
<1>1. \A x \in Lines : x[2].debit \in Int /\ x[2].credit \in Int
  <2>1. \A b \in Bookings : \A l \in b.lines : l.debit \in Nat /\ l.credit \in Nat
    BY BookingsAssumption, Zenon
  <2>2. \A x \in Lines : x[1] \in Bookings /\ x[2] \in x[1].lines
    BY DEF Lines, Joined
  <2> QED
    BY <2>1, <2>2
<1> QED
  BY <1>1 DEF Charged, Paid

\* The debits and credits of a statement are sums over the lines it joins.
LEMMA SidesAre ==
  ASSUME NEW B \in SUBSET Bookings, NEW C
  PROVE  /\ Debit(B, C) = Sum(Charged, Joined(B, C)) /\ Debit(B, C) \in Int
         /\ Credit(B, C) = Sum(Paid, Joined(B, C)) /\ Credit(B, C) \in Int
<1> DEFINE J == Joined(B, C)
           f == [x \in J |-> x[2].debit]
           g == [x \in J |-> x[2].credit]
<1>1. IsFiniteSet(J) /\ J \subseteq Lines
  BY JoinedIs
<1>2. Debit(B, C) = Sum(f, J) /\ Credit(B, C) = Sum(g, J)
  BY DEF Debit, Credit, SumFunction, Sum
<1>3. \A x \in J : f[x] = Charged[x] /\ g[x] = Paid[x]
  BY <1>1, AmountsOfLines
<1> HIDE DEF J, f, g
<1>4. Sum(f, J) = Sum(Charged, J) /\ Sum(g, J) = Sum(Paid, J)
  BY <1>1, <1>3, SumSame
<1>5. \A x \in J : Charged[x] \in Int /\ Paid[x] \in Int
  BY <1>1, AmountsOfLines
<1>6. Sum(Charged, J) \in Int /\ Sum(Paid, J) \in Int
  BY <1>1, <1>5, SumInt
<1> QED
  BY <1>2, <1>4, <1>6 DEF J

\* Joins that do not overlap add up.
LEMMA SidesAdd ==
  ASSUME NEW A \in SUBSET Bookings, NEW B \in SUBSET Bookings, NEW H \in SUBSET Bookings, NEW C, NEW D, NEW E,
         Joined(H, E) = Joined(A, C) \cup Joined(B, D), Joined(A, C) \cap Joined(B, D) = {}
  PROVE  Net(H, E) = Net(A, C) + Net(B, D)
<1> DEFINE S == Joined(A, C)  T == Joined(B, D)
<1>1. IsFiniteSet(S) /\ IsFiniteSet(T) /\ S \subseteq Lines /\ T \subseteq Lines
  BY JoinedIs
<1>2. \A x \in S \cup T : Charged[x] \in Int /\ Paid[x] \in Int
  BY <1>1, AmountsOfLines
<1>3. S \cap T = {}
  OBVIOUS
<1> HIDE DEF S, T
<1>4. Sum(Charged, S \cup T) = Sum(Charged, S) + Sum(Charged, T)
  BY <1>1, <1>2, <1>3, SumParts
<1>5. Sum(Paid, S \cup T) = Sum(Paid, S) + Sum(Paid, T)
  BY <1>1, <1>2, <1>3, SumParts
<1>6. /\ Debit(H, E) = Sum(Charged, S \cup T) /\ Credit(H, E) = Sum(Paid, S \cup T)
      /\ Debit(A, C) = Sum(Charged, S) /\ Credit(A, C) = Sum(Paid, S)
      /\ Debit(B, D) = Sum(Charged, T) /\ Credit(B, D) = Sum(Paid, T)
  BY SidesAre DEF S, T
<1>7. /\ Debit(A, C) \in Int /\ Credit(A, C) \in Int
      /\ Debit(B, D) \in Int /\ Credit(B, D) \in Int
  BY SidesAre
<1> QED
  BY <1>4, <1>5, <1>6, <1>7 DEF Net

\* The net amount at two sets of accounts, and of two sets of entries.
LEMMA NetAccounts ==
  ASSUME NEW B \in SUBSET Bookings, NEW C, NEW D, C \cap D = {}
  PROVE  Net(B, C \cup D) = Net(B, C) + Net(B, D)
<1>1. Joined(B, C \cup D) = Joined(B, C) \cup Joined(B, D) /\ Joined(B, C) \cap Joined(B, D) = {}
  BY JoinedIs
<1>2. PICK E : E = C \cup D
  OBVIOUS
<1>3. Joined(B, E) = Joined(B, C) \cup Joined(B, D)
  BY <1>1, <1>2
<1>4. Net(B, E) = Net(B, C) + Net(B, D)
  BY <1>1, <1>3, SidesAdd
<1> QED
  BY <1>2, <1>4

LEMMA NetEntries ==
  ASSUME NEW A \in SUBSET Bookings, NEW B \in SUBSET Bookings, A \cap B = {}, NEW C
  PROVE  Net(A \cup B, C) = Net(A, C) + Net(B, C)
<1>1. Joined(A \cup B, C) = Joined(A, C) \cup Joined(B, C) /\ Joined(A, C) \cap Joined(B, C) = {}
  BY JoinedIs
<1> QED
  BY <1>1, SidesAdd

LEMMA NetInt ==
  ASSUME NEW B \in SUBSET Bookings, NEW C
  PROVE  Net(B, C) \in Int
BY SidesAre DEF Net

LEMMA NetEmpty ==
  ASSUME NEW B \in SUBSET Bookings, NEW C
  PROVE  Net(B, {}) = 0 /\ Net({}, C) = 0
<1>1. Joined(B, {}) = {} /\ Joined({}, C) = {}
  BY DEF Joined
<1>2. /\ Debit(B, {}) = 0 /\ Credit(B, {}) = 0
      /\ Debit({}, C) = 0 /\ Credit({}, C) = 0
  <2>1. {} \in SUBSET Bookings
    OBVIOUS
  <2> QED
    BY <1>1, <2>1, SidesAre, SumEmpty
<1> QED
  BY <1>2 DEF Net

\* Entries that are balanced are balanced together.
LEMMA NetBalanced ==
  ASSUME NEW B \in SUBSET Bookings
  PROVE  Net(B, Codes) = 0
<1> DEFINE G == {s \in SUBSET B : Net(s, Codes) = 0}
<1>1. IsFiniteSet(B)
  BY BookingsAssumption, FS_Subset
<1>2. {} \in G
  BY NetEmpty
<1>3. ASSUME NEW s \in SUBSET B, NEW b \in B, s \in G, b \notin s PROVE s \cup {b} \in G
  <2>1. Net({b}, Codes) = 0
    <3>1. Debit({b}, Codes) = Credit({b}, Codes)
      BY BookingsAssumption
    <3>2. Credit({b}, Codes) \in Int
      BY SidesAre
    <3> QED
      BY <3>1, <3>2 DEF Net
  <2>2. Net(s \cup {b}, Codes) = Net(s, Codes) + Net({b}, Codes)
    BY <1>3, NetEntries
  <2> QED
    BY <1>3, <2>1, <2>2
<1>4. B \in G
  <2> HIDE DEF G
  <2> QED
    BY <1>1, <1>2, <1>3, SetInduction
<1> QED
  BY <1>4

(* Rows of accounts.                                                       *)

\* The chart of accounts, by kind, normal side and term.
LEMMA ChartIs ==
  /\ OfType({"asset"}) = {1002, 1003, 1004, 1402} /\ OfType({"liability"}) = {2103, 2601}
  /\ OfType({"equity"}) = {3001} /\ OfType({"revenue"}) = {4001, 4101, 4301}
  /\ OfType({"expense"}) = {5001, 5101, 5601, 5701}
  /\ \A c \in Codes : c \in Int /\ Chart[c].normal = IF c \in {1402, 2601, 3001, 4001, 4101, 4301} THEN "credit" ELSE "debit"
  /\ \A c \in Codes : Chart[c].current = IF c \in {1002, 1003, 1004, 2103} THEN "yes"
                                         ELSE IF c \in {1402, 2601} THEN "no" ELSE "none"
<1>1. /\ \A c \in {1002, 1003, 1004} : Chart[c] = Account("asset", "debit", "yes")
      /\ Chart[1402] = Account("asset", "credit", "no")
      /\ Chart[2103] = Account("liability", "debit", "yes")
      /\ Chart[2601] = Account("liability", "credit", "no")
      /\ Chart[3001] = Account("equity", "credit", "none")
      /\ \A c \in {4001, 4101, 4301} : Chart[c] = Account("revenue", "credit", "none")
      /\ \A c \in {5001, 5101, 5601, 5701} : Chart[c] = Account("expense", "debit", "none")
  BY DEF Chart, Codes
<1> QED
  BY <1>1 DEF OfType, Codes, Account

\* The chart is finite.
LEMMA CodesFinite == IsFiniteSet(Codes)
<1>1. PICK m \in Int, n \in Int : m = 1002 /\ n = 5701
  OBVIOUS
<1>2. Codes \subseteq m .. n
  BY <1>1 DEF Codes
<1> QED
  BY <1>2, FS_Interval, FS_Subset

Debits == {c \in Codes : Chart[c].normal = "debit"}
Credits == {c \in Codes : Chart[c].normal = "credit"}

\* An account's amount on its normal side is its net, or the opposite.
LEMMA NaturalIs ==
  ASSUME NEW B \in SUBSET Bookings, NEW c \in Codes
  PROVE  /\ Natural(B, c) \in Int
         /\ c \in Debits => Natural(B, c) = Net(B, {c})
         /\ c \in Credits => Natural(B, c) = -Net(B, {c})
<1>1. Debit(B, {c}) \in Int /\ Credit(B, {c}) \in Int
  BY SidesAre
<1> QED
  BY <1>1 DEF Natural, Net, Debits, Credits

\* Natural amounts of accounts of one side add up to the net of these accounts.
LEMMA NaturalsAdd ==
  ASSUME NEW B \in SUBSET Bookings, NEW C \in SUBSET Codes, NEW f, \A c \in C : f[c] = Natural(B, c)
  PROVE  /\ C \subseteq Debits => Sum(f, C) = Net(B, C)
         /\ C \subseteq Credits => Sum(f, C) = -Net(B, C)
         /\ Sum(f, C) \in Int
<1>1. IsFiniteSet(C)
  BY CodesFinite, FS_Subset
<1>2. \A c \in C : f[c] \in Int
  BY NaturalIs
<1>3. ASSUME NEW s \in SUBSET C, NEW c \in C, c \notin s
      PROVE  Net(B, s \cup {c}) = Net(B, s) + Net(B, {c}) /\ Net(B, s) \in Int /\ Net(B, {c}) \in Int
  BY <1>3, NetAccounts, NetInt
<1>4. ASSUME C \subseteq Debits PROVE Sum(f, C) = Net(B, C)
  <2> DEFINE F == [s \in SUBSET C |-> Net(B, s)]
  <2>1. F[{}] = 0
    BY NetEmpty
  <2>2. ASSUME NEW s \in SUBSET C, NEW c \in C, c \notin s PROVE F[s \cup {c}] = F[s] + f[c]
    BY <1>3, <1>4, <2>2, NaturalIs
  <2>3. F[C] = Net(B, C)
    OBVIOUS
  <2> HIDE DEF F
  <2> QED
    BY <1>1, <1>2, <2>1, <2>2, <2>3, SumIs
<1>5. ASSUME C \subseteq Credits PROVE Sum(f, C) = -Net(B, C)
  <2> DEFINE F == [s \in SUBSET C |-> -Net(B, s)]
  <2>1. F[{}] = 0
    BY NetEmpty
  <2>2. ASSUME NEW s \in SUBSET C, NEW c \in C, c \notin s PROVE F[s \cup {c}] = F[s] + f[c]
    <3>1. f[c] = -Net(B, {c})
      BY <1>5, NaturalIs
    <3>2. F[s \cup {c}] = -Net(B, s \cup {c}) /\ F[s] = -Net(B, s)
      BY <2>2
    <3> HIDE DEF F
    <3> QED
      BY <1>3, <2>2, <3>1, <3>2
  <2>3. F[C] = -Net(B, C)
    OBVIOUS
  <2> HIDE DEF F
  <2> QED
    BY <1>1, <1>2, <2>1, <2>2, <2>3, SumIs
<1> QED
  BY <1>1, <1>2, <1>4, <1>5, SumInt

---------------------------------------------------------------------------
(* Sheets of the books.                                                     *)

\* The classes of the income statement, by revenue and the code of a cost.
LEMMA ClassesAre ==
  /\ \A c \in {4001, 4101, 4301} : classifyPnlRow(c) = "revenue"
  /\ classifyPnlRow(5001) = "cogs" /\ classifyPnlRow(5101) = "operating_expense"
  /\ classifyPnlRow(5601) = "income_tax" /\ classifyPnlRow(5701) = "non_operating"
<1>1. \A c \in {4001, 4101, 4301} : Chart[c].type = "revenue"
  BY ChartIs DEF OfType
<1>2. \A c \in {5001, 5101, 5601, 5701} : Chart[c].type # "revenue"
  BY ChartIs DEF OfType
<1>3. \A c \in {4001, 4101, 4301} : classifyPnlRow(c) = "revenue"
  BY <1>1 DEF classifyPnlRow
<1>4. classifyPnlRow(5001) = "cogs"
  BY <1>2 DEF classifyPnlRow
<1>5. classifyPnlRow(5101) = "operating_expense"
  <2>1. 5101 \div 100 = 51
    OBVIOUS
  <2> QED
    BY <1>2, <2>1 DEF classifyPnlRow
<1>6. classifyPnlRow(5601) = "income_tax"
  BY <1>2 DEF classifyPnlRow
<1>7. classifyPnlRow(5701) = "non_operating"
  <2>1. 5701 \div 100 = 57
    OBVIOUS
  <2> QED
    BY <1>2, <2>1 DEF classifyPnlRow
<1> QED
  BY <1>3, <1>4, <1>5, <1>6, <1>7

\* Totals of rows are net amounts.
LEMMA TotalsAre ==
  ASSUME NEW D \in SUBSET Codes, NEW C \in SUBSET D, NEW a, NEW z, NEW k \in Split
  PROVE  /\ C \subseteq Debits => Totals(Amounts(D, a, z), C)[k] = Net(Held(k, a, z), C)
         /\ C \subseteq Credits => Totals(Amounts(D, a, z), C)[k] = -Net(Held(k, a, z), C)
         /\ Totals(Amounts(D, a, z), C)[k] \in Int
<1> DEFINE rows == Amounts(D, a, z)
           f == [c \in C |-> rows[c][k]]
           B == Held(k, a, z)
<1>1. B \in SUBSET Bookings
  BY DEF Held, Between, Saved
<1>2. Totals(rows, C)[k] = Sum(f, C)
  BY DEF Totals, SumFunction, Sum
<1>3. \A c \in C : f[c] = Natural(B, c)
  BY DEF Amounts
<1> HIDE DEF rows, f, B
<1>4. C \in SUBSET Codes
  OBVIOUS
<1>5. /\ C \subseteq Debits => Sum(f, C) = Net(B, C)
      /\ C \subseteq Credits => Sum(f, C) = -Net(B, C)
      /\ Sum(f, C) \in Int
  BY <1>1, <1>3, <1>4, NaturalsAdd
<1> QED
  BY <1>2, <1>5 DEF rows, B

\* The rows of a statement, by the account's normal side.
LEMMA SidesOf ==
  /\ {1002, 1003, 1004} \subseteq Debits /\ {1402} \subseteq Credits
  /\ {2103} \subseteq Debits /\ {2601} \subseteq Credits /\ {3001} \subseteq Credits
  /\ {4001, 4101, 4301} \subseteq Credits
  /\ {5001} \subseteq Debits /\ {5101} \subseteq Debits /\ {5601} \subseteq Debits /\ {5701} \subseteq Debits
BY ChartIs DEF Debits, Credits, Codes

\* Totals are added and taken off component by component.
LEMMA SumsOfSplit ==
  ASSUME NEW x, NEW y, NEW k \in Split
  PROVE  Plus(x, y)[k] = x[k] + y[k] /\ Minus(x, y)[k] = x[k] - y[k]
BY DEF Plus, Minus

\* The net income of an income statement, as nets of accounts.
LEMMA IncomeIs ==
  ASSUME NEW a, NEW z, NEW k \in Split
  PROVE  LET B == Held(k, a, z) IN
         buildIncomeStatement(PnlAggregates(a, z))[k]
           = (((-Net(B, {4001, 4101, 4301}) - Net(B, {5001})) - Net(B, {5101})) + Net(B, {5701})) - Net(B, {5601})
<1> DEFINE B == Held(k, a, z)
           D == OfType({"revenue", "expense"})
           rows == Amounts(D, a, z)
<1>1. D = {4001, 4101, 4301, 5001, 5101, 5601, 5701} /\ D \subseteq Codes
  BY ChartIs DEF OfType
<1>2. DOMAIN rows = D /\ PnlAggregates(a, z) = rows
  BY DEF Amounts, PnlAggregates
<1>3. /\ {c \in DOMAIN rows : classifyPnlRow(c) \in {"revenue"}} = {4001, 4101, 4301}
      /\ {c \in DOMAIN rows : classifyPnlRow(c) \in {"cogs"}} = {5001}
      /\ {c \in DOMAIN rows : classifyPnlRow(c) \in {"operating_expense"}} = {5101}
      /\ {c \in DOMAIN rows : classifyPnlRow(c) \in {"non_operating"}} = {5701}
      /\ {c \in DOMAIN rows : classifyPnlRow(c) \in {"income_tax"}} = {5601}
  BY <1>1, <1>2, ClassesAre
<1> HIDE DEF D
<1>4. /\ Totals(rows, {4001, 4101, 4301})[k] = -Net(B, {4001, 4101, 4301})
      /\ Totals(rows, {5001})[k] = Net(B, {5001})
      /\ Totals(rows, {5101})[k] = Net(B, {5101})
      /\ Totals(rows, {5701})[k] = Net(B, {5701})
      /\ Totals(rows, {5601})[k] = Net(B, {5601})
  BY <1>1, SidesOf, TotalsAre
<1> HIDE DEF rows, B
<1>5. /\ OfKind(rows, {"revenue"})[k] = -Net(B, {4001, 4101, 4301})
      /\ OfKind(rows, {"cogs"})[k] = Net(B, {5001})
      /\ OfKind(rows, {"operating_expense"})[k] = Net(B, {5101})
      /\ OfKind(rows, {"non_operating"})[k] = Net(B, {5701})
      /\ OfKind(rows, {"income_tax"})[k] = Net(B, {5601})
  BY <1>3, <1>4 DEF OfKind
<1>6. buildIncomeStatement(rows)[k]
        = (((OfKind(rows, {"revenue"})[k] - OfKind(rows, {"cogs"})[k])
              - OfKind(rows, {"operating_expense"})[k]) + OfKind(rows, {"non_operating"})[k])
            - OfKind(rows, {"income_tax"})[k]
  BY SumsOfSplit DEF buildIncomeStatement
<1> QED
  BY <1>2, <1>5, <1>6 DEF B

\* What a balance sheet is short of, as nets of accounts.
LEMMA GapIs ==
  ASSUME NEW z, NEW k \in Split
  PROVE  LET B == Held(k, 0, z) IN
         Gap(BalanceSheetAggregates(z))[k]
           = (Net(B, {1002, 1003, 1004}) - Net(B, {1402}))
               - ((Net(B, {2103}) - Net(B, {2601})) - Net(B, {3001}))
<1> DEFINE B == Held(k, 0, z)
           D == OfType({"asset", "liability", "equity"})
           rows == Amounts(D, 0, z)
<1>1. D = {1002, 1003, 1004, 1402, 2103, 2601, 3001} /\ D \subseteq Codes
  BY ChartIs DEF OfType
<1>2. DOMAIN rows = D /\ BalanceSheetAggregates(z) = rows
  BY DEF Amounts, BalanceSheetAggregates
<1>9. \A c \in D :
                  /\ (Chart[c].type = "asset") <=> (c \in {1002, 1003, 1004, 1402})
                  /\ (Chart[c].type = "liability") <=> (c \in {2103, 2601})
                  /\ (Chart[c].type = "equity") <=> (c = 3001)
  BY <1>1, ChartIs DEF OfType
<1>10. \A c \in D : Chart[c].current = IF c \in {1002, 1003, 1004, 2103} THEN "yes"
                                       ELSE IF c \in {1402, 2601} THEN "no" ELSE "none"
  BY <1>1, ChartIs
<1> HIDE DEF D
<1>4. /\ Totals(rows, {1002, 1003, 1004})[k] = Net(B, {1002, 1003, 1004})
      /\ Totals(rows, {1402})[k] = -Net(B, {1402})
      /\ Totals(rows, {2103})[k] = Net(B, {2103})
      /\ Totals(rows, {2601})[k] = -Net(B, {2601})
      /\ Totals(rows, {3001})[k] = -Net(B, {3001})
  BY <1>1, SidesOf, TotalsAre
<1>7. \A C : C \in SUBSET Codes => Net(B, C) \in Int
  BY NetInt DEF Held, Between, Saved
<1> HIDE DEF rows, B
<1>11. Section(rows, "asset", {"yes"}) = Totals(rows, {1002, 1003, 1004})
  <2> DEFINE C == {1002, 1003, 1004}
  <2>1. \A c \in D : Chart[c].type = "asset" /\ Chart[c].current \in {"yes"} <=> c \in C
    BY <1>1, <1>9, <1>10
  <2>2. C \subseteq D
    BY <1>1
  <2> HIDE DEF C
  <2>3. {c \in DOMAIN rows : Chart[c].type = "asset" /\ Chart[c].current \in {"yes"}} = C
    BY <1>2, <2>1, <2>2
  <2>4. Section(rows, "asset", {"yes"}) = Totals(rows, C)
    BY <2>3 DEF Section
  <2> QED
    BY <2>4 DEF C
<1>12. Section(rows, "asset", {"no"}) = Totals(rows, {1402})
  <2>1. {c \in DOMAIN rows : Chart[c].type = "asset" /\ Chart[c].current \in {"no"}} = {1402}
    BY <1>1, <1>2, <1>9, <1>10
  <2> QED
    BY <2>1 DEF Section
<1>13. Section(rows, "liability", {"yes"}) = Totals(rows, {2103})
  <2>1. {c \in DOMAIN rows : Chart[c].type = "liability" /\ Chart[c].current \in {"yes"}} = {2103}
    BY <1>1, <1>2, <1>9, <1>10
  <2> QED
    BY <2>1 DEF Section
<1>14. Section(rows, "liability", {"no"}) = Totals(rows, {2601})
  <2>1. {c \in DOMAIN rows : Chart[c].type = "liability" /\ Chart[c].current \in {"no"}} = {2601}
    BY <1>1, <1>2, <1>9, <1>10
  <2> QED
    BY <2>1 DEF Section
<1>15. Section(rows, "equity", {"yes", "no", "none"}) = Totals(rows, {3001})
  <2>1. {c \in DOMAIN rows : Chart[c].type = "equity" /\ Chart[c].current \in {"yes", "no", "none"}} = {3001}
    BY <1>1, <1>2, <1>9, <1>10
  <2> QED
    BY <2>1 DEF Section
<1>5. /\ Section(rows, "asset", {"yes"})[k] = Net(B, {1002, 1003, 1004})
      /\ Section(rows, "asset", {"no"})[k] = -Net(B, {1402})
      /\ Section(rows, "liability", {"yes"})[k] = Net(B, {2103})
      /\ Section(rows, "liability", {"no"})[k] = -Net(B, {2601})
      /\ Section(rows, "equity", {"yes", "no", "none"})[k] = -Net(B, {3001})
  BY <1>4, <1>11, <1>12, <1>13, <1>14, <1>15
<1>6. Gap(rows)[k]
        = (Section(rows, "asset", {"yes"})[k] + Section(rows, "asset", {"no"})[k])
            - ((Section(rows, "liability", {"yes"})[k] + Section(rows, "liability", {"no"})[k])
                 + Section(rows, "equity", {"yes", "no", "none"})[k])
  BY SumsOfSplit DEF Gap
<1>8. /\ Net(B, {1002, 1003, 1004}) \in Int /\ Net(B, {1402}) \in Int
      /\ Net(B, {2103}) \in Int /\ Net(B, {2601}) \in Int /\ Net(B, {3001}) \in Int
  BY <1>7 DEF Codes
<1> QED
  BY <1>2, <1>5, <1>6, <1>8 DEF B

\* The accounts of the chart, one part after the other, have a net that adds up.
LEMMA CodesParts ==
  ASSUME NEW B \in SUBSET Bookings
  PROVE  Net(B, {1002, 1003, 1004}) + Net(B, {1402}) + Net(B, {2103}) + Net(B, {2601}) + Net(B, {3001})
           + Net(B, {4001, 4101, 4301}) + Net(B, {5001}) + Net(B, {5101}) + Net(B, {5601}) + Net(B, {5701}) = 0
<1> DEFINE N(C) == Net(B, C)
<1>1. \A C, D : C \cap D = {} => N(C \cup D) = N(C) + N(D)
  BY NetAccounts
<1>2. \A C : N(C) \in Int
  BY NetInt
<1>3. N(Codes) = 0
  BY NetBalanced
<1> HIDE DEF N
<1> DEFINE C1 == {1002, 1003, 1004}
           C2 == C1 \cup {1402}
           C3 == C2 \cup {2103}
           C4 == C3 \cup {2601}
           C5 == C4 \cup {3001}
           C6 == C5 \cup {4001, 4101, 4301}
           C7 == C6 \cup {5001}
           C8 == C7 \cup {5101}
           C9 == C8 \cup {5601}
<1>4. C9 \cup {5701} = Codes
  BY DEF Codes
<1>5. N(C2) = N(C1) + N({1402})
  BY <1>1
<1>6. N(C3) = N(C2) + N({2103})
  BY <1>1
<1>7. N(C4) = N(C3) + N({2601})
  BY <1>1
<1>8. N(C5) = N(C4) + N({3001})
  BY <1>1
<1>9. N(C6) = N(C5) + N({4001, 4101, 4301})
  BY <1>1
<1>10. N(C7) = N(C6) + N({5001})
  BY <1>1
<1>11. N(C8) = N(C7) + N({5101})
  BY <1>1
<1>12. N(C9) = N(C8) + N({5601})
  BY <1>1
<1>13. N(C9 \cup {5701}) = N(C9) + N({5701})
  BY <1>1
<1> HIDE DEF C1, C2, C3, C4, C5, C6, C7, C8, C9
<1>14. N(C1) + N({1402}) + N({2103}) + N({2601}) + N({3001}) + N({4001, 4101, 4301})
         + N({5001}) + N({5101}) + N({5601}) + N({5701}) = 0
  BY <1>2, <1>3, <1>4, <1>5, <1>6, <1>7, <1>8, <1>9, <1>10, <1>11, <1>12, <1>13
<1> QED
  BY <1>14 DEF N, C1

\* Nothing is netted at an account nothing was booked on.
LEMMA PlainNet ==
  ASSUME Plain, NEW B \in SUBSET Saved, NEW c \in {1402, 2103, 5701}
  PROVE  Net(B, {c}) = 0
<1>1. Joined(B, {c}) = {}
  BY DEF Plain, Joined
<1>2. B \in SUBSET Bookings
  BY DEF Saved
<1>3. Debit(B, {c}) = 0 /\ Credit(B, {c}) = 0
  BY <1>1, <1>2, SidesAre, SumEmpty
<1> QED
  BY <1>3 DEF Net

\* However the journal is written, the balance sheet of plain books is short of just the
\* net income since the first entry: buildBalanceSheet refuses books with a result that is certain.
THEOREM SheetLacksJustIncome == BooksSpec => []SheetLacksIncome
<1>1. SheetLacksIncome
  <2> SUFFICES ASSUME Plain, NEW p \in Periods
               PROVE  Gap(BalanceSheetAggregates(p[2])) = buildIncomeStatement(PnlAggregates(0, p[2]))
    BY DEF SheetLacksIncome
  <2> DEFINE z == p[2]
             L == Gap(BalanceSheetAggregates(z))
             R == buildIncomeStatement(PnlAggregates(0, z))
  <2>1. ASSUME NEW k \in Split PROVE L[k] = R[k]
    <3> DEFINE B == Held(k, 0, z)
    <3>1. B \in SUBSET Saved /\ B \in SUBSET Bookings
      BY DEF Held, Between, Saved
    <3>2. L[k] = (Net(B, {1002, 1003, 1004}) - Net(B, {1402})) - ((Net(B, {2103}) - Net(B, {2601})) - Net(B, {3001}))
      BY GapIs
    <3>3. R[k] = (((-Net(B, {4001, 4101, 4301}) - Net(B, {5001})) - Net(B, {5101})) + Net(B, {5701})) - Net(B, {5601})
      BY IncomeIs
    <3> HIDE DEF L, R, B
    <3>4. Net(B, {1402}) = 0 /\ Net(B, {2103}) = 0 /\ Net(B, {5701}) = 0
      BY <3>1, PlainNet
    <3>5. \A C : Net(B, C) \in Int
      BY <3>1, NetInt
    <3>6. Net(B, {1002, 1003, 1004}) + Net(B, {1402}) + Net(B, {2103}) + Net(B, {2601}) + Net(B, {3001})
            + Net(B, {4001, 4101, 4301}) + Net(B, {5001}) + Net(B, {5101}) + Net(B, {5601}) + Net(B, {5701}) = 0
      BY <3>1, CodesParts
    <3> QED
      BY <3>2, <3>3, <3>4, <3>5, <3>6
  <2>2. L = [k \in Split |-> L[k]]
    BY DEF Gap, Minus
  <2>3. R = [k \in Split |-> R[k]]
    BY DEF buildIncomeStatement, Minus
  <2> HIDE DEF L, R
  <2>4. L = R
    BY <2>1, <2>2, <2>3
  <2> QED
    BY <2>4 DEF L, R
<1> QED
  BY <1>1, PTL

---------------------------------------------------------------------------
(* What statements see while they are built.                                *)

SplitInt == [Split -> Int]

\* Each query and each sum of a builder returns what its type says.
LEMMA AmountsType ==
  ASSUME NEW C \in SUBSET Codes, NEW a, NEW z
  PROVE  Amounts(C, a, z) \in [C -> SplitInt]
<1>1. \A k : Held(k, a, z) \in SUBSET Bookings
  BY DEF Held, Between, Saved
<1>2. \A k \in Split, c \in C : Natural(Held(k, a, z), c) \in Int
  BY <1>1, NaturalIs
<1> QED
  BY <1>2 DEF Amounts, SplitInt

LEMMA TotalsType ==
  ASSUME NEW D \in SUBSET Codes, NEW C \in SUBSET D, NEW rows \in [D -> SplitInt]
  PROVE  Totals(rows, C) \in SplitInt
<1>1. ASSUME NEW k \in Split PROVE SumFunction([c \in C |-> rows[c][k]]) \in Int
  <2> DEFINE f == [c \in C |-> rows[c][k]]
  <2>1. SumFunction(f) = Sum(f, C)
    BY DEF SumFunction, Sum
  <2>2. \A c \in C : f[c] \in Int
    BY DEF SplitInt
  <2>3. IsFiniteSet(C)
    BY CodesFinite, FS_Subset
  <2> HIDE DEF f
  <2>4. Sum(f, C) \in Int
    BY <2>2, <2>3, SumInt
  <2> QED
    BY <2>1, <2>4 DEF f
<1> QED
  BY <1>1 DEF Totals, SplitInt

LEMMA SplitType ==
  ASSUME NEW x \in SplitInt, NEW y \in SplitInt
  PROVE  Plus(x, y) \in SplitInt /\ Minus(x, y) \in SplitInt
BY DEF SplitInt, Plus, Minus

LEMMA IncomeType ==
  ASSUME NEW D \in SUBSET Codes, NEW rows \in [D -> SplitInt]
  PROVE  buildIncomeStatement(rows) \in SplitInt
<1>1. \A kinds : OfKind(rows, kinds) \in SplitInt
  BY TotalsType DEF OfKind
<1> QED
  BY <1>1, SplitType DEF buildIncomeStatement

\* Each entry is balanced, so that a trial balance of whole entries is.
LEMMA TrialIsWhole ==
  ASSUME NEW z
  PROVE  TrialGap(TrialBalanceAggregates(z))["certain"] = 0
<1> DEFINE B == Held("certain", 0, z)
           rows == TrialBalanceAggregates(z)
           f == [c \in Codes |-> Net(B, {c})]
           F == [s \in SUBSET Codes |-> Net(B, s)]
<1>1. B \in SUBSET Bookings
  BY DEF Held, Between, Saved
<1>2. [c \in DOMAIN rows |-> rows[c].debit["certain"] - rows[c].credit["certain"]] = f
  BY DEF TrialBalanceAggregates, Net, Split
<1>3. TrialGap(rows)["certain"] = Sum(f, Codes)
  BY <1>2 DEF TrialGap, SumFunction, Sum, Split
<1>4. F[{}] = 0
  BY <1>1, NetEmpty
<1>5. \A c \in Codes : f[c] \in Int
  BY <1>1, NetInt
<1>6. ASSUME NEW s \in SUBSET Codes, NEW c \in Codes, c \notin s PROVE F[s \cup {c}] = F[s] + f[c]
  <2>1. Net(B, s \cup {c}) = Net(B, s) + Net(B, {c})
    BY <1>1, <1>6, NetAccounts
  <2> QED
    BY <2>1
<1>7. F[Codes] = 0
  BY <1>1, NetBalanced
<1> HIDE DEF f, F, rows
<1>8. Sum(f, Codes) = F[Codes]
  BY <1>4, <1>5, <1>6, CodesFinite, SumIs
<1> QED
  BY <1>3, <1>7, <1>8 DEF rows

\* Uncertain entries are counted with a natural number.
LEMMA CountType == CountUncertain \in Nat
<1>1. IsFiniteSet({b \in Saved : ledger[b] = "uncertain"})
  BY BookingsAssumption, FS_Subset DEF Saved
<1> QED
  BY <1>1, FS_CardinalityType DEF CountUncertain

\* The queries of a statement, in the order its use case asks them.
LEMMA PartsAre ==
  /\ Len(Parts("cash_flow")) = 4
  /\ \A kind \in Kinds \ {"cash_flow"} : Len(Parts(kind)) = 2 /\ Parts(kind)[1] = "rows" /\ Parts(kind)[2] = "count"
  /\ Parts("cash_flow")[1] = "rows" /\ Parts("cash_flow")[2] = "opening"
  /\ Parts("cash_flow")[3] = "closing" /\ Parts("cash_flow")[4] = "count"
BY DEF Parts, Kinds

\* Each of them returns what is typed for it.
LEMMA QueryType ==
  ASSUME ask.kind \in Kinds, NEW i \in 1 .. Len(Parts(ask.kind))
  PROVE  Query(Parts(ask.kind)[i]) \in Returned(ask.kind, Parts(ask.kind)[i])
<1>1. ASSUME NEW p \in {"count"} PROVE Query(p) \in Returned(ask.kind, p)
  BY <1>1, CountType DEF Query, Returned
<1>2. ASSUME NEW p \in {"opening", "closing"} PROVE Query(p) \in Returned(ask.kind, p)
  <2>1. \A z : CashSnapshot(z) \in SplitInt
    <3> DEFINE C == CashAccounts \cap Codes
    <3>1. C \in SUBSET Codes /\ C \in SUBSET C
      OBVIOUS
    <3>2. \A z : CashSnapshot(z) = Totals(Amounts(C, 0, z), C)
      BY DEF CashSnapshot
    <3> HIDE DEF C
    <3> QED
      BY <3>1, <3>2, AmountsType, TotalsType
  <2> QED
    BY <1>2, <2>1 DEF Query, Returned, SplitInt
<1>3. ASSUME NEW p \in {"rows"} PROVE Query(p) \in Returned(ask.kind, p)
  <2>1. \A T : OfType(T) \in SUBSET Codes
    BY DEF OfType
  <2>2. \A a, z : PnlAggregates(a, z) \in [OfType({"revenue", "expense"}) -> SplitInt]
    BY <2>1, AmountsType DEF PnlAggregates
  <2>3. \A z : BalanceSheetAggregates(z) \in [OfType({"asset", "liability", "equity"}) -> SplitInt]
    BY <2>1, AmountsType DEF BalanceSheetAggregates
  <2>4. \A z : TrialBalanceAggregates(z) \in [Codes -> [debit : SplitInt, credit : SplitInt]]
    <3>1. \A k, z : Held(k, 0, z) \in SUBSET Bookings
      BY DEF Held, Between, Saved
    <3>2. \A k, z, c : Debit(Held(k, 0, z), {c}) \in Int /\ Credit(Held(k, 0, z), {c}) \in Int
      BY <3>1, SidesAre
    <3> QED
      BY <3>2 DEF TrialBalanceAggregates, SplitInt
  <2>5. CASE ask.kind \in {"pnl", "cash_flow"}
    BY <1>3, <2>2, <2>5 DEF Query, Returned, SplitInt
  <2>6. CASE ask.kind = "balance_sheet"
    BY <1>3, <2>3, <2>6 DEF Query, Returned, SplitInt
  <2>7. CASE ask.kind = "trial_balance"
    BY <1>3, <2>4, <2>7 DEF Query, Returned, SplitInt
  <2> QED
    BY <2>5, <2>6, <2>7 DEF Kinds
<1> QED
  BY <1>1, <1>2, <1>3, PartsAre DEF Kinds

\* The part a query of a statement has returned.
LEMMA PartIs ==
  ASSUME ask.kind \in Kinds, Len(parts) = Len(Parts(ask.kind)), DOMAIN parts = 1 .. Len(parts)
  PROVE  /\ Part("rows") = parts[1]
         /\ ask.kind = "cash_flow" => Part("opening") = parts[2] /\ Part("closing") = parts[3]
         /\ Part("count") = parts[IF ask.kind = "cash_flow" THEN 4 ELSE 2]
<1>1. CASE ask.kind = "cash_flow"
  <2>1. DOMAIN parts = {1, 2, 3, 4}
    <3>1. Len(parts) = 4
      BY <1>1, PartsAre
    <3>2. 1 .. 4 = {1, 2, 3, 4}
      OBVIOUS
    <3> QED
      BY <3>1, <3>2
  <2>2. /\ (CHOOSE i \in DOMAIN parts : Parts(ask.kind)[i] = "rows") = 1
        /\ (CHOOSE i \in DOMAIN parts : Parts(ask.kind)[i] = "opening") = 2
        /\ (CHOOSE i \in DOMAIN parts : Parts(ask.kind)[i] = "closing") = 3
        /\ (CHOOSE i \in DOMAIN parts : Parts(ask.kind)[i] = "count") = 4
    BY <1>1, <2>1, PartsAre
  <2> QED
    BY <1>1, <2>2 DEF Part
<1>2. CASE ask.kind # "cash_flow"
  <2>1. DOMAIN parts = {1, 2}
    <3>1. Len(parts) = 2
      BY <1>2, PartsAre
    <3>2. 1 .. 2 = {1, 2}
      OBVIOUS
    <3> QED
      BY <3>1, <3>2
  <2>2. /\ (CHOOSE i \in DOMAIN parts : Parts(ask.kind)[i] = "rows") = 1
        /\ (CHOOSE i \in DOMAIN parts : Parts(ask.kind)[i] = "count") = 2
    BY <1>2, <2>1, PartsAre
  <2> QED
    BY <1>2, <2>2 DEF Part
<1> QED
  BY <1>1, <1>2

BooksIInv == BooksTypeOK /\ SeenWhole /\ NeverRefused

\* A cash flow balances, whatever its queries saw: the working capital is what is left.
LEMMA NothingOff ==
  ASSUME BooksTypeOK, SeenWhole, ask # Nothing, Len(parts) = Len(Parts(ask.kind)), ask.kind # "balance_sheet"
  PROVE  Difference = 0
<1>1. /\ ask.kind \in Kinds /\ DOMAIN parts = 1 .. Len(parts)
      /\ \A i \in 1 .. Len(parts) : parts[i] \in Returned(ask.kind, Parts(ask.kind)[i])
  BY DEF BooksTypeOK
<1>2. Part("rows") = parts[1]
  BY <1>1, PartIs
<1>3. CASE ask.kind = "pnl"
  BY <1>3 DEF Difference
<1>4. CASE ask.kind = "trial_balance"
  <2>1. parts # NoParts
    <3>1. Len(parts) = 2
      BY <1>4, PartsAre DEF Kinds
    <3> QED
      BY <3>1 DEF NoParts
  <2>2. TrialGap(parts[1])["certain"] = 0
    BY <1>4, <2>1 DEF SeenWhole
  <2> QED
    BY <1>2, <1>4, <2>2 DEF Difference
<1>5. CASE ask.kind = "cash_flow"
  <2>1. Len(parts) = 4
    BY <1>5, PartsAre
  <2>2. parts[1] \in [OfType({"revenue", "expense"}) -> SplitInt]
    <3>1. parts[1] \in Returned("cash_flow", "rows")
      BY <1>1, <1>5, <2>1, PartsAre
    <3> QED
      BY <3>1 DEF Returned, SplitInt
  <2>3. parts[2] \in SplitInt /\ parts[3] \in SplitInt
    <3>1. parts[2] \in Returned("cash_flow", "opening") /\ parts[3] \in Returned("cash_flow", "closing")
      BY <1>1, <1>5, <2>1, PartsAre
    <3> QED
      BY <3>1 DEF Returned, SplitInt
  <2>4. buildIncomeStatement(parts[1]) \in SplitInt
    <3>1. OfType({"revenue", "expense"}) \in SUBSET Codes
      BY DEF OfType
    <3> QED
      BY <2>2, <3>1, IncomeType
  <2>5. Difference = CashGap(parts[2], parts[3], buildIncomeStatement(parts[1]))["certain"]
    BY <1>1, <1>2, <1>5, PartIs DEF Difference
  <2>6. ASSUME NEW o \in SplitInt, NEW c \in SplitInt, NEW n \in SplitInt PROVE CashGap(o, c, n)["certain"] = 0
    <3>1. "certain" \in Split /\ o["certain"] \in Int /\ c["certain"] \in Int /\ n["certain"] \in Int
      BY DEF Split, SplitInt
    <3>2. CashGap(o, c, n)["certain"]
            = (o["certain"] + (n["certain"] + ((c["certain"] - o["certain"]) - n["certain"]))) - c["certain"]
      BY <3>1, SumsOfSplit DEF CashGap, WcDelta
    <3> QED
      BY <3>1, <3>2
  <2> QED
    BY <2>3, <2>4, <2>5, <2>6
<1> QED
  BY <1>1, <1>3, <1>4, <1>5 DEF Kinds

\* Asking, querying, building and booking keep the inductive invariant.
LEMMA Asked == BooksIInv /\ Ask /\ UNCHANGED ledger => BooksIInv'
<1> SUFFICES ASSUME BooksIInv, Ask, UNCHANGED ledger PROVE BooksIInv'
  OBVIOUS
<1>1. PICK kind \in Kinds, p \in Periods : ask' = [kind |-> kind, from |-> p[1], to |-> p[2]]
  BY DEF Ask
<1>2. parts = NoParts /\ parts' = NoParts
  BY DEF BooksIInv, BooksTypeOK, Ask, NoParts
<1>3. ask' \in [kind : Kinds, from : {q[1] : q \in Periods}, to : {q[2] : q \in Periods}]
  BY <1>1
<1>4. BooksTypeOK'
  BY <1>2, <1>3, PartsAre DEF BooksIInv, BooksTypeOK, Ask, NoParts, Kinds
<1> QED
  BY <1>2, <1>4 DEF BooksIInv, SeenWhole, NeverRefused, Ask

LEMMA Queried == BooksIInv /\ RunQuery /\ UNCHANGED ledger => BooksIInv'
<1> SUFFICES ASSUME BooksIInv, RunQuery, UNCHANGED ledger PROVE BooksIInv'
  OBVIOUS
<1> DEFINE n == Len(parts)
           q == Query(Parts(ask.kind)[n + 1])
<1>1. /\ ask.kind \in Kinds /\ n \in 0 .. Len(Parts(ask.kind)) /\ n < Len(Parts(ask.kind))
      /\ parts = [i \in 1 .. n |-> parts[i]]
      /\ \A i \in 1 .. n : parts[i] \in Returned(ask.kind, Parts(ask.kind)[i])
  BY DEF BooksIInv, BooksTypeOK, RunQuery, NoParts, Parts, Kinds
<1>2. n + 1 \in 1 .. Len(Parts(ask.kind)) /\ Len(Parts(ask.kind)) \in Nat
  BY <1>1, PartsAre DEF Kinds
<1>3. q \in Returned(ask.kind, Parts(ask.kind)[n + 1])
  BY <1>1, <1>2, QueryType
<1>4. parts' = Append(parts, q) /\ parts \in Seq({parts[i] : i \in 1 .. n})
  BY <1>1 DEF RunQuery
<1> HIDE DEF q
<1>5. /\ Len(parts') = n + 1 /\ DOMAIN parts' = 1 .. n + 1 /\ parts'[n + 1] = q
      /\ \A i \in 1 .. n : parts'[i] = parts[i]
  BY <1>4
<1>6. ask' = ask /\ told' = told /\ ask # Nothing /\ ledger' = ledger
  BY DEF RunQuery
<1> HIDE DEF n
<1>7. ASSUME NEW i \in 1 .. n + 1 PROVE parts'[i] \in Returned(ask.kind, Parts(ask.kind)[i])
  <2>1. CASE i = n + 1
    BY <1>3, <1>5, <2>1
  <2>2. CASE i # n + 1
    <3>1. i \in 1 .. n
      BY <1>1, <1>7, <2>2
    <3> QED
      BY <1>1, <1>5, <3>1
  <2> QED
    BY <2>1, <2>2
<1>8. parts' = [i \in 1 .. n + 1 |-> parts'[i]]
  <2> DEFINE S == {parts[i] : i \in 1 .. Len(parts)} \cup {q}
  <2>1. parts' \in Seq(S)
    <3>1. parts \in Seq(S) /\ q \in S
      <4>1. parts \in Seq({parts[i] : i \in 1 .. Len(parts)})
        BY <1>4 DEF n
      <4> QED
        BY <4>1
    <3> HIDE DEF S
    <3> QED
      BY <1>4, <3>1, AppendProperties
  <2> HIDE DEF S
  <2>2. parts' \in [1 .. Len(parts') -> S]
    BY <2>1, LenProperties
  <2> QED
    BY <1>5, <2>2
<1>9. Len(parts') \in 0 .. Len(Parts(ask.kind))
  BY <1>2, <1>5
<1>10. BooksTypeOK'
  <2>1. ledger \in [Bookings -> Status]
    BY DEF BooksIInv, BooksTypeOK
  <2>2. ask \in [kind : Kinds, from : {p[1] : p \in Periods}, to : {p[2] : p \in Periods}]
    BY <1>6 DEF BooksIInv, BooksTypeOK
  <2>3. told = Nothing \/ told \in [kind : Kinds, refused : BOOLEAN, confirmed : BOOLEAN]
    BY DEF BooksIInv, BooksTypeOK
  <2>4. \A i \in 1 .. Len(parts') : parts'[i] \in Returned(ask.kind, Parts(ask.kind)[i])
    BY <1>5, <1>7
  <2>5. parts' = [i \in 1 .. Len(parts') |-> parts'[i]]
    BY <1>5, <1>8
  <2> QED
    BY <1>6, <1>9, <2>1, <2>2, <2>3, <2>4, <2>5 DEF BooksTypeOK
<1>11. SeenWhole'
  <2> SUFFICES ASSUME ask.kind = "trial_balance" PROVE TrialGap(parts'[1])["certain"] = 0
    BY <1>6 DEF SeenWhole
  <2>1. CASE n = 0
    <3>1. parts'[1] = TrialBalanceAggregates(ask.to)
      BY <1>1, <1>5, <2>1, PartsAre DEF q, Query, n
    <3> QED
      BY <3>1, TrialIsWhole
  <2>2. CASE n # 0
    <3>1. 1 \in 1 .. n /\ parts # NoParts
      BY <1>1, <2>2 DEF NoParts, n
    <3> QED
      BY <1>5, <1>6, <3>1 DEF SeenWhole, BooksIInv
  <2> QED
    BY <2>1, <2>2
<1> QED
  BY <1>6, <1>10, <1>11 DEF BooksIInv, NeverRefused

LEMMA Built == BooksIInv /\ Build /\ UNCHANGED ledger => BooksIInv'
<1> SUFFICES ASSUME BooksIInv, Build, UNCHANGED ledger PROVE BooksIInv'
  OBVIOUS
<1>1. /\ ask # Nothing /\ Len(parts) = Len(Parts(ask.kind)) /\ ask' = Nothing /\ parts' = NoParts
      /\ told' = [kind |-> ask.kind, refused |-> Off(Difference), confirmed |-> Part("count") = 0]
  BY DEF Build
<1>2. ask.kind \in Kinds
  BY <1>1 DEF BooksIInv, BooksTypeOK
<1>3. told' \in [kind : Kinds, refused : BOOLEAN, confirmed : BOOLEAN]
  <2>1. Off(Difference) \in BOOLEAN /\ (Part("count") = 0) \in BOOLEAN
    BY Zenon DEF Off
  <2> QED
    BY <1>1, <1>2, <2>1
<1>4. BooksTypeOK'
  BY <1>1, <1>3 DEF BooksIInv, BooksTypeOK
<1>5. told'.refused => told'.kind = "balance_sheet"
  <2> SUFFICES ASSUME ask.kind # "balance_sheet" PROVE ~Off(Difference)
    BY <1>1
  <2>1. Difference = 0
    BY <1>1, NothingOff DEF BooksIInv
  <2> QED
    BY <2>1 DEF Off, EPSILON
<1> QED
  BY <1>1, <1>4, <1>5 DEF BooksIInv, SeenWhole, NeverRefused

LEMMA Kept ==
  ASSUME BooksIInv, ledger' \in [Bookings -> Status], UNCHANGED <<ask, parts, told>>
  PROVE  BooksIInv'
<1>1. BooksTypeOK'
  BY DEF BooksIInv, BooksTypeOK, Returned
<1>2. SeenWhole'
  BY DEF BooksIInv, SeenWhole, TrialGap
<1>3. NeverRefused'
  BY DEF BooksIInv, NeverRefused
<1> QED
  BY <1>1, <1>2, <1>3 DEF BooksIInv

LEMMA Booked == BooksIInv /\ Journal => BooksIInv'
<1> SUFFICES ASSUME BooksIInv, Journal PROVE BooksIInv'
  OBVIOUS
<1>1. ledger' \in [Bookings -> Status]
  BY DEF BooksIInv, BooksTypeOK, Journal, Save, Review, Status
<1>2. UNCHANGED <<ask, parts, told>>
  BY DEF Journal
<1> QED
  BY <1>1, <1>2, Kept

\* The inductive invariant holds in every behaviour.
LEMMA BooksInductive == BooksSpec => []BooksIInv
<1>1. BooksInit => BooksIInv
  <2>1. ASSUME BooksInit PROVE BooksTypeOK
    BY <2>1 DEF BooksInit, InitLedger, InitStatements, BooksTypeOK, Status, NoParts
  <2>2. ASSUME BooksInit PROVE SeenWhole /\ NeverRefused
    BY <2>2 DEF BooksInit, InitStatements, SeenWhole, NeverRefused
  <2> QED
    BY <2>1, <2>2 DEF BooksIInv
<1>2. BooksIInv /\ [BooksNext]_booksVars => BooksIInv'
  <2>1. BooksIInv /\ UNCHANGED booksVars => BooksIInv'
    <3> SUFFICES ASSUME BooksIInv, UNCHANGED booksVars PROVE BooksIInv'
      OBVIOUS
    <3>1. ledger' \in [Bookings -> Status]
      BY DEF BooksIInv, BooksTypeOK, booksVars
    <3> QED
      BY <3>1, Kept DEF booksVars
  <2> QED
    BY <2>1, Asked, Queried, Built, Booked DEF BooksNext, Statement
<1> QED
  BY <1>1, <1>2, PTL DEF BooksSpec

\* Every statement is built of answers of the types its builder expects.
THEOREM BooksTypeCorrect == BooksSpec => []BooksTypeOK
BY BooksInductive, PTL DEF BooksIInv

\* Only a balance sheet is refused: no trial balance or cash flow throws, however entries are
\* saved and reviewed between the queries it is built of.
THEOREM BuildersGoOn == BooksSpec => []NeverRefused
BY BooksInductive, PTL DEF BooksIInv

---------------------------------------------------------------------------
(* Penalties.                                                              *)

\* A set of natural numbers has a least one.
LEMMA Least ==
  ASSUME NEW W \in SUBSET Nat, W # {}
  PROVE  \E n \in W : \A m \in W : n <= m
<1> DEFINE Less == OpToRel(<, Nat)
<1>1. Less = {ss \in Nat \X Nat : ss[1] < ss[2]}
  BY Zenon DEF OpToRel
<1>2. IsWellFoundedOn(Less, Nat)
  BY NatLessThanWellFounded, Zenon
<1> HIDE DEF Less
<1>3. PICK n \in W : \A m \in W : <<m, n>> \notin Less
  BY <1>2, WFMin
<1>4. ASSUME NEW m \in W PROVE n <= m
  <2>1. <<m, n>> \notin Less /\ m \in Nat /\ n \in Nat
    BY <1>3
  <2>2. ~(m < n)
    BY <1>1, <2>1
  <2> QED
    BY <2>1, <2>2
<1> QED
  BY <1>4

\* A later limit has a smaller rate: to exceed it takes nothing but rates away.
Falling(T) ==
  /\ \A s \in T : s.within \in Nat /\ s.rate \in 0 .. 100
  /\ \A s, t \in T : s.within <= t.within => t.rate <= s.rate

\* The discount of a late filing is that of the step that ends next, where one is left.
LEMMA FirstStepIs ==
  ASSUME NEW T, Falling(T), NEW n \in Nat
  PROVE  LET open == {s \in T : n <= s.within} IN
         \/ open = {} /\ FirstStep(T, n) = 0
         \/ \E s \in open : FirstStep(T, n) = s.rate /\ \A t \in open : s.within <= t.within
<1> DEFINE open == {s \in T : n <= s.within}
<1>1. CASE open = {}
  BY <1>1 DEF FirstStep
<1>2. CASE open # {}
  <2>1. PICK w \in {s.within : s \in open} : \A v \in {s.within : s \in open} : w <= v
    <3>1. {s.within : s \in open} \in SUBSET Nat /\ {s.within : s \in open} # {}
      BY <1>2 DEF Falling
    <3> QED
      BY <3>1, Least
  <2>2. \E s \in open : \A t \in open : s.within <= t.within
    BY <2>1
  <2> DEFINE first == CHOOSE s \in open : \A t \in open : s.within <= t.within
  <2>3. first \in open /\ \A t \in open : first.within <= t.within
    BY <2>2
  <2>4. FirstStep(T, n) = first.rate
    BY <1>2 DEF FirstStep
  <2> HIDE DEF first
  <2> QED
    BY <2>3, <2>4
<1> QED
  BY <1>1, <1>2

\* Later is never discounted more.
LEMMA FirstStepFalls ==
  ASSUME NEW T, Falling(T), NEW d \in Nat, NEW e \in Nat, d <= e
  PROVE  /\ FirstStep(T, d) \in 0 .. 100 /\ FirstStep(T, e) \in 0 .. 100
         /\ FirstStep(T, e) <= FirstStep(T, d)
<1> DEFINE open(n) == {s \in T : n <= s.within}
<1>1. ASSUME NEW n \in Nat PROVE FirstStep(T, n) \in 0 .. 100
  BY FirstStepIs DEF Falling
<1>2. open(e) \subseteq open(d)
  BY DEF Falling
<1>3. CASE open(e) = {}
  <2>1. FirstStep(T, e) = 0
    BY <1>3 DEF FirstStep
  <2> QED
    BY <1>1, <2>1
<1>4. CASE open(e) # {}
  <2>1. PICK s \in open(e) : FirstStep(T, e) = s.rate
    BY <1>4, FirstStepIs
  <2>2. open(d) # {}
    BY <1>2, <1>4
  <2>3. PICK t \in open(d) : FirstStep(T, d) = t.rate /\ \A u \in open(d) : t.within <= u.within
    BY <2>2, FirstStepIs
  <2>4. t.within <= s.within /\ s \in T /\ t \in T
    BY <1>2, <2>1, <2>3
  <2>5. s.rate <= t.rate
    BY <2>4 DEF Falling
  <2> QED
    BY <1>1, <2>1, <2>3, <2>5
<1> QED
  BY <1>3, <1>4

\* Rounding and multiplying keep the order.
LEMMA RoundGrows ==
  ASSUME NEW m \in Nat, NEW n \in Nat, m <= n
  PROVE  /\ Round(m, 10000) <= Round(n, 10000) /\ Round(m, 100000) <= Round(n, 100000)
         /\ Round(m, 10000000) <= Round(n, 10000000)
         /\ Round(m, 10000) \in Nat /\ Round(m, 100000) \in Nat /\ Round(m, 10000000) \in Nat
         /\ Round(n, 10000) \in Nat /\ Round(n, 100000) \in Nat /\ Round(n, 10000000) \in Nat
BY DEF Round

LEMMA ProductGrows ==
  ASSUME NEW a \in Nat, NEW b \in Nat, NEW c \in Nat, b <= c
  PROVE  a * b <= a * c /\ a * b \in Nat /\ a * c \in Nat
<1>1. PICK d \in Nat : c = b + d
  <2>1. c - b \in Nat /\ c = b + (c - b)
    OBVIOUS
  <2> QED
    BY <2>1
<1>2. a * (b + d) = a * b + a * d /\ a * b \in Nat /\ a * d \in Nat
  OBVIOUS
<1> QED
  BY <1>1, <1>2

\* Filing later costs no less, by the simulation and, but for a start without delay, by the
\* agent's tool.
LEMMA PenaltyGrows ==
  ASSUME NEW base \in Nat, NEW d \in Nat, NEW e \in Nat, d <= e
  PROVE  PenaltySimulation(base, d) <= PenaltySimulation(base, e)
<1> DEFINE T == {Step(30, 50), Step(90, 30), Step(180, 20)}
           r(n) == FirstStep(T, n)
           late(n) == Round(base * 22 * n * (100 - 0), 10000000)
           un(n) == Round(base * 20000 * (100 - r(n)), 10000000)
<1>1. Falling(T)
  BY DEF Falling, Step
<1> HIDE DEF T
<1>2. r(d) \in 0 .. 100 /\ r(e) \in 0 .. 100 /\ r(e) <= r(d)
  BY <1>1, FirstStepFalls
<1>3. ASSUME NEW n \in Nat
      PROVE  PenaltySimulation(base, n) = IF n = 0 \/ base <= 0 THEN 0 ELSE late(n) + un(n)
  BY DEF PenaltySimulation, computePenalty, resolveReduction, T
<1> HIDE DEF r
<1>4. late(d) <= late(e) /\ late(d) \in Nat /\ late(e) \in Nat
  <2> DEFINE x == base * 22 * d * (100 - 0)
             y == base * 22 * e * (100 - 0)
  <2>1. base * d <= base * e /\ base * d \in Nat /\ base * e \in Nat
    BY ProductGrows
  <2>2. x = 2200 * (base * d) /\ y = 2200 * (base * e)
    <3>1. \A n \in Nat : base * 22 * n * (100 - 0) = 2200 * (base * n)
      OBVIOUS
    <3> QED
      BY <3>1
  <2>3. x \in Nat /\ y \in Nat /\ x <= y
    BY <2>1, <2>2
  <2> HIDE DEF x, y
  <2>4. Round(x, 10000000) <= Round(y, 10000000) /\ Round(x, 10000000) \in Nat /\ Round(y, 10000000) \in Nat
    BY <2>3, RoundGrows
  <2> QED
    BY <2>4 DEF x, y
<1>5. un(d) <= un(e) /\ un(d) \in Nat /\ un(e) \in Nat
  <2> DEFINE x == base * 20000 * (100 - r(d))
             y == base * 20000 * (100 - r(e))
  <2>1. base * (100 - r(d)) <= base * (100 - r(e)) /\ base * (100 - r(d)) \in Nat /\ base * (100 - r(e)) \in Nat
    <3>1. 100 - r(d) \in Nat /\ 100 - r(e) \in Nat /\ 100 - r(d) <= 100 - r(e)
      BY <1>2
    <3> QED
      BY <3>1, ProductGrows
  <2>2. x = 20000 * (base * (100 - r(d))) /\ y = 20000 * (base * (100 - r(e)))
    BY <1>2
  <2>3. x \in Nat /\ y \in Nat /\ x <= y
    BY <2>1, <2>2
  <2> HIDE DEF x, y
  <2>4. Round(x, 10000000) <= Round(y, 10000000) /\ Round(x, 10000000) \in Nat /\ Round(y, 10000000) \in Nat
    BY <2>3, RoundGrows
  <2> QED
    BY <2>4 DEF x, y
<1> HIDE DEF late, un
<1> QED
  BY <1>3, <1>4, <1>5

LEMMA ScenarioGrows ==
  ASSUME NEW base \in Nat, NEW d \in Nat, NEW e \in Nat, d <= e, d > 0 \/ e > 24, NEW type
  PROVE  ScenarioAfter(d, type, base) <= ScenarioAfter(e, type, base)
<1> DEFINE T == VOLUNTARY_AMENDMENT_DISCOUNT
           r(n) == IF n <= 0 THEN 0 ELSE FirstStep(T, n)
           f == baseFilingRate(type)
           late(n) == Round(base * 22 * (30 * n), 100000)
           un(n) == Round(base * f * (100 - r(n)), 10000)
<1>1. Falling(T)
  BY DEF Falling, Step, VOLUNTARY_AMENDMENT_DISCOUNT
<1>2. f \in Nat
  BY DEF baseFilingRate
<1>3. ASSUME NEW n \in Nat PROVE ScenarioAfter(n, type, base) = un(n) + late(n)
  BY DEF ScenarioAfter, ComputePenaltyScenario, lookupVoluntaryDiscount
<1>4. r(d) \in 0 .. 100 /\ r(e) \in 0 .. 100 /\ r(e) <= r(d)
  <2>1. /\ FirstStep(T, d) \in 0 .. 100 /\ FirstStep(T, e) \in 0 .. 100
        /\ FirstStep(T, e) <= FirstStep(T, d)
    <3> HIDE DEF T
    <3> QED
      BY <1>1, FirstStepFalls
  <2>2. e > 24 => FirstStep(T, e) = 0
    BY DEF FirstStep, VOLUNTARY_AMENDMENT_DISCOUNT, Step
  <2> HIDE DEF T
  <2>3. CASE d > 0
    BY <2>1, <2>3
  <2>4. CASE d = 0 /\ e > 24
    BY <2>2, <2>4
  <2> QED
    BY <2>3, <2>4
<1> HIDE DEF T, f
<1> HIDE DEF r
<1>5. late(d) <= late(e) /\ late(d) \in Nat /\ late(e) \in Nat
  <2> DEFINE x == base * 22 * (30 * d)
             y == base * 22 * (30 * e)
  <2>1. base * d <= base * e /\ base * d \in Nat /\ base * e \in Nat
    BY ProductGrows
  <2>2. x = 660 * (base * d) /\ y = 660 * (base * e)
    OBVIOUS
  <2>3. x \in Nat /\ y \in Nat /\ x <= y
    BY <2>1, <2>2
  <2> HIDE DEF x, y
  <2>4. Round(x, 100000) <= Round(y, 100000) /\ Round(x, 100000) \in Nat /\ Round(y, 100000) \in Nat
    BY <2>3, RoundGrows
  <2> QED
    BY <2>4 DEF x, y
<1>6. un(d) <= un(e) /\ un(d) \in Nat /\ un(e) \in Nat
  <2> DEFINE x == base * f * (100 - r(d))
             y == base * f * (100 - r(e))
  <2>1. base * f \in Nat
    BY <1>2
  <2>2. 100 - r(d) \in Nat /\ 100 - r(e) \in Nat /\ 100 - r(d) <= 100 - r(e)
    BY <1>4
  <2>3. x \in Nat /\ y \in Nat /\ x <= y
    BY <2>1, <2>2, ProductGrows
  <2> HIDE DEF x, y
  <2>4. Round(x, 10000) <= Round(y, 10000) /\ Round(x, 10000) \in Nat /\ Round(y, 10000) \in Nat
    BY <2>3, RoundGrows
  <2> QED
    BY <2>4 DEF x, y
<1> HIDE DEF late, un
<1> QED
  BY <1>3, <1>5, <1>6

\* The larger of nothing and an amount.
LEMMA MaxIs ==
  ASSUME NEW n \in Int
  PROVE  Max({0, n}) = IF n > 0 THEN n ELSE 0
<1>1. CASE n > 0
  <2>1. \A x \in {0, n} : (\A y \in {0, n} : x >= y) <=> x = n
    BY <1>1
  <2> QED
    BY <1>1, <2>1 DEF Max
<1>2. CASE ~(n > 0)
  <2>1. \A x \in {0, n} : (\A y \in {0, n} : x >= y) <=> x = 0
    BY <1>2
  <2> QED
    BY <1>2, <2>1 DEF Max
<1> QED
  BY <1>1, <1>2

\* For every amount and all delays, over all steps of both tables: what the simulation tells
\* never falls as the delay grows, and what the agent's tool tells falls at most from no delay
\* to one of up to 24 months.
THEOREM WaitingCostsMore == BooksSpec => []LaterCostsMore
<1>1. Boxes.taxable \in Nat /\ Boxes.vatPayable \in Nat
  <2> DEFINE B == Between(FilingPeriod[1], FilingPeriod[2])
  <2>1. B \in SUBSET Bookings
    BY DEF Between, Saved
  <2>2. \A C : Yield(B, C) \in Int
    BY <2>1, SidesAre DEF Yield
  <2>3. Boxes.taxable = buildCorpFinalBoxes(B) /\ Boxes.vatPayable = buildVatBoxes(B)
    BY DEF Boxes
  <2> HIDE DEF B
  <2>4. buildCorpFinalBoxes(B) \in Nat
    <3> DEFINE n == Yield(B, ByPrefix(40 .. 49)) + Yield(B, ByPrefix(50 .. 59))
    <3>1. n \in Int /\ buildCorpFinalBoxes(B) = Max({0, n})
      BY <2>2 DEF buildCorpFinalBoxes
    <3> HIDE DEF n
    <3> QED
      BY <3>1, MaxIs
  <2>5. buildVatBoxes(B) \in Nat
    <3>1. \A n \in Int : Max({0, n}) \in Nat /\ Round(Max({0, n}), 10) \in Int
      BY MaxIs DEF Round
    <3> DEFINE x == Round(Max({0, Yield(B, ByPrefix({41, 42}))}), 10)
               y == Round(Max({0, -Yield(B, ByPrefix(51 .. 56))}), 10)
    <3>2. x \in Int /\ y \in Int
      BY <2>2, <3>1
    <3>3. buildVatBoxes(B) = Max({0, x - y})
      BY DEF buildVatBoxes
    <3> HIDE DEF x, y
    <3> QED
      BY <3>1, <3>2, <3>3
  <2> QED
    BY <2>3, <2>4, <2>5
<1>2. LateDays \subseteq Nat
  BY BooksAssumption
<1>3. LaterCostsMore
  BY <1>1, <1>2, PenaltyGrows, ScenarioGrows DEF LaterCostsMore
<1> QED
  BY <1>3, PTL

\* The revenue in the agent's context is a number.
LEMMA RevenueReadIs == RevenueRead \in Int
<1> DEFINE ytd == loadFinancialStatement(Today).ytd
           D == DOMAIN ytd \cap OfType({"revenue"})
<1>1. PICK first : ytd = loadIncomeStatement(first, Today)
  BY DEF loadFinancialStatement
<1> DEFINE C == {c \in OfType({"revenue", "expense"}) : Debit(Saved, {c}) + Credit(Saved, {c}) > 0}
<1>2. ytd = [c \in C |-> Natural(Saved, c)]
  BY <1>1 DEF loadIncomeStatement, StatementRow
<1>3. C \subseteq Codes
  BY DEF OfType
<1> HIDE DEF ytd, C
<1>4. \A c \in C : ytd[c] \in Int
  BY <1>2, <1>3, NaturalIs DEF Saved
<1>5. D \subseteq C
  BY <1>2
<1>6. IsFiniteSet(D)
  BY <1>3, <1>5, CodesFinite, FS_Subset
<1>7. \A c \in D : ytd[c] \in Int
  BY <1>4, <1>5
<1>8. RevenueRead = Sum(ytd, D)
  BY DEF RevenueRead, Sum, ytd
<1> HIDE DEF D
<1>9. PICK f : f = ytd
  OBVIOUS
<1>10. Sum(f, D) \in Int
  BY <1>6, <1>7, <1>9, SumInt
<1> QED
  BY <1>8, <1>9, <1>10

\* The verdicts of the tool and of the rules, condition by condition.
LEMMA ToolSays ==
  ASSUME NEW ctx
  PROVE  /\ CheckBenefit("youth_founder_5y", ctx).eligible <=> ctx.youth /\ ~WindowOver(ctx.years)
         /\ CheckBenefit("sme_special_reduction", ctx).eligible <=> ctx.revenue <= SME_REVENUE_CAP
         /\ CheckBenefit("rnd_credit", ctx).eligible <=> ctx.rnd > 0
<1>1. CheckBenefit("youth_founder_5y", ctx) = checkYouthFounder(ctx)
  BY SMT DEF CheckBenefit
<1>2. CheckBenefit("sme_special_reduction", ctx) = Ruled(ctx.revenue <= SME_REVENUE_CAP, 0)
  BY SMT DEF CheckBenefit
<1>3. PICK n : CheckBenefit("rnd_credit", ctx) = Ruled(ctx.rnd > 0, n)
  BY SMT DEF CheckBenefit
<1>4. \A r : r = checkYouthFounder(ctx) => (r.eligible <=> ctx.youth /\ ~WindowOver(ctx.years))
  <2>1. checkYouthFounder(ctx).eligible <=> ctx.youth /\ ~WindowOver(ctx.years)
    BY Zenon DEF checkYouthFounder, Ruled
  <2> QED
    BY <2>1, Zenon
<1>5. \A r : r = Ruled(ctx.revenue <= SME_REVENUE_CAP, 0) => (r.eligible <=> ctx.revenue <= SME_REVENUE_CAP)
  <2>1. Ruled(ctx.revenue <= SME_REVENUE_CAP, 0).eligible <=> ctx.revenue <= SME_REVENUE_CAP
    BY Zenon DEF Ruled
  <2> QED
    BY <2>1, Zenon
<1>6. \A r : r = Ruled(ctx.rnd > 0, n) => (r.eligible <=> ctx.rnd > 0)
  <2>1. Ruled(ctx.rnd > 0, n).eligible <=> ctx.rnd > 0
    BY Zenon DEF Ruled
  <2> QED
    BY <2>1, Zenon
<1>7. CheckBenefit("youth_founder_5y", ctx).eligible <=> ctx.youth /\ ~WindowOver(ctx.years)
  BY <1>1, <1>4, Zenon
<1>8. CheckBenefit("sme_special_reduction", ctx).eligible <=> ctx.revenue <= SME_REVENUE_CAP
  BY <1>2, <1>5, Zenon
<1>9. CheckBenefit("rnd_credit", ctx).eligible <=> ctx.rnd > 0
  BY <1>3, <1>6, Zenon
<1> QED
  BY <1>7, <1>8, <1>9, Zenon

LEMMA RulesSay ==
  ASSUME NEW p
  PROVE  /\ evaluateYouthFounderBenefit(p).eligible
              <=> p.years <= 5 /\ p.youth /\ p.region \in NonMetro /\ p.industry \in Technology
         /\ evaluateSmeSpecialDeduction(p).eligible <=> Small(p) /\ p.industry \in Trades
         /\ evaluateRndTaxCredit(p).eligible <=> Small(p) /\ p.industry \in Technology \cup {21}
<1>1. evaluateYouthFounderBenefit(p).eligible
        <=> p.years <= 5 /\ p.youth /\ p.region \in NonMetro /\ p.industry \in Technology
  BY Zenon DEF evaluateYouthFounderBenefit, Candidate
<1>2. evaluateSmeSpecialDeduction(p).eligible <=> Small(p) /\ p.industry \in Trades
  BY Zenon DEF evaluateSmeSpecialDeduction, Candidate
<1>3. evaluateRndTaxCredit(p).eligible <=> Small(p) /\ p.industry \in Technology \cup {21}
  BY Zenon DEF evaluateRndTaxCredit, Candidate
<1> QED
  BY <1>1, <1>2, <1>3

\* For every company and any books: the agent's tool and the rule engine differ on the youth
\* founder, SME and R&D benefits for the named reasons only.
THEOREM VerdictsAreExplained == BooksSpec => []VerdictsDifferForCause
<1>1. VerdictsDifferForCause
  <2> SUFFICES ASSUME NEW p \in Profiles
               PROVE  LET ctx == AsTold(p)
                          Tool(code) == CheckBenefit(code, ctx).eligible
                          youth == evaluateYouthFounderBenefit(p).eligible
                          sme   == evaluateSmeSpecialDeduction(p).eligible
                          rnd   == evaluateRndTaxCredit(p).eligible
                      IN /\ youth => Tool("youth_founder_5y")
                         /\ Tool("youth_founder_5y") /\ ~youth
                              => p.region \notin NonMetro \/ p.industry \notin Technology
                         /\ sme /\ ~Tool("sme_special_reduction") => ctx.revenue > SME_REVENUE_CAP
                         /\ Tool("sme_special_reduction") /\ ~sme => ~Small(p) \/ p.industry \notin Trades
                         /\ rnd /\ ~Tool("rnd_credit") => p.rnd = 0
                         /\ Tool("rnd_credit") /\ ~rnd => ~Small(p) \/ p.industry \notin Technology \cup {21}
    BY Zenon DEF VerdictsDifferForCause
  <2> DEFINE ctx == AsTold(p)
  <2>1. p.years \in Nat /\ p.rnd \in Nat
    BY BooksAssumption
  <2>2. ctx.youth = p.youth /\ ctx.years = p.years /\ ctx.rnd = p.rnd /\ ctx.revenue \in Int
    BY RevenueReadIs DEF AsTold
  <2>3. WindowOver(p.years) <=> ~(p.years <= 5)
    BY <2>1 DEF WindowOver
  <2>4. ctx.revenue <= SME_REVENUE_CAP \/ ctx.revenue > SME_REVENUE_CAP
    BY <2>2 DEF SME_REVENUE_CAP
  <2>5. p.rnd > 0 \/ p.rnd = 0
    BY <2>1
  <2> HIDE DEF ctx
  <2>6. /\ CheckBenefit("youth_founder_5y", ctx).eligible <=> p.youth /\ p.years <= 5
        /\ CheckBenefit("sme_special_reduction", ctx).eligible <=> ctx.revenue <= SME_REVENUE_CAP
        /\ CheckBenefit("rnd_credit", ctx).eligible <=> p.rnd > 0
    BY <2>2, <2>3, ToolSays, Zenon
  <2>7. /\ evaluateYouthFounderBenefit(p).eligible
             <=> p.years <= 5 /\ p.youth /\ p.region \in NonMetro /\ p.industry \in Technology
        /\ evaluateSmeSpecialDeduction(p).eligible <=> Small(p) /\ p.industry \in Trades
        /\ evaluateRndTaxCredit(p).eligible <=> Small(p) /\ p.industry \in Technology \cup {21}
    BY RulesSay, Zenon
  <2> QED
    BY <2>4, <2>5, <2>6, <2>7, Zenon DEF ctx
<1> QED
  BY <1>1, PTL

---------------------------------------------------------------------------
(* Months.                                                                 *)

\* Months follow each other without overlap.
LEMMA MonthsGrow ==
  ASSUME NEW i \in Int, NEW j \in Int, i < j
  PROVE  LastOf(i) < FirstOf(j) /\ FirstOf(i) \in Int /\ LastOf(i) \in Int /\ FirstOf(j) \in Int
<1>1. DaysPerMonth \in Nat \ {0}
  BY BookingsAssumption
<1>2. PICK q \in Nat \ {0} : q = DaysPerMonth
  BY <1>1
<1>3. j - (i + 1) \in Nat /\ j = (i + 1) + (j - (i + 1))
  OBVIOUS
<1>4. PICK n \in Nat : j = (i + 1) + n
  BY <1>3
<1>5. ((i + 1) + n) * q = (i + 1) * q + n * q /\ n * q \in Nat /\ (i + 1) * q \in Int /\ i * q \in Int
  OBVIOUS
<1>6. j * q >= (i + 1) * q
  BY <1>4, <1>5
<1> QED
  BY <1>2, <1>5, <1>6 DEF LastOf, FirstOf

\* A month starts no later than it ends.
LEMMA MonthIs ==
  ASSUME NEW i \in Int
  PROVE  FirstOf(i) \in Int /\ LastOf(i) \in Int /\ FirstOf(i) <= LastOf(i)
<1>1. PICK q \in Nat \ {0} : q = DaysPerMonth
  BY BookingsAssumption
<1>2. (i + 1) * q = i * q + q /\ i * q \in Int
  OBVIOUS
<1> QED
  BY <1>1, <1>2 DEF FirstOf, LastOf

\* A day is in its month.
LEMMA InMonth ==
  ASSUME NEW d \in Nat
  PROVE  Month(d) \in Int /\ FirstOf(Month(d)) <= d /\ d <= LastOf(Month(d))
<1>1. PICK q \in Nat \ {0} : q = DaysPerMonth
  BY BookingsAssumption
<1>2. PICK k \in Int : k = d \div q
  OBVIOUS
<1>3. k * q <= d /\ d < k * q + q
  BY <1>2
<1>4. (k + 1) * q = k * q + q /\ k * q \in Int
  OBVIOUS
<1> QED
  BY <1>1, <1>2, <1>3, <1>4 DEF Month, FirstOf, LastOf

\* Days of consecutive months.
LEMMA DaysOfMonths ==
  ASSUME NEW d \in Nat, NEW i \in Int, NEW j \in Int
  PROVE  d \in FirstOf(i) .. LastOf(j) <=> Month(d) \in i .. j
<1>1. Month(d) \in Int /\ FirstOf(Month(d)) <= d /\ d <= LastOf(Month(d))
  BY InMonth
<1>2. PICK m \in Int : m = Month(d)
  BY <1>1
<1>3. FirstOf(i) \in Int /\ LastOf(j) \in Int /\ FirstOf(m) \in Int /\ LastOf(m) \in Int
  BY MonthIs
<1>4. i <= m => FirstOf(i) <= d
  <2>1. CASE i = m
    BY <1>1, <1>2, <2>1
  <2>2. CASE i < m
    <3>1. LastOf(i) < FirstOf(m) /\ LastOf(i) \in Int /\ FirstOf(i) <= LastOf(i)
      BY <2>2, MonthsGrow, MonthIs
    <3> QED
      BY <1>1, <1>2, <1>3, <3>1
  <2> QED
    BY <2>1, <2>2
<1>5. m < i => d < FirstOf(i)
  <2>1. m < i => LastOf(m) < FirstOf(i)
    BY MonthsGrow
  <2> QED
    BY <1>1, <1>2, <1>3, <2>1
<1>6. m <= j => d <= LastOf(j)
  <2>1. CASE m = j
    BY <1>1, <1>2, <2>1
  <2>2. CASE m < j
    <3>1. LastOf(m) < FirstOf(j) /\ FirstOf(j) \in Int /\ FirstOf(j) <= LastOf(j)
      BY <2>2, MonthsGrow, MonthIs
    <3> QED
      BY <1>1, <1>2, <1>3, <3>1
  <2> QED
    BY <2>1, <2>2
<1>7. j < m => LastOf(j) < d
  <2>1. j < m => LastOf(j) < FirstOf(m)
    BY MonthsGrow
  <2> QED
    BY <1>1, <1>2, <1>3, <2>1
<1> QED
  BY <1>2, <1>3, <1>4, <1>5, <1>6, <1>7

(* Profits.                                                                *)

Rev == OfType({"revenue"})
Exp == OfType({"expense"})

\* The accounts of a profit, by types, ranges and prefixes.
LEMMA ProfitAccounts ==
  /\ InRange(4000, 4999) = Rev /\ CostsOfSales \cup InRange(5100, 5999) = Exp
  /\ CostsOfSales \cap InRange(5100, 5999) = {} /\ Rev \cap Exp = {}
  /\ ByPrefix(40 .. 49) = Rev /\ ByPrefix(50 .. 59) = Exp
<1>1. Rev = {4001, 4101, 4301} /\ Exp = {5001, 5101, 5601, 5701}
  BY ChartIs DEF Rev, Exp
<1>2. InRange(4000, 4999) = {4001, 4101, 4301} /\ CostsOfSales = {5001} /\ InRange(5100, 5999) = {5101, 5601, 5701}
  BY DEF InRange, CostsOfSales, Codes
<1>3. ByPrefix(40 .. 49) = {4001, 4101, 4301} /\ ByPrefix(50 .. 59) = {5001, 5101, 5601, 5701}
  BY DEF ByPrefix, Codes
<1> QED
  BY <1>1, <1>2, <1>3

Certain == {b \in Saved : ledger[b] = "certain"}
CertainIn(M) == {b \in Certain : Month(b.day) \in M}

\* The posted entries of a month are the certain ones of its days.
LEMMA PostedIs ==
  ASSUME NEW m \in Int
  PROVE  Posted(FirstOf(m), LastOf(m)) = CertainIn({m})
<1>1. \A b \in Bookings : b.day \in Nat
  BY BookingsAssumption, Zenon
<1>2. \A b \in Bookings : b.day \in FirstOf(m) .. LastOf(m) <=> Month(b.day) = m
  <2> SUFFICES ASSUME NEW b \in Bookings PROVE b.day \in FirstOf(m) .. LastOf(m) <=> Month(b.day) = m
    OBVIOUS
  <2>1. b.day \in FirstOf(m) .. LastOf(m) <=> Month(b.day) \in m .. m
    BY <1>1, DaysOfMonths
  <2> QED
    BY <2>1
<1> QED
  BY <1>2 DEF Posted, Held, Between, Saved, CertainIn, Certain

\* A month of the trend is the net of the profit accounts, the other way round.
LEMMA TrendIs ==
  ASSUME NEW m \in Int
  PROVE  TrendRow(m) = -Net(CertainIn({m}), Rev \cup Exp)
<1> DEFINE B == Posted(FirstOf(m), LastOf(m))
<1>1. B \in SUBSET Bookings
  BY DEF Posted, Held, Between, Saved
<1>2. \A C : Net(B, C) \in Int /\ Debit(B, C) \in Int /\ Credit(B, C) \in Int
  BY <1>1, SidesAre, NetInt
<1>3. \A C, D : C \cap D = {} => Net(B, C \cup D) = Net(B, C) + Net(B, D)
  BY <1>1, NetAccounts
<1>4. TrendRow(m) = ((Credit(B, InRange(4000, 4999)) - Debit(B, InRange(4000, 4999)))
                      + (Credit(B, CostsOfSales) - Debit(B, CostsOfSales)))
                      + (Credit(B, InRange(5100, 5999)) - Debit(B, InRange(5100, 5999)))
  BY DEF TrendRow
<1>5. B = CertainIn({m})
  BY PostedIs
<1> HIDE DEF B
<1>6. \A C : Credit(B, C) - Debit(B, C) = -Net(B, C)
  BY <1>2 DEF Net
<1>7. TrendRow(m) = (-Net(B, Rev) + -Net(B, CostsOfSales)) + -Net(B, InRange(5100, 5999))
  BY <1>4, <1>6, ProfitAccounts
<1>8. Net(B, Exp) = Net(B, CostsOfSales) + Net(B, InRange(5100, 5999))
  BY <1>3, ProfitAccounts
<1>9. Net(B, Rev \cup Exp) = Net(B, Rev) + Net(B, Exp)
  BY <1>3, ProfitAccounts
<1> QED
  BY <1>2, <1>5, <1>7, <1>8, <1>9

\* A profit over months.
LEMMA OverIs ==
  ASSUME NEW M, NEW f
  PROVE  M \in SUBSET Int /\ IsFiniteSet(M) /\ (\A m \in M : f[m] = TrendRow(m))
           => Sum(f, M) = -Net(CertainIn(M), Rev \cup Exp)
<1>0. SUFFICES ASSUME M \in SUBSET Int, IsFiniteSet(M), \A m \in M : f[m] = TrendRow(m)
               PROVE  Sum(f, M) = -Net(CertainIn(M), Rev \cup Exp)
  OBVIOUS
<1> DEFINE G(s) == -Net(CertainIn(s), Rev \cup Exp)
           F == [s \in SUBSET M |-> G(s)]
<1>1. \A s : CertainIn(s) \in SUBSET Bookings
  BY DEF CertainIn, Certain, Saved
<1>2. \A s : Net(CertainIn(s), Rev \cup Exp) \in Int
  BY <1>1, NetInt
<1>3. F[{}] = 0
  <2>1. CertainIn({}) = {}
    BY DEF CertainIn
  <2>2. Net({}, Rev \cup Exp) = 0
    BY NetEmpty
  <2> QED
    BY <2>1, <2>2
<1>4. \A m \in M : f[m] = G({m})
  BY <1>0, TrendIs
<1>5. ASSUME NEW s \in SUBSET M, NEW m \in M, m \notin s PROVE G(s \cup {m}) = G(s) + G({m})
  <2>1. CertainIn(s \cup {m}) = CertainIn(s) \cup CertainIn({m}) /\ CertainIn(s) \cap CertainIn({m}) = {}
    BY <1>5 DEF CertainIn
  <2>2. Net(CertainIn(s \cup {m}), Rev \cup Exp)
          = Net(CertainIn(s), Rev \cup Exp) + Net(CertainIn({m}), Rev \cup Exp)
    BY <1>1, <2>1, NetEntries
  <2>3. PICK k \in Int, n \in Int : k = Net(CertainIn(s), Rev \cup Exp) /\ n = Net(CertainIn({m}), Rev \cup Exp)
    BY <1>2
  <2>4. G(s \cup {m}) = -(k + n) /\ G(s) = -k /\ G({m}) = -n
    BY <2>2, <2>3
  <2> HIDE DEF G
  <2> QED
    BY <2>4
<1>6. \A s : G(s) \in Int
  BY <1>2
<1>7. \A s \in SUBSET M : F[s] = G(s)
  OBVIOUS
<1> HIDE DEF F, G
<1>8. \A m \in M : f[m] \in Int
  BY <1>4, <1>6
<1>9. ASSUME NEW s \in SUBSET M, NEW m \in M, m \notin s PROVE F[s \cup {m}] = F[s] + f[m]
  <2>1. s \cup {m} \in SUBSET M
    BY <1>9
  <2> QED
    BY <1>4, <1>5, <1>7, <1>9, <2>1
<1>10. \A s \in SUBSET M, m \in M : m \notin s => F[s \cup {m}] = F[s] + f[m]
  BY <1>9
<1>12. Sum(f, M) = F[M]
  <2>1. PICK H : H = F
    OBVIOUS
  <2>2. H[{}] = 0
    BY <1>3, <2>1
  <2>3. \A s \in SUBSET M, m \in M : m \notin s => H[s \cup {m}] = H[s] + f[m]
    BY <1>10, <2>1
  <2>4. IsFiniteSet(M)
    BY <1>0
  <2>5. Sum(f, M) = H[M]
    BY <1>8, <2>2, <2>3, <2>4, SumIs, Zenon
  <2> QED
    BY <2>1, <2>5
<1>11. F[M] = G(M)
  BY <1>7
<1> QED
  BY <1>11, <1>12 DEF G

\* The trend has finitely many months.
LEMMA TrendMonths ==
  /\ Month(Today) \in Int
  /\ IsFiniteSet(Month(Today) - 11 .. Month(Today)) /\ Month(Today) - 11 .. Month(Today) \in SUBSET Int
<1>1. PICK m \in Int : m = Month(Today)
  BY BooksAssumption, InMonth
<1>2. IsFiniteSet(m - 11 .. m)
  BY FS_Interval
<1> QED
  BY <1>1, <1>2

\* Each month of the trend is that of the dashboard.
LEMMA MonthAgrees ==
  ASSUME NEW m \in Int
  PROVE  TrendRow(m) = MonthlySummary(m).income["certain"] - MonthlySummary(m).expense["certain"]
<1> DEFINE B == CertainIn({m})
<1>1. B \in SUBSET Bookings
  BY DEF CertainIn, Certain, Saved
<1>2. Held("certain", FirstOf(m), LastOf(m)) = B
  BY PostedIs DEF Posted
<1>3. /\ MonthlySummary(m).income["certain"] = Credit(B, Rev) - Debit(B, Rev)
      /\ MonthlySummary(m).expense["certain"] = Debit(B, Exp) - Credit(B, Exp)
  BY <1>2 DEF MonthlySummary, Earning, Rev, Exp, Split
<1>4. TrendRow(m) = -Net(B, Rev \cup Exp)
  BY TrendIs
<1>5. \A C : Net(B, C) \in Int /\ Debit(B, C) \in Int /\ Credit(B, C) \in Int
  BY <1>1, SidesAre, NetInt
<1>6. Net(B, Rev \cup Exp) = Net(B, Rev) + Net(B, Exp)
  BY <1>1, NetAccounts, ProfitAccounts
<1> HIDE DEF B
<1> QED
  BY <1>3, <1>4, <1>5, <1>6 DEF Net

\* The balances of the gallery.
LEMMA GalleryIs ==
  /\ SumFunction([c \in Rev |-> AccountBalances[c]["certain"]]) = -Net(Certain, Rev)
  /\ SumFunction([c \in Exp |-> AccountBalances[c]["certain"]]) = Net(Certain, Exp)
<1>1. Certain \in SUBSET Bookings
  BY DEF Certain, Saved
<1>2. Rev \in SUBSET Codes /\ Exp \in SUBSET Codes /\ Rev \subseteq Credits /\ Exp \subseteq Debits
  BY ChartIs DEF Rev, Exp, OfType, Credits, Debits
<1>3. \A c \in Codes : AccountBalances[c]["certain"] = Natural(Certain, c)
  BY DEF AccountBalances, Split, Certain
<1> DEFINE f == [c \in Rev |-> AccountBalances[c]["certain"]]
           g == [c \in Exp |-> AccountBalances[c]["certain"]]
<1>4. SumFunction(f) = Sum(f, Rev) /\ SumFunction(g) = Sum(g, Exp)
  BY DEF SumFunction, Sum
<1>5. (\A c \in Rev : f[c] = Natural(Certain, c)) /\ (\A c \in Exp : g[c] = Natural(Certain, c))
  BY <1>2, <1>3
<1> HIDE DEF f, g
<1>6. Sum(f, Rev) = -Net(Certain, Rev)
  BY <1>1, <1>2, <1>5, NaturalsAdd
<1>7. Sum(g, Exp) = Net(Certain, Exp)
  BY <1>1, <1>2, <1>5, NaturalsAdd
<1> QED
  BY <1>4, <1>6, <1>7 DEF f, g

\* The dashboard's months, the agent's trend, the view of balances and the corporate tax draft
\* all tell one profit, for every journal, though each picks its accounts and entries in its own way.
THEOREM ProfitsAreOne == BooksSpec => []ProfitsAgree
<1> DEFINE trend == loadMonthlyTrend(Today)
           D == Month(Today) - 11 .. Month(Today)
           Over(M) == SumFunctionOnSet(trend, M)
           Filed == {m \in D : FirstOf(m) >= FilingPeriod[1] /\ LastOf(m) <= FilingPeriod[2]}
           P == Rev \cup Exp
<1>1. DOMAIN trend = D /\ \A m \in D : trend[m] = TrendRow(m)
  BY DEF loadMonthlyTrend
<1>2. D \in SUBSET Int /\ IsFiniteSet(D)
  BY TrendMonths
<1>3. ASSUME NEW M \in SUBSET D PROVE Over(M) = -Net(CertainIn(M), P)
  <2>1. IsFiniteSet(M) /\ M \in SUBSET Int /\ \A m \in M : trend[m] = TrendRow(m)
    BY <1>1, <1>2, FS_Subset
  <2> HIDE DEF trend, D
  <2>2. Sum(trend, M) = -Net(CertainIn(M), P)
    BY <2>1, OverIs
  <2> QED
    BY <2>2 DEF Sum
<1>4. ASSUME NEW m \in D PROVE trend[m] = MonthlySummary(m).income["certain"] - MonthlySummary(m).expense["certain"]
  BY <1>1, <1>2, MonthAgrees
<1>5. \A B \in SUBSET Bookings : /\ Net(B, P) = Net(B, Rev) + Net(B, Exp)
                                 /\ Net(B, Rev) \in Int /\ Net(B, Exp) \in Int
  BY NetAccounts, NetInt, ProfitAccounts
<1>6. ASSUME \A b \in Saved : Month(b.day) \in D
      PROVE  Over(D) = SumFunction([c \in Rev |-> AccountBalances[c]["certain"]])
                         - SumFunction([c \in Exp |-> AccountBalances[c]["certain"]])
  <2>1. CertainIn(D) = Certain /\ Certain \in SUBSET Bookings
    BY <1>6 DEF CertainIn, Certain, Saved
  <2>2. Over(D) = -Net(Certain, P)
    BY <1>3, <2>1
  <2> HIDE DEF P
  <2> QED
    BY <1>5, <2>1, <2>2, GalleryIs
<1>7. ASSUME \A b \in Saved : ledger[b] = "certain"
      PROVE  Boxes.taxable = Max({0, Over(Filed)})
  <2>1. PICK i \in D, j \in D : FilingPeriod = <<FirstOf(i), LastOf(j)>>
    BY BooksAssumption
  <2>2. FilingPeriod[1] = FirstOf(i) /\ FilingPeriod[2] = LastOf(j) /\ i \in Int /\ j \in Int
    BY <1>2, <2>1
  <2> DEFINE B == Between(FirstOf(i), LastOf(j))
  <2>3. \A m \in D : m \in Filed <=> m \in i .. j
    <3> SUFFICES ASSUME NEW m \in D
                 PROVE (FirstOf(m) >= FirstOf(i) /\ LastOf(m) <= LastOf(j)) <=> m \in i .. j
      BY <2>2
    <3>1. m \in Int
      BY <1>2
    <3>2. \A a, b \in Int : a < b => FirstOf(a) < FirstOf(b) /\ LastOf(a) < LastOf(b)
      <4> SUFFICES ASSUME NEW a \in Int, NEW b \in Int, a < b
                   PROVE  FirstOf(a) < FirstOf(b) /\ LastOf(a) < LastOf(b)
        OBVIOUS
      <4>1. LastOf(a) < FirstOf(b) /\ FirstOf(b) \in Int /\ LastOf(a) \in Int /\ FirstOf(a) \in Int /\ LastOf(b) \in Int
        <5>1. b < b + 1 /\ b + 1 \in Int
          OBVIOUS
        <5> QED
          BY <5>1, MonthsGrow
      <4>2. FirstOf(a) <= LastOf(a) /\ FirstOf(b) <= LastOf(b)
        BY MonthIs
      <4> QED
        BY <4>1, <4>2
    <3>3. \A a \in Int : FirstOf(a) \in Int /\ LastOf(a) \in Int
      BY MonthIs
    <3>4. FirstOf(m) >= FirstOf(i) <=> i <= m
      <4>1. m < i \/ m = i \/ i < m
        BY <2>2, <3>1
      <4>2. (m < i => FirstOf(m) < FirstOf(i)) /\ (i < m => FirstOf(i) < FirstOf(m))
        BY <2>2, <3>1, <3>2
      <4>3. FirstOf(m) \in Int /\ FirstOf(i) \in Int
        BY <2>2, <3>1, <3>3
      <4> QED
        BY <2>2, <3>1, <4>1, <4>2, <4>3
    <3>5. LastOf(m) <= LastOf(j) <=> m <= j
      <4>1. m < j \/ m = j \/ j < m
        BY <2>2, <3>1
      <4>2. (m < j => LastOf(m) < LastOf(j)) /\ (j < m => LastOf(j) < LastOf(m))
        BY <2>2, <3>1, <3>2
      <4>3. LastOf(m) \in Int /\ LastOf(j) \in Int
        BY <2>2, <3>1, <3>3
      <4> QED
        BY <2>2, <3>1, <4>1, <4>2, <4>3
    <3> QED
      BY <2>2, <3>1, <3>4, <3>5
  <2>4. i .. j \subseteq D
    <3>1. PICK t \in Int : t = Month(Today)
      BY TrendMonths
    <3>2. i \in t - 11 .. t /\ j \in t - 11 .. t
      BY <2>1, <3>1
    <3>3. i .. j \subseteq t - 11 .. t
      BY <3>2
    <3> QED
      BY <3>1, <3>3
  <2>5. B = CertainIn(Filed) /\ B \in SUBSET Bookings
    <3>1. \A b \in Bookings : b.day \in Nat
      BY BookingsAssumption, Zenon
    <3>2. \A b \in Bookings : b.day \in FirstOf(i) .. LastOf(j) <=> Month(b.day) \in i .. j
      BY <2>2, <3>1, DaysOfMonths
    <3>3. \A m : m \in Filed <=> m \in i .. j
      BY <2>3, <2>4
    <3> HIDE DEF Filed
    <3> QED
      BY <1>7, <3>2, <3>3 DEF Between, CertainIn, Certain, Saved
  <2>6. Over(Filed) = -Net(B, P)
    <3>1. Filed \in SUBSET D
      OBVIOUS
    <3> QED
      BY <1>3, <2>5, <3>1
  <2>7. Boxes.taxable = Max({0, Yield(B, Rev) + Yield(B, Exp)})
    BY <2>2, ProfitAccounts DEF Boxes, buildCorpFinalBoxes
  <2> HIDE DEF B, P
  <2>8. Yield(B, Rev) = -Net(B, Rev) /\ Yield(B, Exp) = -Net(B, Exp)
    BY <2>5, SidesAre DEF Yield, Net
  <2>9. Yield(B, Rev) + Yield(B, Exp) = Over(Filed)
    BY <1>5, <2>5, <2>6, <2>8
  <2> QED
    BY <2>7, <2>9
<1>8. ProfitsAgree
  BY <1>1, <1>4, <1>6, <1>7 DEF ProfitsAgree, Rev, Exp
<1> QED
  BY <1>8, PTL
=============================================================================
