----------------------------- MODULE EntryReview -----------------------------
(***************************************************************************)
(* The review of AI-suggested journal entries in apps/journal: PATCH       *)
(* replaces the lines of an uncertain entry, POST confirm and POST discard *)
(* give the verdict on it.                                                 *)
(*                                                                         *)
(* Every use case reads the entry in one transaction (findById), decides,  *)
(* and writes in a second one, so requests of two browser tabs or two      *)
(* users interleave between the two.  Header updates are one guarded       *)
(* UPDATE.  A PATCH is a DELETE and INSERTs under READ COMMITTED: the      *)
(* DELETE sees the lines of the moment it starts, waits for the row locks  *)
(* of a PATCH that is before it, and then removes what is left of these    *)
(* rows; lines the other PATCH has inserted meanwhile are not among them.  *)
(***************************************************************************)
EXTENDS Naturals, FiniteSetsExt

CONSTANTS
  Entries,    \* journal_entries of one tenant
  Requests,   \* API calls
  Original,   \* the lines an entry is created with
  Bodies,     \* the "lines" arrays PATCH requests may carry
  None

Sides  == {"debit", "credit"}
Line   == [no : Nat \ {0}, side : Sides, amt : Nat]             \* amt in half KRW cents
Row    == [no : Nat \ {0}, side : Sides, amt : Nat, by : Requests \cup {None}]  \* in cents

Total(L, side) == MapThenSumSet(LAMBDA l : l.amt, {l \in L : l.side = side})
Balance(L)     == Total(L, "debit") = Total(L, "credit")

\* Storing in NUMERIC(18,2) rounds half a cent away from zero.
Stored(L, r) == {[no |-> l.no, side |-> l.side, amt |-> (l.amt + 1) \div 2, by |-> r] : l \in L}

ASSUME LinesAssumption ==
  /\ Original \subseteq Row /\ Balance(Original) /\ Original # {}
  /\ \A l \in Original : l.by = None
  /\ \A B \in Bodies : B \subseteq Line /\ IsFiniteSet(B)
\* What a request may ask for.
Asks == [kind : {"confirm", "discard"}, entry : Entries, body : {{}}]
          \cup [kind : {"patch"}, entry : Entries, body : Bodies]

ASSUME NoneAssumption ==
  /\ None \notin Requests \cup Asks
  /\ None \notin {200, 409, 422, 500}
  /\ None \notin {"uncertain", "certain", "discarded"}

VARIABLES
  confidence,   \* confidence_status of each entry
  posted,       \* entries with status 'posted'
  lines,        \* journal_lines of each entry
  pc,           \* where each request is
  req,          \* what it asks for
  victims,      \* the rows its DELETE has seen
  answer        \* HTTP status of its response

db   == <<confidence, posted, lines>>
vars == <<db, pc, req, victims, answer>>

\* The status a request asks for.
Verdict == [confirm |-> "certain", discard |-> "discarded", patch |-> None]

Init ==
  /\ confidence \in [Entries -> {"uncertain", "certain"}]
  /\ posted = {e \in Entries : confidence[e] = "certain"}
  /\ lines = [e \in Entries |-> Original]
  /\ pc = [r \in Requests |-> "idle"]
  /\ req = [r \in Requests |-> None]
  /\ victims = [r \in Requests |-> {}]
  /\ answer = [r \in Requests |-> None]

At(r, p)     == pc[r] = p
Goto(r, p)   == pc' = [pc EXCEPT ![r] = p] /\ UNCHANGED answer
Reply(r, http) == /\ pc' = [pc EXCEPT ![r] = "done"]
                  /\ answer' = [answer EXCEPT ![r] = http]

\* PatchBodySchema and assertBalanced; the amounts of a request are not rounded yet.
Acceptable(B) == Cardinality(B) >= 2 /\ Balance(B)

\* The request arrives and its caller is a member; a PATCH is validated before
\* the entry is read.
Arrive(r, q) ==
  /\ At(r, "idle")
  /\ req' = [req EXCEPT ![r] = q]
  /\ IF q.kind = "patch" /\ ~Acceptable(q.body) THEN Reply(r, 422) ELSE Goto(r, "read")
  /\ UNCHANGED <<db, victims>>

Route(q) == IF q.kind = "patch" THEN "delete" ELSE "update"

\* findById and the decision on what it returned.
Read(r) ==
  LET q == req[r]  now == confidence[q.entry] IN
  /\ At(r, "read")
  /\ \/ now = "uncertain" /\ Goto(r, Route(q))
     \/ now # "uncertain" /\ Reply(r, IF now = Verdict[q.kind] THEN 200 ELSE 409)
  /\ UNCHANGED <<db, req, victims>>

\* Deviation: an UPDATE without its condition on confidence_status.
AnyStatus(e) == TRUE
Matches(e)   == confidence[e] = "uncertain"

\* Deviation: the row count of the UPDATE is not looked at.
IgnoreRowCount(r, e) == Goto(r, "refresh")
AfterUpdate(r, e)    == IF Matches(e) THEN Goto(r, "refresh") ELSE Reply(r, 409)

\* promoteToPosted, passed by confirm only.
Promotes(q) == q.kind = "confirm"

\* updateConfidenceStatus.
UpdateStatus(r) ==
  LET q == req[r] IN
  /\ At(r, "update")
  /\ AfterUpdate(r, q.entry)
  /\ IF Matches(q.entry)
     THEN /\ confidence' = [confidence EXCEPT ![q.entry] = Verdict[q.kind]]
          /\ posted' = IF Promotes(q) THEN posted \cup {q.entry} ELSE posted
     ELSE UNCHANGED <<confidence, posted>>
  /\ UNCHANGED <<lines, req, victims>>

\* replaceLines, the DELETE: its snapshot.
BeginReplace(r) ==
  /\ At(r, "delete")
  /\ victims' = [victims EXCEPT ![r] = lines[req[r].entry]]
  /\ Goto(r, "insert")
  /\ UNCHANGED <<db, req>>

\* Deviation: no balance trigger.
RowConstraints(L) ==
  /\ \A l \in L : l.amt > 0
  /\ \A l, m \in L : l.no = m.no => l = m
\* The CHECK and UNIQUE constraints of journal_lines and its deferred trigger.
Constraints(L) == RowConstraints(L) /\ Balance(L)

\* Deviation: the DELETE is committed on its own.
AutoCommit(e, kept) == lines' = [lines EXCEPT ![e] = kept]
Rollback(e, kept)   == UNCHANGED lines

\* replaceLines, once it holds the locks: the INSERTs and the COMMIT, or ROLLBACK.
CommitReplace(r) ==
  LET e    == req[r].entry
      kept == lines[e] \ victims[r]
      new  == kept \cup Stored(req[r].body, r)
  IN /\ At(r, "insert")
     /\ \/ Constraints(new) /\ lines' = [lines EXCEPT ![e] = new] /\ Goto(r, "refresh")
        \/ ~Constraints(new) /\ Rollback(e, kept) /\ Reply(r, 500)
     /\ UNCHANGED <<confidence, posted, req, victims>>

\* The second findById: entries are never deleted.
Refresh(r) ==
  /\ At(r, "refresh")
  /\ Reply(r, 200)
  /\ UNCHANGED <<db, req, victims>>

\* The database, the connection or the Lambda fails, before or after a COMMIT; a
\* deadlock of two PATCHes ends so for one of them.
Fail(r) ==
  /\ pc[r] \notin {"idle", "done"}
  /\ Reply(r, 500)
  /\ UNCHANGED <<db, req, victims>>

Next ==
  \E r \in Requests :
    \/ \E q \in Asks : Arrive(r, q)
    \/ Read(r) \/ UpdateStatus(r) \/ BeginReplace(r) \/ CommitReplace(r) \/ Refresh(r) \/ Fail(r)

Spec == Init /\ [][Next]_vars
---------------------------------------------------------------------------
(* Properties.                                                             *)

\* Every variable has its type, and a request that has arrived has its question.
TypeOK ==
  /\ confidence \in [Entries -> {"uncertain", "certain", "discarded"}]
  /\ posted \subseteq Entries
  /\ lines \in [Entries -> SUBSET Row]
  /\ pc \in [Requests -> {"idle", "read", "update", "delete", "insert", "refresh", "done"}]
  /\ req \in [Requests -> Asks \cup {None}]
  /\ victims \in [Requests -> SUBSET Row]
  /\ answer \in [Requests -> {200, 409, 422, 500, None}]
  /\ \A r \in Requests : pc[r] # "idle" => req[r] \in Asks
  /\ \A r \in Requests : pc[r] = "update" => req[r].kind # "patch"
  /\ \A r \in Requests : pc[r] \in {"delete", "insert"} => req[r].kind = "patch"

\* Debits equal credits in every entry, also after amounts were rounded and after
\* PATCHes met in the database.
BalancedEntries == \A e \in Entries : Balance(lines[e])

\* However requests race, a verdict is given once: an entry that was confirmed or
\* discarded never changes its status again.
VerdictIsFinal ==
  [][\A e \in Entries : confidence[e] # "uncertain" => confidence'[e] = confidence[e]]_vars

\* The two status columns agree: exactly the entries that are certain are posted.
PostedIffCertain == \A e \in Entries : e \in posted <=> confidence[e] = "certain"

\* A confirm or discard that was answered 200 did happen and still stands: of two
\* racing verdicts at most one is told that it succeeded.
OkMeansDone ==
  \A r \in Requests :
    answer[r] = 200 /\ req[r].kind # "patch" => confidence[req[r].entry] = Verdict[req[r].kind]

\* A PATCH that fails half-way leaves the lines as they were: no entry is ever bare.
NeverEmptied == \A e \in Entries : lines[e] # {}

\* Whatever PATCHes race, are rounded or fail half-way, an entry is whole: balanced, and
\* never bare.
WholeEntries == BalancedEntries /\ NeverEmptied

\* "Certain entries must be reversed first": their lines stay as they are.  The code does
\* not have this property (README, Disagreements found).
CertainIsImmutable ==
  [][\A e \in Entries : confidence[e] = "certain" => lines'[e] = lines[e]]_vars
=============================================================================
