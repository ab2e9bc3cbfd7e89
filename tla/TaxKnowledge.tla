----------------------------- MODULE TaxKnowledge -----------------------------
(***************************************************************************)
(* The administrators' routes of apps/tax-knowledge, beside the             *)
(* synchronisation of the laws (LawCorpus): approving a tax rule, which two *)
(* administrators must, and resolving a review request, which opens the     *)
(* gate kb_chunk_active of a law.  No search reads that gate.               *)
(*                                                                         *)
(* Each route is one transaction under READ COMMITTED, whose writes others  *)
(* see when it commits.  Nothing in this repository inserts tax rules other *)
(* than the seeded ones, inserts review requests or closes a gate: that is  *)
(* done outside (AddRule is the initial Rules, Detect).  The routes that    *)
(* only list are left out, and so is an unknown rule.                       *)
(***************************************************************************)
EXTENDS LawCorpus

CONSTANTS
  Rules,      \* rules that await approval
  Admins,     \* of them
  Unknown,    \* those without a row in users
  Calls,      \* requests of the routes
  By          \* the administrator of a request

ASSUME AdminsAssumption == Unknown \subseteq Admins /\ By \in [Calls -> Admins]

VARIABLES
  approval,   \* tax_rule_approval: committed rows
  review,     \* tax_rule_review_request of a law: its status, if there is one
  call, want, \* of a request: its step, the rule or the law and decision
  held,       \* whether its transaction holds an inserted approval
  reply

adminVars == <<approval, review, call, want, held, reply>>
vars == <<lawCorpusVars, adminVars>>

Wishes == [rule : Rules] \cup [law : Laws, decision : {"approve", "reject"}]

Init ==
  /\ LawCorpusInit
  /\ approval = {}
  /\ review = [l \in Laws |-> "none"]
  /\ call = [c \in Calls |-> "idle"] /\ want = [c \in Calls |-> None]
  /\ held = {}
  /\ reply = [c \in Calls |-> 0]

Become(c, s) == call' = [call EXCEPT ![c] = s]
Reply(c, code) == Become(c, "done") /\ reply' = [reply EXCEPT ![c] = code]

Ask(c) ==
  /\ call[c] = "idle"
  /\ \E w \in Wishes :
       /\ want' = [want EXCEPT ![c] = w]
       /\ Become(c, IF w \in [rule : Rules] THEN "approve" ELSE "resolve")
  /\ UNCHANGED <<lawCorpusVars, approval, review, held, reply>>
---------------------------------------------------------------------------
Approval(c) == [rule |-> want[c].rule, admin |-> By[c]]

Inserting(c) == \E d \in held : Approval(d) = Approval(c)

\* Deviation: a key another transaction has inserted is taken to be there.
TakenAsThere(c) == IF Approval(c) \in approval \/ Inserting(c) THEN "row" ELSE "none"
\* An insert of such a key waits for the end of that transaction.
Conflict(c) == IF Approval(c) \in approval THEN "row" ELSE IF Inserting(c) THEN "wait" ELSE "none"

\* What the trigger's count sees: committed rows, and that of its own transaction.
Approvers(c) == {a.admin : a \in {b \in approval : b.rule = want[c].rule}} \cup {By[c]}

\* INSERT ... ON CONFLICT DO NOTHING; the trigger fires for a row inserted.  With two
\* approvers it sets approved_at and writes tax_rule_change_log; that table has a policy
\* for SELECT only, so the statement is refused and the transaction rolled back.
InsertApproval(c) ==
  /\ call[c] = "approve"
  /\ \/ By[c] \in Unknown /\ Reply(c, 400) /\ UNCHANGED held
     \/ By[c] \notin Unknown /\ Conflict(c) = "row" /\ Reply(c, 200) /\ UNCHANGED held
     \/ /\ By[c] \notin Unknown /\ Conflict(c) = "none"
        /\ IF Cardinality(Approvers(c)) >= 2
           THEN Reply(c, 500) /\ UNCHANGED held
           ELSE held' = held \cup {c} /\ Become(c, "commit") /\ UNCHANGED reply
  /\ UNCHANGED <<lawCorpusVars, approval, review, want>>

CommitApproval(c) ==
  /\ call[c] = "commit"
  /\ approval' = approval \cup {Approval(c)}
  /\ held' = held \ {c}
  /\ Reply(c, 200)
  /\ UNCHANGED <<lawCorpusVars, review, want>>

Opened(l, decision) ==
  IF decision = "approve" /\ state[l] # None THEN [state EXCEPT ![l].active = TRUE] ELSE state

\* A request may be resolved again, whatever its status.
ResolveReview(c) ==
  /\ call[c] = "resolve"
  /\ LET l == want[c].law
         decision == want[c].decision
     IN IF review[l] = "none" THEN UNCHANGED <<review, state>>
        ELSE /\ review' = [review EXCEPT ![l] = decision]
             /\ state' = Opened(l, decision)
  /\ Reply(c, 200)
  /\ UNCHANGED <<lawVars, objects, open, closed, runVars, kbVars, pastVars, approval, want, held>>

\* The database or the Lambda fails: the transaction is rolled back.
CallFails(c) ==
  /\ call[c] \notin {"idle", "done"}
  /\ held' = held \ {c}
  /\ Reply(c, 503)
  /\ UNCHANGED <<lawCorpusVars, approval, review, want>>

\* Outside: a change of a law is detected, its gate closed and a review asked for.
Detect(l) ==
  /\ state[l] # None /\ review[l] = "none"
  /\ review' = [review EXCEPT ![l] = "pending"]
  /\ state' = [state EXCEPT ![l].active = FALSE]
  /\ UNCHANGED <<lawVars, objects, open, closed, runVars, kbVars, pastVars, approval, call,
                 want, held, reply>>

Approve(c) == InsertApproval(c) \/ CommitApproval(c)

Next ==
  \/ LawCorpusNext /\ UNCHANGED adminVars
  \/ \E c \in Calls : Ask(c) \/ Approve(c) \/ ResolveReview(c) \/ CallFails(c)
  \/ \E l \in Laws : Detect(l)

Spec == Init /\ [][Next]_vars
---------------------------------------------------------------------------
(* Properties.                                                             *)

\* Every variable has its type.
TypeOK ==
  /\ LawCorpusTypeOK
  /\ approval \subseteq [rule : Rules, admin : Admins]
  /\ review \in [Laws -> {"none", "pending", "approve", "reject"}]
  /\ call \in [Calls -> {"idle", "approve", "commit", "resolve", "done"}]
  /\ want \in [Calls -> Wishes \cup {None}]
  /\ held \subseteq Calls
  /\ reply \in [Calls -> {0, 200, 400, 500, 503}]

\* An approval that was answered is on record, also when the request repeats one of the
\* same administrator that is still on its way and fails.
AnsweredIsRecorded ==
  \A c \in Calls : reply[c] = 200 /\ want[c] \in [rule : Rules] => Approval(c) \in approval
=============================================================================
