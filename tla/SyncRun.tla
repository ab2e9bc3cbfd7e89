------------------------------ MODULE SyncRun ------------------------------
(***************************************************************************)
(* POST /tenants/{id}/fs/sync as its caller and the audit tables see it:   *)
(* the sync_run row, one sync_run_account row per account, the account's   *)
(* last_balance_krw and the event stream of the response.  What happens to *)
(* the statement rows themselves is the subject of TxIngestion.            *)
(*                                                                         *)
(* Every withRlsContext is one transaction.  It may roll back, or commit   *)
(* without the Lambda hearing of it (the connection breaks on COMMIT): in  *)
(* both cases it throws, and the catch block of the handler runs.          *)
(***************************************************************************)
EXTENDS Naturals, Sequences, FiniteSets

CONSTANTS
  Accounts,   \* active bank accounts of the tenant
  Foreign,    \* those synchronised by processForeignAccount
  Runs,       \* requests, each its own Lambda invocation
  Faults,     \* what may go wrong: a subset of {"rollback", "lostAck", "kill"}
  None

ASSUME ConstantsAssumption ==
  /\ IsFiniteSet(Accounts)
  /\ Foreign \subseteq Accounts
  /\ None \notin Accounts \cup Nat

VARIABLES
  row,        \* sync_run: status and counters of each run
  outcomes,   \* sync_run_account rows of each run
  balance,    \* per account: the CODEF call last_balance_krw is from
  written,    \* history: <<run, account>> whose balance UPDATE was committed
  calls,      \* CODEF calls that were answered so far: a clock
  phase,      \* where each invocation is
  loaded,     \* accounts it loaded
  remaining,  \* accounts it has still to process
  job,        \* the account at hand and CODEF's answer
  accountResults,  \* what it will record of those processed
  response    \* events written to the response

db       == <<row, outcomes, balance, written>>
local    == <<loaded, remaining, job, accountResults>>
syncVars == <<db, calls, phase, local, response>>

CodefAnswer == [acct : Accounts, call : Nat, balance : BOOLEAN, txs : BOOLEAN]
Outcome == {"success", "no_connection", "codef_error", "empty_result", "balance_only"}
Result == [acct : Accounts, outcome : Outcome, updated : BOOLEAN, current : Nat \cup {None}]

SyncInit ==
  /\ row = [r \in Runs |-> [status |-> "none", total |-> 0, success |-> 0, error |-> 0, empty |-> 0]]
  /\ outcomes = [r \in Runs |-> {}]
  /\ balance = [a \in Accounts |-> 0]
  /\ written = {} /\ calls = 0
  /\ phase = [r \in Runs |-> "idle"]
  /\ loaded = [r \in Runs |-> {}]
  /\ remaining = [r \in Runs |-> {}]
  /\ job = [r \in Runs |-> None]
  /\ accountResults = [r \in Runs |-> {}]
  /\ response = [r \in Runs |-> << >>]

In(r, p)     == phase[r] = p
Become(r, p) == phase' = [phase EXCEPT ![r] = p]
Say(r, e)    == response' = [response EXCEPT ![r] = Append(@, e)]

\* The handler goes on after a commit, or it lands in its catch block.
Committed(r, to, event) ==
  \/ /\ Become(r, to)
     /\ IF event = None THEN UNCHANGED response ELSE Say(r, event)
  \/ "lostAck" \in Faults /\ Become(r, "catch") /\ Say(r, "error")
---------------------------------------------------------------------------
\* createSyncRun; the handler learns the id only if it hears of the commit.
Create(r) ==
  /\ In(r, "idle")
  /\ row' = [row EXCEPT ![r].status = "queued"]
  /\ Committed(r, "mark", "run-started")
  /\ UNCHANGED <<outcomes, balance, written, calls, local>>

MarkRunning(r) ==
  /\ In(r, "mark")
  /\ row' = [row EXCEPT ![r].status = IF @ = "queued" THEN "running" ELSE @]
  /\ Committed(r, "load", None)
  /\ UNCHANGED <<outcomes, balance, written, calls, local>>

\* loadAccounts: the accounts the request names, or all.
LoadAccounts(r) ==
  /\ In(r, "load")
  /\ \E A \in SUBSET Accounts :
       /\ loaded' = [loaded EXCEPT ![r] = A]
       /\ remaining' = [remaining EXCEPT ![r] = A]
       /\ Become(r, IF A = {} THEN "complete" ELSE "accounts")
  /\ UNCHANGED <<db, calls, job, accountResults, response>>

Report(r, a, outcome, updated, call) ==
  accountResults' = [accountResults EXCEPT ![r] = @ \cup
    {[acct |-> a, outcome |-> outcome, updated |-> updated,
      current |-> IF updated THEN call ELSE None]}]

Path(a) == IF a \in Foreign THEN "foreign" ELSE "balance"

\* processAccount, up to CODEF's answer.
CallCodef(r, a) ==
  /\ In(r, "accounts") /\ a \in remaining[r]
  /\ remaining' = [remaining EXCEPT ![r] = @ \ {a}]
  /\ \/ /\ \E o \in {"no_connection", "codef_error"} : Report(r, a, o, FALSE, None)
        /\ Say(r, "account")
        /\ UNCHANGED <<calls, phase, job>>
     \/ /\ calls' = calls + 1
        /\ \E b, t \in BOOLEAN :
             job' = [job EXCEPT ![r] = [acct |-> a, call |-> calls + 1, balance |-> b, txs |-> t]]
        /\ Become(r, Path(a))
        /\ UNCHANGED <<accountResults, response>>
  /\ UNCHANGED <<db, loaded>>

SetBalance(r) == /\ balance' = [balance EXCEPT ![job[r].acct] = job[r].call]
                 /\ written' = written \cup {<<r, job[r].acct>>}

\* updateAccountBalance, if the answer has a balance.
UpdateBalance(r) ==
  /\ In(r, "balance")
  /\ \/ job[r].balance /\ SetBalance(r) /\ Committed(r, "upsert", None)
     \/ ~job[r].balance /\ Become(r, "upsert") /\ UNCHANGED <<balance, written, response>>
  /\ UNCHANGED <<row, outcomes, calls, local>>

\* Deviation: a balance is reported whether or not the answer had one.
AlwaysUpdated(q)  == TRUE
BalanceUpdated(q) == q.balance

OutcomeOf(q) == IF q.txs THEN "success" ELSE IF q.balance THEN "balance_only" ELSE "empty_result"
ReportStored(r) ==
  LET q == job[r] IN Report(r, q.acct, OutcomeOf(q), BalanceUpdated(q), q.call)

\* upsertBatch, if the answer has transactions, and the account's result.
Upsert(r) ==
  /\ In(r, "upsert")
  /\ \/ Become(r, "accounts") /\ Say(r, "account") /\ ReportStored(r)
     \/ /\ job[r].txs /\ "lostAck" \in Faults
        /\ Become(r, "catch") /\ Say(r, "error")
        /\ UNCHANGED accountResults
  /\ UNCHANGED <<db, calls, loaded, remaining, job>>

\* processForeignAccount: one transaction, that commits also when a rate is missing,
\* be it today's (before the balance is converted) or that of a transaction's day.
StoreForeign(r) ==
  LET q == job[r] IN
  /\ In(r, "foreign")
  /\ \E rates \in {"none", "today", "all"} :
       /\ IF q.balance /\ rates # "none" THEN SetBalance(r) ELSE UNCHANGED <<balance, written>>
       /\ IF rates = "none" \/ (q.txs /\ rates = "today")
          THEN Report(r, q.acct, "codef_error", FALSE, None)
          ELSE ReportStored(r)
  /\ Become(r, "accounts") /\ Say(r, "account")
  /\ UNCHANGED <<row, outcomes, calls, loaded, remaining, job>>

\* The same transaction, its commit unheard of: no result.
ForeignUnheard(r) ==
  /\ In(r, "foreign") /\ "lostAck" \in Faults
  /\ \/ job[r].balance /\ SetBalance(r)
     \/ UNCHANGED <<balance, written>>
  /\ Become(r, "catch") /\ Say(r, "error")
  /\ UNCHANGED <<row, outcomes, calls, local>>

\* recordAccountOutcome for all accounts, in one transaction.
RecordOutcomes(r) ==
  /\ In(r, "accounts") /\ remaining[r] = {}
  /\ outcomes' = [outcomes EXCEPT ![r] = accountResults[r]]
  /\ Committed(r, "complete", None)
  /\ UNCHANGED <<row, balance, written, calls, local>>

Count(r, O) == Cardinality({x \in accountResults[r] : x.outcome \in O})

\* Deviation: accounts that only had a balance are not counted.
UncountedBalanceOnly(r) ==
  [status |-> "completed", total |-> Cardinality(accountResults[r]),
   success |-> Count(r, {"success"}),
   error |-> Count(r, {"codef_error", "no_connection"}), empty |-> Count(r, {"empty_result"})]
CompletedRow(r) ==
  [status |-> "completed", total |-> Cardinality(accountResults[r]),
   success |-> Count(r, {"success"}),
   error |-> Count(r, {"codef_error", "no_connection"}),
   empty |-> Count(r, {"empty_result", "balance_only"})]

\* completeSyncRun, whatever the row's status is.
Complete(r) ==
  /\ In(r, "complete")
  /\ row' = [row EXCEPT ![r] = CompletedRow(r)]
  /\ Committed(r, "ended", "done")
  /\ UNCHANGED <<outcomes, balance, written, calls, local>>
---------------------------------------------------------------------------
\* Deviation: the response is written to in the try block after completeSyncRun, too.
NotCaught(r) == phase[r] \notin {"catch", "dead"}
InTry(r)     == phase[r] \notin {"catch", "ended", "dead"}

\* A request that is refused, a transaction or a CODEF call that fails: the catch
\* block starts by telling the client.
HandlerThrows(r) ==
  /\ In(r, "idle") \/ "rollback" \in Faults
  /\ InTry(r)
  /\ Become(r, "catch") /\ Say(r, "error")
  /\ UNCHANGED <<db, calls, local>>

Heard(r, e) == \E i \in DOMAIN response[r] : response[r][i] = e
KnowsId(r)  == Heard(r, "run-started")

\* Deviation: the stream is closed without the final event.
CloseOnly(r) == Become(r, "ended") /\ UNCHANGED response
SayFailed(r) == Become(r, "ended") /\ Say(r, "done-failed")

\* failSyncRun, if there is an id; its own failure is swallowed.  Then the last event.
Catch(r) ==
  /\ In(r, "catch")
  /\ \/ KnowsId(r) /\ row' = [row EXCEPT ![r].status = "failed"]
     \/ ~KnowsId(r) /\ UNCHANGED row
     \/ "rollback" \in Faults /\ UNCHANGED row
  /\ SayFailed(r)
  /\ UNCHANGED <<outcomes, balance, written, calls, local>>

\* The invocation is killed, by its timeout for one.
Kill(r) ==
  /\ "kill" \in Faults
  /\ phase[r] \notin {"idle", "ended", "dead"}
  /\ Become(r, "dead")
  /\ UNCHANGED <<db, calls, local, response>>

SyncStep(r) ==
  \/ MarkRunning(r) \/ LoadAccounts(r) \/ \E a \in Accounts : CallCodef(r, a)
  \/ UpdateBalance(r) \/ Upsert(r) \/ StoreForeign(r) \/ ForeignUnheard(r)
  \/ RecordOutcomes(r) \/ Complete(r) \/ Catch(r)

SyncNext == \E r \in Runs : Create(r) \/ SyncStep(r) \/ HandlerThrows(r) \/ Kill(r)

SyncSpec == SyncInit /\ [][SyncNext]_syncVars
\* A running invocation goes on until it returns or is killed.
FairSpec == SyncSpec /\ \A r \in Runs : WF_syncVars(SyncStep(r))
---------------------------------------------------------------------------
(* Properties.                                                             *)

Events == {"run-started", "account", "error", "done", "done-failed"}

\* Every variable has its type; CODEF's answer is there when it is used, and amounts
\* of a foreign account are never stored as KRW.
SyncTypeOK ==
  /\ row \in [Runs -> [status : {"none", "queued", "running", "completed", "failed"},
                       total : Nat, success : Nat, error : Nat, empty : Nat]]
  /\ outcomes \in [Runs -> SUBSET Result]
  /\ balance \in [Accounts -> Nat]
  /\ written \subseteq Runs \X Accounts
  /\ calls \in Nat
  /\ phase \in [Runs -> {"idle", "mark", "load", "accounts", "balance", "upsert", "foreign",
                      "complete", "catch", "ended", "dead"}]
  /\ loaded \in [Runs -> SUBSET Accounts]
  /\ remaining \in [Runs -> SUBSET Accounts]
  /\ job \in [Runs -> CodefAnswer \cup {None}]
  /\ accountResults \in [Runs -> SUBSET Result]
  /\ response \in [Runs -> Seq(Events)]
  /\ \A r \in Runs : phase[r] \in {"balance", "upsert", "foreign"} =>
       job[r] \in CodefAnswer /\ (phase[r] = "foreign" <=> job[r].acct \in Foreign)

Recorded(r, O) == Cardinality({x \in outcomes[r] : x.outcome \in O})

\* The counters of a completed run are those of its sync_run_account rows, which are
\* one for every account it loaded: no account is dropped or counted twice.
CountsMatchOutcomes ==
  \A r \in Runs : row[r].status = "completed" =>
    /\ row[r].total = Cardinality(outcomes[r])
    /\ row[r].total = row[r].success + row[r].error + row[r].empty
    /\ row[r].success = Recorded(r, {"success"})
    /\ {x.acct : x \in outcomes[r]} = loaded[r]
    /\ \A x, y \in outcomes[r] : x.acct = y.acct => x = y

\* A recorded balance update took place, in this run.
FlagMeansWritten ==
  \A r \in Runs : \A x \in outcomes[r] : x.updated => <<r, x.acct>> \in written

\* "done" without "failed" is heard only of a run whose row says completed, and
\* nothing is heard after the last event.
DoneMeansCompleted ==
  \A r \in Runs :
    /\ Heard(r, "done") => row[r].status = "completed" /\ ~Heard(r, "error")
    /\ \A i \in DOMAIN response[r] :
         response[r][i] \in {"done", "done-failed"} => i = Len(response[r]) /\ phase[r] = "ended"

\* Every request is answered with a final event, unless its invocation is killed.
StreamEnds ==
  \A r \in Runs :
    phase[r] # "idle" ~> Heard(r, "done") \/ Heard(r, "done-failed") \/ phase[r] = "dead"
=============================================================================
