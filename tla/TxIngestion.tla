---------------------------- MODULE TxIngestion ----------------------------
(***************************************************************************)
(* The bank-transaction pipeline of apps/codef for one tenant: scheduled   *)
(* fetch Lambdas and user-started SSE syncs store statement rows in        *)
(* raw_transactions; rows stored by a fetch travel through the SQS         *)
(* ClassifyTasksQueue to worker Lambdas, rows stored by a sync are         *)
(* classified by that sync itself; a classified row gets a journal entry   *)
(* and, if the classifier was confident, a TransactionCache item.          *)
(*                                                                         *)
(* One action per transaction or external call: everything between two     *)
(* awaits of the code that commit or observe shared state.  A row that is  *)
(* classified is read first (existsBySourceRef) and written later          *)
(* (saveEntriesAtomically): READ COMMITTED gives the two statements        *)
(* different snapshots and journal_entries.source_ref_id is not unique.    *)
(***************************************************************************)
EXTENDS Naturals, FiniteSets

CONSTANTS
  Accounts,       \* tenant_bank_accounts rows that are synchronised
  Foreign,        \* those with account_kind = 'foreign'
  Keys,           \* (source, external_id): the unique key of raw_transactions
  Rows,           \* the bank's statement: pairs <<account, key>>
  FetchRuns,      \* invocations of the scheduled fetch Lambda
  SyncRuns,       \* invocations of the SSE sync Lambda
  Workers,        \* concurrent executions of the classify worker
  Faulty,         \* processes whose calls may fail, or that may be killed
  SendBatch,      \* MAX_BATCH_SIZE of sendTaskBatch
  BatchSize,      \* batchSize of the worker's SQS event source
  MaxReceive,     \* maxReceiveCount of the queue's redrive policy
  MaxDuplicates,  \* bound: deliveries of a message that is already in flight
  None

Runs      == FetchRuns \cup SyncRuns
Consumers == SyncRuns \cup Workers        \* the processes that classify rows
Procs     == Runs \cup Workers

ASSUME AccountsAssumption ==
  /\ Foreign \subseteq Accounts
  /\ Rows \subseteq Accounts \X Keys
  /\ None \notin Accounts \cup Keys
ASSUME SourceAssumption ==  \* codef_bank and codef_fx rows have different keys
  \A r, s \in Rows : r[2] = s[2] => (r[1] \in Foreign <=> s[1] \in Foreign)
ASSUME ProcsAssumption ==
  /\ FetchRuns \cap SyncRuns = {}
  /\ Runs \cap Workers = {}
  /\ Faulty \subseteq Procs
ASSUME BoundsAssumption ==
  /\ {SendBatch, BatchSize, MaxReceive} \subseteq Nat \ {0}
  /\ MaxDuplicates \in Nat

VARIABLES
  raw,         \* bank_account_id of each stored row, None where there is no row
  dispatched,  \* rows whose dispatched_at is set
  entries,     \* committed journal entries: source_ref_id, writer, confidence_status
  cache,       \* entries with an item in the DynamoDB TransactionCache
  seen,        \* history: statement rows that an upsert was given
  msg,         \* SQS state of the one task that names the row
  receives,    \* its approximate receive count
  duplicates,  \* deliveries so far of a message that was in flight
  pc,          \* control state of each process
  pending,     \* accounts a run has still to process
  fresh,       \* newRawTxIds: rows a run was the first to store
  todo,        \* ids a process has still to send or classify
  cur,         \* the row a consumer is classifying
  batch,       \* records of the worker's SQS event
  failed       \* batchItemFailures

pgVars   == <<raw, dispatched, entries>>
sqsVars  == <<msg, receives, duplicates>>
procVars == <<pc, pending, fresh, todo, cur, batch, failed>>
vars     == <<pgVars, cache, seen, sqsVars, procVars>>

Entry == [src : Keys, by : Consumers, status : {"certain", "uncertain"}]

Stored       == {k \in Keys : raw[k] # None}
EntriesOf(k) == {e \in entries : e.src = k}
Journaled    == {k \in Keys : EntriesOf(k) # {}}

\* Operators marked "Deviation" are not part of the pipeline: each is a plausible
\* slip in the definition that follows it, used to see that a property notices.

\* The rows of an upsert that come back with xmax = 0.
InsertedRows(R) == R \ Stored

KrwFresh(r) == {k \in fresh[r] : raw[k] \notin Foreign}
FxFresh(r)  == {k \in fresh[r] : raw[k] \in Foreign}

\* Deviation: existsBySourceRef is not asked.
StoredRows   == Stored
Classifiable == Stored \ Journaled

\* Deviation: projection of every saved entry.
AlwaysProject(status) == "project"
AfterSave(status) == IF status = "certain" THEN "project" ELSE "classify"

\* Deviation: a sync ends once its rows are stored.
FetchOnly(r) == "done"
AfterMarkFx(r) == IF r \in FetchRuns THEN "done" ELSE "classify"

Deliverable(k) == msg[k] = "visible" /\ receives[k] < MaxReceive

\* Deviation: off by one in the redrive policy.
OverReceived(k) == msg[k] = "visible" /\ receives[k] > MaxReceive
Exhausted(k)    == msg[k] = "visible" /\ receives[k] = MaxReceive

\* Deviation: a handler that returns no batchItemFailures.
NoItemFailures(w)    == {}
BatchItemFailures(w) == failed[w]

Init ==
  /\ raw = [k \in Keys |-> None]
  /\ dispatched = {} /\ entries = {} /\ cache = {} /\ seen = {}
  /\ msg = [k \in Keys |-> "none"]
  /\ receives = [k \in Keys |-> 0]
  /\ duplicates = 0
  /\ pc = [p \in Procs |-> "idle"]
  /\ pending = [r \in Runs |-> {}]
  /\ fresh = [r \in Runs |-> {}]
  /\ todo = [p \in Procs |-> {}]
  /\ cur = [c \in Consumers |-> None]
  /\ batch = [w \in Workers |-> {}]
  /\ failed = [w \in Workers |-> {}]

Goto(p, from, to) == pc[p] = from /\ pc' = [pc EXCEPT ![p] = to]

---------------------------------------------------------------------------
(* Fetching: the part scheduled fetches and SSE syncs share.               *)

\* loadAccounts: a fetch takes every active account, a sync those the request names.
StartRun(r) ==
  /\ Goto(r, "idle", "fetch")
  /\ \E A \in SUBSET Accounts :
       /\ r \in FetchRuns => A = Accounts
       /\ pending' = [pending EXCEPT ![r] = A]
  /\ UNCHANGED <<pgVars, cache, seen, sqsVars, fresh, todo, cur, batch, failed>>

\* processAccount: CODEF returns some rows R of the account's statement (none
\* when the date range is empty, there is no connection, or CODEF answers with
\* an error); one transaction upserts them and reports those it inserted.
ProcessAccount(r, a) ==
  /\ pc[r] = "fetch" /\ a \in pending[r]
  /\ pending' = [pending EXCEPT ![r] = @ \ {a}]
  /\ \E R \in SUBSET {k \in Keys : <<a, k>> \in Rows} :
         /\ raw' = [k \in Keys |-> IF k \in R \ Stored THEN a ELSE raw[k]]
         /\ fresh' = [fresh EXCEPT ![r] = @ \cup InsertedRows(R)]
         /\ seen' = seen \cup {<<a, k>> : k \in R}
  /\ UNCHANGED <<dispatched, entries, cache, sqsVars, pc, todo, cur, batch, failed>>

\* A fetch goes on to queue its KRW rows, a sync to mark its FX rows.
AccountsDone(r) ==
  /\ pending[r] = {}
  /\ Goto(r, "fetch", IF r \in FetchRuns THEN "send" ELSE "markFx")
  /\ todo' = [todo EXCEPT ![r] = KrwFresh(r)]
  /\ UNCHANGED <<pgVars, cache, seen, sqsVars, pending, fresh, cur, batch, failed>>

\* FX rows are marked dispatched without ever being queued or classified.
MarkFxDispatched(r) ==
  /\ Goto(r, "markFx", AfterMarkFx(r))
  /\ dispatched' = dispatched \cup FxFresh(r)
  /\ UNCHANGED <<raw, entries, cache, seen, sqsVars, pending, fresh, todo, cur, batch, failed>>

\* An exception that leaves the handler, or the invocation killed at its timeout.
Die(r) ==
  /\ r \in Faulty
  /\ pc[r] \notin {"idle", "done", "dead"}
  /\ pc' = [pc EXCEPT ![r] = "dead"]
  /\ UNCHANGED <<pgVars, cache, seen, sqsVars, pending, fresh, todo, cur, batch, failed>>

---------------------------------------------------------------------------
(* Scheduled fetch: hand the new KRW rows to the queue, then mark them.    *)

\* The sets of n elements of S, or S itself if it has fewer.
Chunk(S, n) == {C \in SUBSET S : \/ Cardinality(C) = n
                                 \/ C = S /\ Cardinality(S) < n}

\* One SendMessageBatch.  A partial failure throws after some tasks are queued.
SendTaskBatch(f) ==
  /\ pc[f] = "send" /\ todo[f] # {}
  /\ \E C \in Chunk(todo[f], SendBatch) : \E accepted \in SUBSET C :
       /\ accepted # C => f \in Faulty
       /\ msg' = [k \in Keys |-> IF k \in accepted THEN "visible" ELSE msg[k]]
       /\ todo' = [todo EXCEPT ![f] = @ \ C]
       /\ pc' = [pc EXCEPT ![f] = IF accepted = C THEN "send" ELSE "dead"]
  /\ UNCHANGED <<pgVars, cache, seen, receives, duplicates, pending, fresh, cur, batch, failed>>

MarkKrwDispatched(f) ==
  /\ todo[f] = {}
  /\ Goto(f, "send", "markFx")
  /\ dispatched' = dispatched \cup KrwFresh(f)
  /\ UNCHANGED <<raw, entries, cache, seen, sqsVars, pending, fresh, todo, cur, batch, failed>>

---------------------------------------------------------------------------
(* Classifying a row: the SSE loop and the worker's record loop.           *)

\* existsBySourceRef: a row that has an entry, or no longer exists, is skipped.
CheckRow(c, k) ==
  /\ pc[c] = "classify" /\ k \in todo[c]
  /\ todo' = [todo EXCEPT ![c] = @ \ {k}]
  /\ IF k \in Classifiable
     THEN /\ pc' = [pc EXCEPT ![c] = "save"]
          /\ cur' = [cur EXCEPT ![c] = k]
     ELSE UNCHANGED <<pc, cur>>
  /\ UNCHANGED <<pgVars, cache, seen, sqsVars, pending, fresh, batch, failed>>

\* Deviation: the entry is saved but its row is not marked dispatched.
SaveUnmarked(c, status) ==
  /\ Goto(c, "save", AfterSave(status))
  /\ entries' = entries \cup {[src |-> cur[c], by |-> c, status |-> status]}
  /\ UNCHANGED <<raw, dispatched, cache, seen, sqsVars, pending, fresh, todo, cur, batch, failed>>

\* The COMMIT of saveEntriesAtomically + ai_decisions + markDispatched.
SaveEntry(c, status) ==
  /\ Goto(c, "save", AfterSave(status))
  /\ entries' = entries \cup {[src |-> cur[c], by |-> c, status |-> status]}
  /\ dispatched' = dispatched \cup {cur[c]}
  /\ UNCHANGED <<raw, cache, seen, sqsVars, pending, fresh, todo, cur, batch, failed>>

\* The pool, the classifier or the transaction fails: ROLLBACK.  A worker reports
\* the record in batchItemFailures; a sync emits classification-error and goes on.
RowFails(c, k) ==
  /\ c \in Faulty
  /\ \/ pc[c] = "classify" /\ k \in todo[c]
     \/ pc[c] = "save" /\ k = cur[c]
  /\ pc' = [pc EXCEPT ![c] = "classify"]
  /\ todo' = [todo EXCEPT ![c] = @ \ {k}]
  /\ failed' = IF c \in Workers THEN [failed EXCEPT ![c] = @ \cup {k}] ELSE failed
  /\ UNCHANGED <<pgVars, cache, seen, sqsVars, pending, fresh, cur, batch>>

\* projectEntry after the commit of a certain entry; its failure is swallowed.
ProjectEntry(c) ==
  /\ Goto(c, "project", "classify")
  /\ \/ cache' = cache \cup {e \in EntriesOf(cur[c]) : e.by = c}
     \/ c \in Faulty /\ cache' = cache
  /\ UNCHANGED <<pgVars, seen, sqsVars, pending, fresh, todo, cur, batch, failed>>

SyncDone(s) ==
  /\ todo[s] = {}
  /\ Goto(s, "classify", "done")
  /\ UNCHANGED <<pgVars, cache, seen, sqsVars, pending, fresh, todo, cur, batch, failed>>

---------------------------------------------------------------------------
(* The queue and the worker's invocations.                                 *)

\* SQS invokes an idle worker with a batch of visible messages.
Receive(w, B) ==
  /\ Goto(w, "idle", "classify")
  /\ B # {} /\ Cardinality(B) <= BatchSize
  /\ \A k \in B : Deliverable(k)
  /\ msg' = [k \in Keys |-> IF k \in B THEN "inflight" ELSE msg[k]]
  /\ receives' = [k \in Keys |-> IF k \in B THEN receives[k] + 1 ELSE receives[k]]
  /\ batch' = [batch EXCEPT ![w] = B]
  /\ todo' = [todo EXCEPT ![w] = B]
  /\ UNCHANGED <<pgVars, cache, seen, duplicates, pending, fresh, cur, failed>>

\* At-least-once delivery: a message that is in flight is delivered again.
ReceiveDuplicate(w, k) ==
  /\ Goto(w, "idle", "classify")
  /\ msg[k] = "inflight" /\ receives[k] < MaxReceive
  /\ duplicates < MaxDuplicates
  /\ duplicates' = duplicates + 1
  /\ receives' = [receives EXCEPT ![k] = @ + 1]
  /\ batch' = [batch EXCEPT ![w] = {k}]
  /\ todo' = [todo EXCEPT ![w] = {k}]
  /\ UNCHANGED <<pgVars, cache, seen, msg, pending, fresh, cur, failed>>

\* The batch S of worker w goes back to the queue, the rest of it is deleted.
EndInvocation(w, S) ==
  /\ msg' = [k \in Keys |-> IF k \notin batch[w] \/ msg[k] = "deleted" THEN msg[k]
                            ELSE IF k \in S THEN "visible" ELSE "deleted"]
  /\ batch' = [batch EXCEPT ![w] = {}]
  /\ failed' = [failed EXCEPT ![w] = {}]
  /\ todo' = [todo EXCEPT ![w] = {}]
  /\ cur' = [cur EXCEPT ![w] = None]
  /\ pc' = [pc EXCEPT ![w] = "idle"]
  /\ UNCHANGED <<pgVars, cache, seen, receives, duplicates, pending, fresh>>

\* The handler returns its batchItemFailures.
ReturnFailures(w) ==
  /\ pc[w] = "classify" /\ todo[w] = {}
  /\ EndInvocation(w, BatchItemFailures(w))

\* Timeout or crash of the invocation: no record of the batch is acknowledged.
KillWorker(w) ==
  /\ w \in Faulty
  /\ pc[w] # "idle"
  /\ EndInvocation(w, batch[w])

\* The redrive policy moves a message whose receives are used up.
MoveToDlq(k) ==
  /\ Exhausted(k)
  /\ msg' = [msg EXCEPT ![k] = "dlq"]
  /\ UNCHANGED <<pgVars, cache, seen, receives, duplicates, procVars>>

---------------------------------------------------------------------------

RunStep(r)   == \/ \E a \in Accounts : ProcessAccount(r, a)
                \/ AccountsDone(r)
                \/ MarkFxDispatched(r)
FetchStep(f) == SendTaskBatch(f) \/ MarkKrwDispatched(f)
ClassifyStep(c) == \/ \E k \in Keys : CheckRow(c, k) \/ RowFails(c, k)
                   \/ \E status \in {"certain", "uncertain"} : SaveEntry(c, status)
                   \/ ProjectEntry(c)
Deliver(k)   == \E w \in Workers : \E B \in SUBSET Keys : k \in B /\ Receive(w, B)

Next ==
  \/ \E r \in Runs : StartRun(r) \/ RunStep(r) \/ Die(r)
  \/ \E f \in FetchRuns : FetchStep(f)
  \/ \E c \in Consumers : ClassifyStep(c)
  \/ \E s \in SyncRuns : SyncDone(s)
  \/ \E w \in Workers : ReturnFailures(w) \/ KillWorker(w)
  \/ \E w \in Workers, B \in SUBSET Keys : Receive(w, B)
  \/ \E w \in Workers, k \in Keys : ReceiveDuplicate(w, k)
  \/ \E k \in Keys : MoveToDlq(k)

Spec == Init /\ [][Next]_vars

\* A Lambda that was started keeps running until it returns or is killed; SQS
\* keeps delivering a visible message; nobody is obliged to start a run.
Fairness ==
  /\ \A r \in Runs : WF_vars(RunStep(r))
  /\ \A f \in FetchRuns : WF_vars(FetchStep(f))
  /\ \A c \in Consumers : WF_vars(ClassifyStep(c))
  /\ \A s \in SyncRuns : WF_vars(SyncDone(s))
  /\ \A w \in Workers : WF_vars(ReturnFailures(w))
  /\ \A k \in Keys : SF_vars(Deliver(k)) /\ WF_vars(MoveToDlq(k))

FairSpec == Spec /\ Fairness
---------------------------------------------------------------------------
(* Properties.                                                             *)

ControlStates == {"idle", "fetch", "send", "markFx", "classify", "save", "project", "done", "dead"}

\* Every variable has its type; a consumer that writes has a row to write about.
TypeOK ==
  /\ raw \in [Keys -> Accounts \cup {None}]
  /\ dispatched \subseteq Keys
  /\ entries \subseteq Entry
  /\ cache \subseteq Entry
  /\ seen \subseteq Rows
  /\ msg \in [Keys -> {"none", "visible", "inflight", "deleted", "dlq"}]
  /\ receives \in [Keys -> 0 .. MaxReceive]
  /\ duplicates \in 0 .. MaxDuplicates
  /\ pc \in [Procs -> ControlStates]
  /\ pending \in [Runs -> SUBSET Accounts]
  /\ fresh \in [Runs -> SUBSET Keys]
  /\ todo \in [Procs -> SUBSET Keys]
  /\ cur \in [Consumers -> Keys \cup {None}]
  /\ batch \in [Workers -> SUBSET Keys]
  /\ failed \in [Workers -> SUBSET Keys]
  /\ \A c \in Consumers : pc[c] \in {"save", "project"} => cur[c] \in Keys

\* However fetches and syncs of one tenant overlap, a stored row belongs to the one
\* run that inserted it (xmax = 0), and a task is queued only by the fetch that
\* inserted its row: the SSE loop and the queue never own the same row.
SingleOwner ==
  /\ \A r, q \in Runs : r # q => fresh[r] \cap fresh[q] = {}
  /\ \A k \in Keys : msg[k] # "none" => \E f \in FetchRuns : k \in fresh[f]

\* A KRW row with dispatched_at set is not lost: it has its entry, or its task is
\* still in the queue or in the DLQ, whatever batches failed or were killed.
DispatchedNotLost ==
  \A k \in dispatched :
    raw[k] \notin Foreign => k \in Journaled \/ msg[k] \in {"visible", "inflight", "dlq"}

\* FX rows are stored and marked, never queued and never journaled.
FxNeverJournaled ==
  \A k \in Keys : raw[k] \in Foreign => msg[k] = "none" /\ k \notin Journaled

\* "Every transaction the user has is represented by exactly one row in
\* journal_entries": at most one, with SQS delivering a task to one worker at a time.
OneEntryPerRow == \A e, f \in entries : e.src = f.src => e = f

\* The cache shows committed, certain entries only.
CacheIsPosted == \A e \in cache : e \in entries /\ e.status = "certain"

\* Every statement row an upsert was given has a raw_transactions row of its own account.
\* The code does not have this property (README, Disagreements found).
EveryRowStored == \A r \in seen : raw[r[2]] = r[1]

\* "Every transaction ... is represented": a KRW row without an entry still has a
\* task to be worked on, or the run that stored it is still alive.
NoStrandedRow ==
  \A k \in Stored \ Journaled :
    \/ raw[k] \in Foreign
    \/ msg[k] \in {"visible", "inflight", "dlq"}
    \/ \E r \in Runs : k \in fresh[r] /\ pc[r] \notin {"done", "dead"}

\* As long as fetches and syncs do not fail, every stored KRW row gets its entry, or
\* its task ends in the DLQ, however often workers fail.
EveryRowSettled ==
  \A k \in Keys : (raw[k] \notin Foreign \cup {None}) ~> (k \in Journaled \/ msg[k] = "dlq")

\* The pipeline implements the journal contract.
Contract == INSTANCE JournalContract WITH
  Krw      <- {r[2] : r \in {s \in Rows : s[1] \notin Foreign}},
  stored   <- Stored,
  settled  <- dispatched,
  journal  <- [k \in Keys |-> Cardinality(EntriesOf(k))]
ImplementsContract == Contract!Spec
---------------------------------------------------------------------------
(* The invariants the proofs of TxIngestionProofs are by induction on.     *)

KrwRows == {k \in Stored : raw[k] \notin Foreign}
Queued  == {k \in Keys : msg[k] # "none"}
AtEntry(c) == pc[c] \in {"save", "project"}

\* A run owns the rows it stored first, works only on these, and queues none of
\* them before all its accounts are done.
Ownership ==
  /\ \A k \in Stored : <<raw[k], k>> \in Rows
  /\ \A r, q \in Runs : r # q => fresh[r] \cap fresh[q] = {}
  /\ \A r \in Runs : todo[r] \subseteq fresh[r] /\ fresh[r] \subseteq Stored
  /\ \A s \in SyncRuns : AtEntry(s) => cur[s] \in fresh[s]
  /\ \A k \in Queued : \E f \in FetchRuns : k \in fresh[f]
  /\ \A f \in FetchRuns : \A k \in fresh[f] :
       pc[f] \in {"idle", "fetch"} \/ k \in todo[f] => msg[k] = "none"

\* Whatever is to be queued or classified, was, or is being, is a stored KRW row.
KrwOnly ==
  /\ \A p \in Procs : todo[p] \subseteq KrwRows
  /\ \A w \in Workers : batch[w] \subseteq Queued
  /\ \A c \in Consumers : AtEntry(c) => cur[c] \in KrwRows
  /\ Queued \cup Journaled \subseteq KrwRows

\* A record of a worker's event that is neither waiting, nor at hand, nor reported
\* as failed has its entry; so has a row whose task was deleted.
Progress ==
  /\ \A f \in FetchRuns : pc[f] = "send" => KrwFresh(f) \subseteq todo[f] \cup Queued
  /\ \A w \in Workers : \A k \in batch[w] :
       \/ k \in todo[w] \cup failed[w] \cup Journaled
       \/ pc[w] = "save" /\ cur[w] = k
  /\ \A k \in Keys : msg[k] = "deleted" => k \in Journaled
  /\ dispatched \subseteq {k \in Stored : raw[k] \in Foreign} \cup Journaled \cup Queued

\* The cache is a part of the certain entries, and only certain ones are projected.
Projection ==
  /\ CacheIsPosted
  /\ \A c \in Consumers : pc[c] = "save" =>
       \A e \in EntriesOf(cur[c]) : e.by # c
  /\ \A c \in Consumers : pc[c] = "project" =>
       \A e \in EntriesOf(cur[c]) : e.by = c => e.status = "certain"

\* Without duplicate deliveries a task is in the hands of one worker.
Custody ==
  /\ \A w \in Workers :
       /\ todo[w] \subseteq batch[w]
       /\ AtEntry(w) => cur[w] \in batch[w]
       /\ \A k \in batch[w] : msg[k] = "inflight"
  /\ \A v, w \in Workers : v # w => batch[v] \cap batch[w] = {}
  /\ \A c \in Consumers : pc[c] = "save" => cur[c] \notin Journaled
  /\ OneEntryPerRow
\* A row without an entry was queued, or a run that stored it is still to queue or
\* classify it; only a run that may fail leaves one behind.
Ahead(r, k) == \/ pc[r] \in {"idle", "fetch"}
               \/ k \in todo[r]
               \/ r \in SyncRuns /\ pc[r] = "save" /\ cur[r] = k
Kept ==
  /\ \A r \in Runs \ Faulty :
       /\ pc[r] # "dead"
       /\ pc[r] = "done" \/ (pc[r] = "markFx" /\ r \in FetchRuns) => todo[r] = {}
  /\ \A k \in KrwRows \ (Journaled \cup Queued) :
       \E r \in Runs : k \in fresh[r] /\ (r \in Faulty \/ Ahead(r, k))
=============================================================================
