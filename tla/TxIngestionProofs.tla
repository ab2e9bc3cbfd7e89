------------------------- MODULE TxIngestionProofs -------------------------
(* Proofs about TxIngestion, for any accounts, rows, runs and workers.     *)
EXTENDS TxIngestion, FiniteSetTheorems, TLAPS

USE DEF pgVars, sqsVars, procVars

---------------------------------------------------------------------------
(* Each invariant is preserved by every step: one proof step per action.   *)

\* Each action keeps every variable in its type.
LEMMA TypeStep ==
  ASSUME TypeOK, [Next]_vars
  PROVE  TypeOK'
<1> USE AccountsAssumption, ProcsAssumption, BoundsAssumption
    DEF Runs, Consumers, Procs, TypeOK, ControlStates, Entry, Stored, vars
<1>1. ASSUME NEW r \in Runs, StartRun(r) PROVE TypeOK'
  BY <1>1 DEF StartRun, Goto
<1>2. ASSUME NEW r \in Runs, NEW a \in Accounts, ProcessAccount(r, a) PROVE TypeOK'
  <2>1. PICK R \in SUBSET {k \in Keys : <<a, k>> \in Rows} :
          /\ raw' = [k \in Keys |-> IF k \in R \ Stored THEN a ELSE raw[k]]
          /\ fresh' = [fresh EXCEPT ![r] = @ \cup InsertedRows(R)]
          /\ seen' = seen \cup {<<a, k>> : k \in R}
    BY <1>2 DEF ProcessAccount
  <2>2. pending' \in [Runs -> SUBSET Accounts]
    BY <1>2 DEF ProcessAccount
  <2>3. raw' \in [Keys -> Accounts \cup {None}]
    BY <2>1
  <2>4. fresh' \in [Runs -> SUBSET Keys]
    BY <2>1 DEF InsertedRows
  <2>5. seen' \subseteq Rows
    BY <2>1
  <2> QED
    BY <1>2, <2>2, <2>3, <2>4, <2>5 DEF ProcessAccount
<1>3. ASSUME NEW r \in Runs, AccountsDone(r) PROVE TypeOK'
  BY <1>3 DEF AccountsDone, Goto, KrwFresh
<1>4. ASSUME NEW r \in Runs, MarkFxDispatched(r) PROVE TypeOK'
  BY <1>4 DEF MarkFxDispatched, Goto, FxFresh, AfterMarkFx
<1>5. ASSUME NEW r \in Runs, Die(r) PROVE TypeOK'
  BY <1>5 DEF Die
<1>6. ASSUME NEW f \in FetchRuns, SendTaskBatch(f) PROVE TypeOK'
  BY <1>6 DEF SendTaskBatch, Chunk
<1>7. ASSUME NEW f \in FetchRuns, MarkKrwDispatched(f) PROVE TypeOK'
  BY <1>7 DEF MarkKrwDispatched, Goto, KrwFresh
<1>8. ASSUME NEW c \in Consumers, NEW k \in Keys, CheckRow(c, k) PROVE TypeOK'
  BY <1>8 DEF CheckRow, Classifiable
<1>9. ASSUME NEW c \in Consumers, NEW st \in {"certain", "uncertain"}, SaveEntry(c, st) PROVE TypeOK'
  BY <1>9 DEF SaveEntry, Goto, AfterSave
<1>10. ASSUME NEW c \in Consumers, NEW k \in Keys, RowFails(c, k) PROVE TypeOK'
  BY <1>10 DEF RowFails
<1>11. ASSUME NEW c \in Consumers, ProjectEntry(c) PROVE TypeOK'
  BY <1>11 DEF ProjectEntry, Goto, EntriesOf
<1>12. ASSUME NEW s \in SyncRuns, SyncDone(s) PROVE TypeOK'
  BY <1>12 DEF SyncDone, Goto
<1>13. ASSUME NEW w \in Workers, ReturnFailures(w) PROVE TypeOK'
  BY <1>13 DEF ReturnFailures, EndInvocation, BatchItemFailures
<1>14. ASSUME NEW w \in Workers, KillWorker(w) PROVE TypeOK'
  BY <1>14 DEF KillWorker, EndInvocation
<1>15. ASSUME NEW w \in Workers, NEW B \in SUBSET Keys, Receive(w, B) PROVE TypeOK'
  BY <1>15 DEF Receive, Goto, Deliverable
<1>16. ASSUME NEW w \in Workers, NEW k \in Keys, ReceiveDuplicate(w, k) PROVE TypeOK'
  BY <1>16 DEF ReceiveDuplicate, Goto
<1>17. ASSUME NEW k \in Keys, MoveToDlq(k) PROVE TypeOK'
  BY <1>17 DEF MoveToDlq, Exhausted
<1>18. CASE UNCHANGED vars
  BY <1>18
<1> HIDE DEF Runs, Consumers, Procs, TypeOK, ControlStates, Entry, Stored, vars
<1> QED
  BY <1>1, <1>2, <1>3, <1>4, <1>5, <1>6, <1>7, <1>8, <1>9, <1>10, <1>11, <1>12, <1>13, <1>14,
     <1>15, <1>16, <1>17, <1>18
  DEF Next, RunStep, FetchStep, ClassifyStep

\* A row keeps its owner.
LEMMA OwnershipStep ==
  ASSUME TypeOK, Ownership, KrwOnly, [Next]_vars
  PROVE  Ownership'
<1> USE AccountsAssumption, ProcsAssumption
    DEF Runs, Consumers, Procs, TypeOK, Ownership, KrwOnly, Stored, KrwRows, Queued,
        AtEntry, vars
<1>1. ASSUME NEW r \in Runs, StartRun(r) PROVE Ownership'
  BY <1>1 DEF StartRun, Goto
<1>2. ASSUME NEW r \in Runs, NEW a \in Accounts, ProcessAccount(r, a) PROVE Ownership'
  <2>1. PICK R \in SUBSET {k \in Keys : <<a, k>> \in Rows} :
          /\ raw' = [k \in Keys |-> IF k \in R \ Stored THEN a ELSE raw[k]]
          /\ fresh' = [fresh EXCEPT ![r] = @ \cup (R \ Stored)]
    BY <1>2 DEF ProcessAccount, InsertedRows
  <2>2. a # None /\ Stored' = Stored \cup R
    <3>1. Stored' = {k \in Keys : raw'[k] # None}
      OBVIOUS
    <3>2. \A k \in Keys : raw'[k] # None <=> k \in Stored \/ k \in R
      BY <2>1
    <3>3. R \subseteq Keys /\ Stored \subseteq Keys /\ a # None
      OBVIOUS
    <3> HIDE DEF Runs, TypeOK, Ownership, KrwOnly, Stored, KrwRows, Queued, AtEntry
    <3> QED
      BY <3>1, <3>2, <3>3
  <2>3. /\ fresh'[r] = fresh[r] \cup (R \ Stored)
        /\ \A q \in Runs \ {r} : fresh'[q] = fresh[q]
    BY <2>1
  <2>4. pc[r] = "fetch" /\ msg' = msg /\ pc' = pc /\ todo' = todo /\ cur' = cur
    BY <1>2 DEF ProcessAccount
  <2>5. \A k \in R \ Stored : msg[k] = "none"
    OBVIOUS
  <2> HIDE DEF Stored, TypeOK, KrwOnly, KrwRows
  <2>6. \A q1, q2 \in Runs : q1 # q2 => fresh'[q1] \cap fresh'[q2] = {}
    BY <2>3
  <2>7. \A q \in Runs : todo'[q] \subseteq fresh'[q] /\ fresh'[q] \subseteq Stored'
    BY <2>2, <2>3, <2>4
  <2>8. \A s \in SyncRuns : AtEntry(s)' => cur'[s] \in fresh'[s]
    BY <2>3, <2>4
  <2>9. \A k \in Queued' : \E f \in FetchRuns : k \in fresh'[f]
    BY <2>3, <2>4
  <2>10. \A f \in FetchRuns : \A k \in fresh'[f] :
           pc'[f] \in {"idle", "fetch"} \/ k \in todo'[f] => msg'[k] = "none"
    BY <2>3, <2>4, <2>5
  <2>11. ASSUME NEW k \in Stored' PROVE <<raw'[k], k>> \in Rows
    <3>1. CASE k \in R \ Stored
      BY <2>1, <3>1
    <3>2. CASE k \in Stored
      BY <2>1, <3>2 DEF Stored
    <3> QED
      BY <2>2, <3>1, <3>2
  <2> QED
    BY <2>6, <2>7, <2>8, <2>9, <2>10, <2>11
<1>3. ASSUME NEW r \in Runs, AccountsDone(r) PROVE Ownership'
  BY <1>3 DEF AccountsDone, Goto, KrwFresh
<1>4. ASSUME NEW r \in Runs, MarkFxDispatched(r) PROVE Ownership'
  BY <1>4 DEF MarkFxDispatched, Goto, FxFresh, AfterMarkFx
<1>5. ASSUME NEW r \in Runs, Die(r) PROVE Ownership'
  BY <1>5 DEF Die
<1>6. ASSUME NEW f \in FetchRuns, SendTaskBatch(f) PROVE Ownership'
  BY <1>6 DEF SendTaskBatch, Chunk
<1>7. ASSUME NEW f \in FetchRuns, MarkKrwDispatched(f) PROVE Ownership'
  BY <1>7 DEF MarkKrwDispatched, Goto, KrwFresh
<1>8. ASSUME NEW c \in Consumers, NEW k \in Keys, CheckRow(c, k) PROVE Ownership'
  BY <1>8 DEF CheckRow, Classifiable
<1>9. ASSUME NEW c \in Consumers, NEW st \in {"certain", "uncertain"}, SaveEntry(c, st) PROVE Ownership'
  BY <1>9 DEF SaveEntry, Goto, AfterSave
<1>10. ASSUME NEW c \in Consumers, NEW k \in Keys, RowFails(c, k) PROVE Ownership'
  BY <1>10 DEF RowFails
<1>11. ASSUME NEW c \in Consumers, ProjectEntry(c) PROVE Ownership'
  BY <1>11 DEF ProjectEntry, Goto, EntriesOf
<1>12. ASSUME NEW s \in SyncRuns, SyncDone(s) PROVE Ownership'
  BY <1>12 DEF SyncDone, Goto
<1>13. ASSUME NEW w \in Workers, ReturnFailures(w) PROVE Ownership'
  BY <1>13 DEF ReturnFailures, EndInvocation, BatchItemFailures
<1>14. ASSUME NEW w \in Workers, KillWorker(w) PROVE Ownership'
  BY <1>14 DEF KillWorker, EndInvocation
<1>15. ASSUME NEW w \in Workers, NEW B \in SUBSET Keys, Receive(w, B) PROVE Ownership'
  BY <1>15 DEF Receive, Goto, Deliverable
<1>16. ASSUME NEW w \in Workers, NEW k \in Keys, ReceiveDuplicate(w, k) PROVE Ownership'
  BY <1>16 DEF ReceiveDuplicate, Goto
<1>17. ASSUME NEW k \in Keys, MoveToDlq(k) PROVE Ownership'
  BY <1>17 DEF MoveToDlq, Exhausted
<1>18. CASE UNCHANGED vars
  BY <1>18
<1> HIDE DEF Runs, Consumers, Procs, TypeOK, Ownership, KrwOnly, Stored, KrwRows, Queued,
             AtEntry, vars
<1> QED
  BY <1>1, <1>2, <1>3, <1>4, <1>5, <1>6, <1>7, <1>8, <1>9, <1>10, <1>11, <1>12, <1>13, <1>14,
     <1>15, <1>16, <1>17, <1>18
  DEF Next, RunStep, FetchStep, ClassifyStep

\* Only stored KRW rows are queued and classified.
LEMMA KrwOnlyStep ==
  ASSUME TypeOK, Ownership, KrwOnly, [Next]_vars
  PROVE  KrwOnly'
<1> USE AccountsAssumption, ProcsAssumption
    DEF Runs, Consumers, Procs, TypeOK, Ownership, KrwOnly, Stored, KrwRows, Queued,
        Journaled, EntriesOf, AtEntry, vars
<1>1. ASSUME NEW r \in Runs, StartRun(r) PROVE KrwOnly'
  BY <1>1 DEF StartRun, Goto
<1>2. ASSUME NEW r \in Runs, NEW a \in Accounts, ProcessAccount(r, a) PROVE KrwOnly'
  BY <1>2 DEF ProcessAccount, InsertedRows
<1>3. ASSUME NEW r \in Runs, AccountsDone(r) PROVE KrwOnly'
  BY <1>3 DEF AccountsDone, Goto, KrwFresh
<1>4. ASSUME NEW r \in Runs, MarkFxDispatched(r) PROVE KrwOnly'
  BY <1>4 DEF MarkFxDispatched, Goto, FxFresh, AfterMarkFx
<1>5. ASSUME NEW r \in Runs, Die(r) PROVE KrwOnly'
  BY <1>5 DEF Die
<1>6. ASSUME NEW f \in FetchRuns, SendTaskBatch(f) PROVE KrwOnly'
  BY <1>6 DEF SendTaskBatch, Chunk
<1>7. ASSUME NEW f \in FetchRuns, MarkKrwDispatched(f) PROVE KrwOnly'
  BY <1>7 DEF MarkKrwDispatched, Goto, KrwFresh
<1>8. ASSUME NEW c \in Consumers, NEW k \in Keys, CheckRow(c, k) PROVE KrwOnly'
  BY <1>8 DEF CheckRow, Classifiable
<1>9. ASSUME NEW c \in Consumers, NEW st \in {"certain", "uncertain"}, SaveEntry(c, st) PROVE KrwOnly'
  BY <1>9 DEF SaveEntry, Goto, AfterSave
<1>10. ASSUME NEW c \in Consumers, NEW k \in Keys, RowFails(c, k) PROVE KrwOnly'
  BY <1>10 DEF RowFails
<1>11. ASSUME NEW c \in Consumers, ProjectEntry(c) PROVE KrwOnly'
  BY <1>11 DEF ProjectEntry, Goto, EntriesOf
<1>12. ASSUME NEW s \in SyncRuns, SyncDone(s) PROVE KrwOnly'
  BY <1>12 DEF SyncDone, Goto
<1>13. ASSUME NEW w \in Workers, ReturnFailures(w) PROVE KrwOnly'
  BY <1>13 DEF ReturnFailures, EndInvocation, BatchItemFailures
<1>14. ASSUME NEW w \in Workers, KillWorker(w) PROVE KrwOnly'
  BY <1>14 DEF KillWorker, EndInvocation
<1>15. ASSUME NEW w \in Workers, NEW B \in SUBSET Keys, Receive(w, B) PROVE KrwOnly'
  BY <1>15 DEF Receive, Goto, Deliverable
<1>16. ASSUME NEW w \in Workers, NEW k \in Keys, ReceiveDuplicate(w, k) PROVE KrwOnly'
  BY <1>16 DEF ReceiveDuplicate, Goto
<1>17. ASSUME NEW k \in Keys, MoveToDlq(k) PROVE KrwOnly'
  BY <1>17 DEF MoveToDlq, Exhausted
<1>18. CASE UNCHANGED vars
  BY <1>18
<1> HIDE DEF Runs, Consumers, Procs, TypeOK, Ownership, KrwOnly, Stored, KrwRows, Queued,
             Journaled, EntriesOf, AtEntry, vars
<1> QED
  BY <1>1, <1>2, <1>3, <1>4, <1>5, <1>6, <1>7, <1>8, <1>9, <1>10, <1>11, <1>12, <1>13, <1>14,
     <1>15, <1>16, <1>17, <1>18
  DEF Next, RunStep, FetchStep, ClassifyStep

\* A saved entry makes its row journaled.
LEMMA Saved ==
  ASSUME TypeOK, NEW c \in Consumers, NEW st, SaveEntry(c, st)
  PROVE  Journaled \cup {cur[c]} \subseteq Journaled'
<1> DEFINE e == [src |-> cur[c], by |-> c, status |-> st]
<1>1. cur[c] \in Keys
  BY DEF SaveEntry, Goto, TypeOK
<1>2. entries' = entries \cup {e} /\ e.src = cur[c] /\ cur' = cur
  BY DEF SaveEntry
<1> HIDE DEF e
<1>3. e \in {x \in entries' : x.src = cur[c]}
  BY <1>2
<1>4. cur[c] \in Journaled'
  BY <1>1, <1>3 DEF Journaled, EntriesOf
<1>5. Journaled \subseteq Journaled'
  BY <1>2 DEF Journaled, EntriesOf
<1> QED
  BY <1>4, <1>5

\* No record is dropped without an entry.
LEMMA ProgressStep ==
  ASSUME TypeOK, Ownership, KrwOnly, Progress, [Next]_vars
  PROVE  Progress'
<1> USE AccountsAssumption, ProcsAssumption
    DEF Runs, Consumers, Procs, TypeOK, Ownership, KrwOnly, Progress, Stored, KrwRows,
        Queued, Journaled, EntriesOf, AtEntry, KrwFresh, vars
<1>1. ASSUME NEW r \in Runs, StartRun(r) PROVE Progress'
  BY <1>1 DEF StartRun, Goto
<1>2. ASSUME NEW r \in Runs, NEW a \in Accounts, ProcessAccount(r, a) PROVE Progress'
  BY <1>2 DEF ProcessAccount, InsertedRows
<1>3. ASSUME NEW r \in Runs, AccountsDone(r) PROVE Progress'
  BY <1>3 DEF AccountsDone, Goto, KrwFresh
<1>4. ASSUME NEW r \in Runs, MarkFxDispatched(r) PROVE Progress'
  BY <1>4 DEF MarkFxDispatched, Goto, FxFresh, AfterMarkFx
<1>5. ASSUME NEW r \in Runs, Die(r) PROVE Progress'
  BY <1>5 DEF Die
<1>6. ASSUME NEW f \in FetchRuns, SendTaskBatch(f) PROVE Progress'
  BY <1>6 DEF SendTaskBatch, Chunk
<1>7. ASSUME NEW f \in FetchRuns, MarkKrwDispatched(f) PROVE Progress'
  BY <1>7 DEF MarkKrwDispatched, Goto, KrwFresh
<1>8. ASSUME NEW c \in Consumers, NEW k \in Keys, CheckRow(c, k) PROVE Progress'
  BY <1>8 DEF CheckRow, Classifiable
<1>9. ASSUME NEW c \in Consumers, NEW st \in {"certain", "uncertain"}, SaveEntry(c, st) PROVE Progress'
  <2>1. Journaled \cup {cur[c]} \subseteq Journaled'
    BY <1>9, Saved
  <2>2. pc[c] = "save" /\ pc' = [pc EXCEPT ![c] = AfterSave(st)]
    BY <1>9 DEF SaveEntry, Goto
  <2>3. dispatched' = dispatched \cup {cur[c]} /\ UNCHANGED <<raw, msg, fresh, todo, cur, batch, failed>>
    BY <1>9 DEF SaveEntry
  <2>4. \A f \in FetchRuns : pc'[f] = "send" => KrwFresh(f)' \subseteq todo'[f] \cup Queued'
    BY <2>2, <2>3 DEF AfterSave
  <2>5. ASSUME NEW w \in Workers, NEW k \in batch'[w]
        PROVE  \/ k \in todo'[w] \cup failed'[w] \cup Journaled'
               \/ pc'[w] = "save" /\ cur'[w] = k
    <3> HIDE DEF Journaled
    <3>1. CASE w = c
      BY <2>1, <2>2, <2>3, <2>5, <3>1
    <3>2. CASE w # c
      BY <2>1, <2>2, <2>3, <2>5, <3>2
    <3> QED
      BY <3>1, <3>2
  <2>6. \A k \in Keys : msg'[k] = "deleted" => k \in Journaled'
    <3> HIDE DEF Journaled
    <3> QED
      BY <2>1, <2>3
  <2>7. dispatched' \subseteq {k \in Stored' : raw'[k] \in Foreign} \cup Journaled' \cup Queued'
    <3>1. Queued' = Queued /\ Stored' = Stored /\ raw' = raw /\ cur[c] \in Journaled'
      BY <2>1, <2>3
    <3> HIDE DEF Journaled, Queued, Stored
    <3> QED
      BY <2>1, <2>3, <3>1
  <2> HIDE DEF Journaled
  <2> QED
    BY <2>4, <2>5, <2>6, <2>7
<1>10. ASSUME NEW c \in Consumers, NEW k \in Keys, RowFails(c, k) PROVE Progress'
  BY <1>10 DEF RowFails
<1>11. ASSUME NEW c \in Consumers, ProjectEntry(c) PROVE Progress'
  BY <1>11 DEF ProjectEntry, Goto, EntriesOf
<1>12. ASSUME NEW s \in SyncRuns, SyncDone(s) PROVE Progress'
  BY <1>12 DEF SyncDone, Goto
<1>13. ASSUME NEW w \in Workers, ReturnFailures(w) PROVE Progress'
  <2>1. /\ pc[w] = "classify" /\ todo[w] = {}
        /\ msg' = [k \in Keys |-> IF k \notin batch[w] \/ msg[k] = "deleted" THEN msg[k]
                                  ELSE IF k \in failed[w] THEN "visible" ELSE "deleted"]
        /\ batch' = [batch EXCEPT ![w] = {}] /\ failed' = [failed EXCEPT ![w] = {}]
        /\ todo' = [todo EXCEPT ![w] = {}] /\ cur' = [cur EXCEPT ![w] = None]
        /\ pc' = [pc EXCEPT ![w] = "idle"]
        /\ UNCHANGED <<raw, dispatched, entries, fresh>>
    BY <1>13 DEF ReturnFailures, EndInvocation, BatchItemFailures, pgVars
  <2>2. \A k \in batch[w] : k \in failed[w] \cup Journaled /\ k \in Queued
    BY <2>1
  <2>3. Journaled' = Journaled /\ Stored' = Stored
    BY <2>1
  <2>4. Queued' = Queued
    BY <2>1, <2>2
  <2>5. \A k \in Keys : msg'[k] = "deleted" => k \in Journaled
    BY <2>1, <2>2
  <2>6. \A f \in FetchRuns : pc'[f] = pc[f] /\ todo'[f] = todo[f]
    BY <2>1
  <2>7. \A v \in Workers \ {w} : /\ batch'[v] = batch[v] /\ todo'[v] = todo[v]
                                  /\ failed'[v] = failed[v] /\ cur'[v] = cur[v] /\ pc'[v] = pc[v]
    BY <2>1
  <2>8. batch'[w] = {}
    BY <2>1
  <2>9. /\ \A f \in FetchRuns : pc'[f] = "send" => KrwFresh(f)' \subseteq todo'[f] \cup Queued'
        /\ dispatched' \subseteq {k \in Stored' : raw'[k] \in Foreign} \cup Journaled' \cup Queued'
    BY <2>1, <2>3, <2>4, <2>6
  <2> HIDE DEF Journaled, Queued, Stored, KrwFresh
  <2> QED
    BY <2>3, <2>5, <2>7, <2>8, <2>9
<1>14. ASSUME NEW w \in Workers, KillWorker(w) PROVE Progress'
  BY <1>14 DEF KillWorker, EndInvocation
<1>15. ASSUME NEW w \in Workers, NEW B \in SUBSET Keys, Receive(w, B) PROVE Progress'
  BY <1>15 DEF Receive, Goto, Deliverable
<1>16. ASSUME NEW w \in Workers, NEW k \in Keys, ReceiveDuplicate(w, k) PROVE Progress'
  BY <1>16 DEF ReceiveDuplicate, Goto
<1>17. ASSUME NEW k \in Keys, MoveToDlq(k) PROVE Progress'
  BY <1>17 DEF MoveToDlq, Exhausted
<1>18. CASE UNCHANGED vars
  BY <1>18
<1> HIDE DEF Runs, Consumers, Procs, TypeOK, Ownership, KrwOnly, Progress, Stored, KrwRows,
             Queued, Journaled, EntriesOf, AtEntry, KrwFresh, vars
<1> QED
  BY <1>1, <1>2, <1>3, <1>4, <1>5, <1>6, <1>7, <1>8, <1>9, <1>10, <1>11, <1>12, <1>13, <1>14,
     <1>15, <1>16, <1>17, <1>18
  DEF Next, RunStep, FetchStep, ClassifyStep

\* Only certain entries are projected.
LEMMA ProjectionStep ==
  ASSUME TypeOK, Projection, [Next]_vars
  PROVE  Projection'
<1> USE AccountsAssumption, ProcsAssumption
    DEF Runs, Consumers, Procs, TypeOK, Projection, CacheIsPosted, Journaled, EntriesOf,
        Entry, vars
<1>1. ASSUME NEW r \in Runs, StartRun(r) PROVE Projection'
  BY <1>1 DEF StartRun, Goto
<1>2. ASSUME NEW r \in Runs, NEW a \in Accounts, ProcessAccount(r, a) PROVE Projection'
  BY <1>2 DEF ProcessAccount, InsertedRows
<1>3. ASSUME NEW r \in Runs, AccountsDone(r) PROVE Projection'
  BY <1>3 DEF AccountsDone, Goto, KrwFresh
<1>4. ASSUME NEW r \in Runs, MarkFxDispatched(r) PROVE Projection'
  BY <1>4 DEF MarkFxDispatched, Goto, FxFresh, AfterMarkFx
<1>5. ASSUME NEW r \in Runs, Die(r) PROVE Projection'
  BY <1>5 DEF Die
<1>6. ASSUME NEW f \in FetchRuns, SendTaskBatch(f) PROVE Projection'
  BY <1>6 DEF SendTaskBatch, Chunk
<1>7. ASSUME NEW f \in FetchRuns, MarkKrwDispatched(f) PROVE Projection'
  BY <1>7 DEF MarkKrwDispatched, Goto, KrwFresh
<1>8. ASSUME NEW c \in Consumers, NEW k \in Keys, CheckRow(c, k) PROVE Projection'
  BY <1>8 DEF CheckRow, Classifiable
<1>9. ASSUME NEW c \in Consumers, NEW st \in {"certain", "uncertain"}, SaveEntry(c, st) PROVE Projection'
  BY <1>9 DEF SaveEntry, Goto, AfterSave
<1>10. ASSUME NEW c \in Consumers, NEW k \in Keys, RowFails(c, k) PROVE Projection'
  BY <1>10 DEF RowFails
<1>11. ASSUME NEW c \in Consumers, ProjectEntry(c) PROVE Projection'
  BY <1>11 DEF ProjectEntry, Goto, EntriesOf
<1>12. ASSUME NEW s \in SyncRuns, SyncDone(s) PROVE Projection'
  BY <1>12 DEF SyncDone, Goto
<1>13. ASSUME NEW w \in Workers, ReturnFailures(w) PROVE Projection'
  BY <1>13 DEF ReturnFailures, EndInvocation, BatchItemFailures
<1>14. ASSUME NEW w \in Workers, KillWorker(w) PROVE Projection'
  BY <1>14 DEF KillWorker, EndInvocation
<1>15. ASSUME NEW w \in Workers, NEW B \in SUBSET Keys, Receive(w, B) PROVE Projection'
  BY <1>15 DEF Receive, Goto, Deliverable
<1>16. ASSUME NEW w \in Workers, NEW k \in Keys, ReceiveDuplicate(w, k) PROVE Projection'
  BY <1>16 DEF ReceiveDuplicate, Goto
<1>17. ASSUME NEW k \in Keys, MoveToDlq(k) PROVE Projection'
  BY <1>17 DEF MoveToDlq, Exhausted
<1>18. CASE UNCHANGED vars
  BY <1>18
<1> HIDE DEF Runs, Consumers, Procs, TypeOK, Projection, CacheIsPosted, Journaled,
             EntriesOf, Entry, vars
<1> QED
  BY <1>1, <1>2, <1>3, <1>4, <1>5, <1>6, <1>7, <1>8, <1>9, <1>10, <1>11, <1>12, <1>13, <1>14,
     <1>15, <1>16, <1>17, <1>18
  DEF Next, RunStep, FetchStep, ClassifyStep

\* A task is in the hands of one worker.
LEMMA CustodyStep ==
  ASSUME TypeOK, Ownership, KrwOnly, Custody, [Next]_vars, MaxDuplicates = 0
  PROVE  Custody'
<1> USE AccountsAssumption, ProcsAssumption, BoundsAssumption
    DEF Runs, Consumers, Procs, TypeOK, Ownership, KrwOnly, Custody, OneEntryPerRow,
        Stored, KrwRows, Queued, Journaled, EntriesOf, AtEntry, vars
<1>1. ASSUME NEW r \in Runs, StartRun(r) PROVE Custody'
  BY <1>1 DEF StartRun, Goto
<1>2. ASSUME NEW r \in Runs, NEW a \in Accounts, ProcessAccount(r, a) PROVE Custody'
  BY <1>2 DEF ProcessAccount, InsertedRows
<1>3. ASSUME NEW r \in Runs, AccountsDone(r) PROVE Custody'
  BY <1>3 DEF AccountsDone, Goto, KrwFresh
<1>4. ASSUME NEW r \in Runs, MarkFxDispatched(r) PROVE Custody'
  BY <1>4 DEF MarkFxDispatched, Goto, FxFresh, AfterMarkFx
<1>5. ASSUME NEW r \in Runs, Die(r) PROVE Custody'
  BY <1>5 DEF Die
<1>6. ASSUME NEW f \in FetchRuns, SendTaskBatch(f) PROVE Custody'
  BY <1>6 DEF SendTaskBatch, Chunk
<1>7. ASSUME NEW f \in FetchRuns, MarkKrwDispatched(f) PROVE Custody'
  BY <1>7 DEF MarkKrwDispatched, Goto, KrwFresh
<1>8. ASSUME NEW c \in Consumers, NEW k \in Keys, CheckRow(c, k) PROVE Custody'
  BY <1>8 DEF CheckRow, Classifiable
<1>9. ASSUME NEW c \in Consumers, NEW st \in {"certain", "uncertain"}, SaveEntry(c, st) PROVE Custody'
  <2> DEFINE new == [src |-> cur[c], by |-> c, status |-> st]
  <2>1. /\ pc[c] = "save" /\ pc' = [pc EXCEPT ![c] = AfterSave(st)]
        /\ entries' = entries \cup {new} /\ new.src = cur[c]
        /\ msg' = msg /\ todo' = todo /\ batch' = batch /\ cur' = cur
    BY <1>9 DEF SaveEntry, Goto
  <2>2. AfterSave(st) \notin {"save"}
    BY DEF AfterSave
  <2>3. cur[c] \in Keys \ Journaled
    BY <2>1
  \* Nobody else is about to write an entry of the same row.
  <2>4. \A d \in Consumers \ {c} : pc[d] = "save" => cur[d] # cur[c]
    <3>1. \A w \in Workers : pc[w] = "save" => cur[w] \in batch[w] /\ cur[w] \in Queued
      OBVIOUS
    <3>2. \A s \in SyncRuns : pc[s] = "save" => cur[s] \in fresh[s] /\ cur[s] \notin Queued
      OBVIOUS
    <3> QED
      BY <2>1, <3>1, <3>2
  <2>5. \A k \in Keys : k \in Journaled' => k \in Journaled \/ k = cur[c]
    BY <2>1
  <2>6. \A d \in Consumers : pc'[d] = "save" => cur'[d] \notin Journaled'
    BY <2>1, <2>2, <2>4, <2>5
  <2>7. OneEntryPerRow'
    <3>1. \A e \in entries : e.src # cur[c]
      BY <2>3
    <3> QED
      BY <2>1, <3>1
  <2>8. \A w \in Workers :
          /\ todo'[w] \subseteq batch'[w]
          /\ AtEntry(w)' => cur'[w] \in batch'[w]
          /\ \A k \in batch'[w] : msg'[k] = "inflight"
    BY <2>1
  <2>9. \A v, w \in Workers : v # w => batch'[v] \cap batch'[w] = {}
    BY <2>1
  <2> QED
    BY <2>6, <2>7, <2>8, <2>9
<1>10. ASSUME NEW c \in Consumers, NEW k \in Keys, RowFails(c, k) PROVE Custody'
  BY <1>10 DEF RowFails
<1>11. ASSUME NEW c \in Consumers, ProjectEntry(c) PROVE Custody'
  BY <1>11 DEF ProjectEntry, Goto, EntriesOf
<1>12. ASSUME NEW s \in SyncRuns, SyncDone(s) PROVE Custody'
  BY <1>12 DEF SyncDone, Goto
<1>13. ASSUME NEW w \in Workers, ReturnFailures(w) PROVE Custody'
  BY <1>13 DEF ReturnFailures, EndInvocation, BatchItemFailures
<1>14. ASSUME NEW w \in Workers, KillWorker(w) PROVE Custody'
  BY <1>14 DEF KillWorker, EndInvocation
<1>15. ASSUME NEW w \in Workers, NEW B \in SUBSET Keys, Receive(w, B) PROVE Custody'
  BY <1>15 DEF Receive, Goto, Deliverable
<1>16. ASSUME NEW w \in Workers, NEW k \in Keys, ReceiveDuplicate(w, k) PROVE Custody'
  BY <1>16 DEF ReceiveDuplicate, Goto
<1>17. ASSUME NEW k \in Keys, MoveToDlq(k) PROVE Custody'
  BY <1>17 DEF MoveToDlq, Exhausted
<1>18. CASE UNCHANGED vars
  BY <1>18
<1> HIDE DEF Runs, Consumers, Procs, TypeOK, Ownership, KrwOnly, Custody, OneEntryPerRow,
             Stored, KrwRows, Queued, Journaled, EntriesOf, AtEntry, vars
<1> QED
  BY <1>1, <1>2, <1>3, <1>4, <1>5, <1>6, <1>7, <1>8, <1>9, <1>10, <1>11, <1>12, <1>13, <1>14,
     <1>15, <1>16, <1>17, <1>18
  DEF Next, RunStep, FetchStep, ClassifyStep
---------------------------------------------------------------------------
(* The theorems.                                                           *)

\* What the safety theorems follow from, next to the types.
Inv == Ownership /\ KrwOnly /\ Progress /\ Projection

\* Nothing is stored, queued or running at the start.
LEMMA Initially == Init => TypeOK /\ Inv /\ Custody
<1> SUFFICES ASSUME Init PROVE TypeOK /\ Inv /\ Custody
  OBVIOUS
<1> USE ProcsAssumption DEF Init, Runs, Consumers, Procs, Stored
<1>1. TypeOK
  BY BoundsAssumption DEF TypeOK, ControlStates
<1>2. Ownership
  BY DEF Ownership, Queued, AtEntry
<1>3. KrwOnly
  BY DEF KrwOnly, KrwRows, Queued, AtEntry, Journaled, EntriesOf
<1>4. Progress
  BY DEF Progress, KrwFresh
<1>5. Projection
  BY DEF Projection, CacheIsPosted
<1>6. Custody
  BY DEF Custody, AtEntry, OneEntryPerRow
<1> QED
  BY <1>1, <1>2, <1>3, <1>4, <1>5, <1>6 DEF Inv

\* Every variable keeps its type, and a consumer that writes has a row to write about.
THEOREM TypeCorrect == Spec => []TypeOK
<1> QED
  BY Initially, TypeStep, PTL DEF Spec

\* The inductive invariant holds in every behaviour, duplicate deliveries included.
LEMMA Inductive == Spec => []Inv
<1>1. TypeOK /\ Inv /\ [Next]_vars => Inv'
  BY OwnershipStep, KrwOnlyStep, ProgressStep, ProjectionStep DEF Inv
<1> QED
  BY Initially, TypeCorrect, <1>1, PTL DEF Spec

\* However runs overlap and messages are delivered, a stored row has one owner.
THEOREM RowsHaveOneOwner == Spec => []SingleOwner
<1>1. Inv => SingleOwner
  BY DEF Inv, Ownership, SingleOwner, Queued
<1> QED
  BY Inductive, <1>1, PTL

\* No FX row is ever queued or journaled.
THEOREM FxStaysOut == Spec => []FxNeverJournaled
<1>1. Inv => FxNeverJournaled
  BY DEF Inv, KrwOnly, KrwRows, Queued, FxNeverJournaled
<1> QED
  BY Inductive, <1>1, PTL

\* Failing batches, killed workers and duplicate deliveries lose no dispatched row.
THEOREM NoDispatchedRowIsLost == Spec => []DispatchedNotLost
<1>1. TypeOK /\ Inv => DispatchedNotLost
  BY DEF TypeOK, Inv, Progress, Queued, DispatchedNotLost
<1> QED
  BY TypeCorrect, Inductive, <1>1, PTL

\* The TransactionCache never shows an entry that is not committed and certain.
THEOREM CacheShowsPostedEntries == Spec => []CacheIsPosted
<1>1. Inv => CacheIsPosted
  BY DEF Inv, Projection
<1> QED
  BY Inductive, <1>1, PTL

\* As long as SQS delivers no message twice, each task stays with one worker.
LEMMA InCustody == ASSUME MaxDuplicates = 0 PROVE Spec => []Custody
<1>1. TypeOK /\ Inv /\ Custody /\ [Next]_vars => Custody'
  BY CustodyStep DEF Inv
<1> QED
  BY Initially, TypeCorrect, Inductive, <1>1, PTL DEF Spec

\* As long as SQS hands a task to one worker at a time, no row is journaled twice,
\* although nothing in PostgreSQL forbids it.
THEOREM AtMostOneEntry == ASSUME MaxDuplicates = 0 PROVE Spec => []OneEntryPerRow
<1>1. Custody => OneEntryPerRow
  BY DEF Custody
<1> QED
  BY InCustody, <1>1, PTL

---------------------------------------------------------------------------
(* The pipeline implements JournalContract.                                *)

\* The number of entries of each row, as the contract sees it.
Count == [k \in Keys |-> Cardinality(EntriesOf(k))]

\* A step of the pipeline stores rows, journals and settles one, or is a stutter.
LEMMA Refinement ==
  ASSUME TypeOK, Inv, Custody, [Next]_vars
  PROVE  [Contract!Next]_(Contract!cvars)
<1> USE AccountsAssumption, ProcsAssumption DEF Runs, Consumers, Procs, Contract!cvars, Count
<1>1. ASSUME entries' = entries PROVE Count' = Count
  BY <1>1 DEF EntriesOf
<1>2. ASSUME NEW r \in Runs, NEW a \in Accounts, ProcessAccount(r, a) PROVE Contract!Store
  <2>1. PICK R \in SUBSET {k \in Keys : <<a, k>> \in Rows} :
          raw' = [k \in Keys |-> IF k \in R \ Stored THEN a ELSE raw[k]]
    BY <1>2 DEF ProcessAccount
  <2>2. Stored' = Stored \cup (R \ Stored) /\ R \ Stored \in SUBSET (Keys \ Stored)
    BY <2>1 DEF Stored, TypeOK
  <2>3. dispatched' = dispatched /\ entries' = entries
    BY <1>2 DEF ProcessAccount
  <2> QED
    BY <1>1, <2>2, <2>3 DEF Contract!Store
<1>3. ASSUME NEW S \in SUBSET Stored, dispatched' = dispatched \cup S, raw' = raw, entries' = entries
      PROVE  Contract!Settle
  BY <1>1, <1>3 DEF Contract!Settle, Stored
<1>4. ASSUME NEW r \in Runs PROVE FxFresh(r) \in SUBSET Stored /\ KrwFresh(r) \in SUBSET Stored
  BY DEF FxFresh, KrwFresh, Inv, Ownership
<1>5. ASSUME NEW c \in Consumers, NEW st \in {"certain", "uncertain"}, SaveEntry(c, st)
      PROVE  \E k \in {r[2] : r \in {s \in Rows : s[1] \notin Foreign}} : Contract!Journal(k)
  <2> DEFINE new == [src |-> cur[c], by |-> c, status |-> st]
  <2>1. /\ pc[c] = "save" /\ raw' = raw /\ dispatched' = dispatched \cup {cur[c]}
        /\ entries' = entries \cup {new} /\ new.src = cur[c]
    BY <1>5 DEF SaveEntry, Goto
  <2> HIDE DEF new
  <2>2. PICK k \in KrwRows \ Journaled : k = cur[c]
    BY <2>1 DEF Inv, KrwOnly, Custody, AtEntry
  <2>3. k \in Keys /\ raw[k] \notin Foreign /\ <<raw[k], k>> \in Rows
    BY <2>2 DEF KrwRows, Stored, Inv, Ownership
  <2>4. EntriesOf(k) = {}
    BY <2>2, <2>3 DEF Journaled
  <2>5. EntriesOf(k)' = {new}
    BY <2>1, <2>2, <2>4 DEF EntriesOf
  <2>6. \A l \in Keys \ {k} : EntriesOf(l)' = EntriesOf(l)
    BY <2>1, <2>2 DEF EntriesOf
  <2>7. Cardinality(EntriesOf(k)) = 0 /\ Cardinality(EntriesOf(k)') = 1
    BY <2>4, <2>5, FS_EmptySet, FS_Singleton
  <2>8. Count[k] = 0 /\ Count' = [Count EXCEPT ![k] = 1]
    BY <2>3, <2>6, <2>7
  <2>9. Stored' = Stored /\ k \in Stored
    BY <2>1, <2>2 DEF Stored, KrwRows
  <2>10. Contract!Journal(k)
    BY <2>1, <2>2, <2>8, <2>9 DEF Contract!Journal
  <2> QED
    BY <2>3, <2>10
<1>6. ASSUME UNCHANGED pgVars PROVE UNCHANGED Contract!cvars
  BY <1>1, <1>6 DEF Stored
<1>7. ASSUME NEW r \in Runs, StartRun(r) \/ AccountsDone(r) \/ Die(r) PROVE UNCHANGED pgVars
  BY <1>7 DEF StartRun, AccountsDone, Die
<1>8. ASSUME NEW r \in Runs, MarkFxDispatched(r) PROVE Contract!Settle
  BY <1>3, <1>4, <1>8 DEF MarkFxDispatched
<1>9. ASSUME NEW f \in FetchRuns, SendTaskBatch(f) PROVE UNCHANGED pgVars
  BY <1>9 DEF SendTaskBatch
<1>10. ASSUME NEW f \in FetchRuns, MarkKrwDispatched(f) PROVE Contract!Settle
  BY <1>3, <1>4, <1>10 DEF MarkKrwDispatched
<1>11. ASSUME NEW c \in Consumers, NEW k \in Keys, CheckRow(c, k) \/ RowFails(c, k) PROVE UNCHANGED pgVars
  BY <1>11 DEF CheckRow, RowFails
<1>12. ASSUME NEW c \in Consumers, ProjectEntry(c) PROVE UNCHANGED pgVars
  BY <1>12 DEF ProjectEntry
<1>13. ASSUME NEW s \in SyncRuns, SyncDone(s) PROVE UNCHANGED pgVars
  BY <1>13 DEF SyncDone
<1>14. ASSUME NEW w \in Workers, ReturnFailures(w) \/ KillWorker(w) PROVE UNCHANGED pgVars
  BY <1>14 DEF ReturnFailures, KillWorker, EndInvocation
<1>15. ASSUME NEW w \in Workers, NEW B \in SUBSET Keys, Receive(w, B) PROVE UNCHANGED pgVars
  BY <1>15 DEF Receive
<1>16. ASSUME NEW w \in Workers, NEW k \in Keys, ReceiveDuplicate(w, k) PROVE UNCHANGED pgVars
  BY <1>16 DEF ReceiveDuplicate
<1>17. ASSUME NEW k \in Keys, MoveToDlq(k) PROVE UNCHANGED pgVars
  BY <1>17 DEF MoveToDlq
<1>18. CASE UNCHANGED vars
  BY <1>6, <1>18 DEF vars
<1> HIDE DEF Runs, Consumers, Procs, pgVars, Count, Contract!cvars
<1> QED
  BY <1>2, <1>5, <1>6, <1>7, <1>8, <1>9, <1>10, <1>11, <1>12, <1>13, <1>14, <1>15, <1>16, <1>17, <1>18
  DEF Next, RunStep, FetchStep, ClassifyStep, Contract!Next

\* Each row is stored once, journaled at most once, only if it is a KRW row, and
\* settled in the same step: what JournalContract promises.
THEOREM PipelineImplementsContract == ASSUME MaxDuplicates = 0 PROVE Spec => ImplementsContract
<1>1. Init => Contract!Init
  <2> SUFFICES ASSUME Init PROVE Contract!Init
    OBVIOUS
  <2>1. Stored = {} /\ dispatched = {} /\ \A k \in Keys : EntriesOf(k) = {}
    BY DEF Init, Stored, EntriesOf
  <2> QED
    BY <2>1, FS_EmptySet DEF Contract!Init
<1>2. TypeOK /\ Inv /\ Custody /\ [Next]_vars => [Contract!Next]_(Contract!cvars)
  BY Refinement
<1> QED
  BY <1>1, <1>2, TypeCorrect, Inductive, InCustody, PTL DEF Spec, ImplementsContract, Contract!Spec
---------------------------------------------------------------------------
(* No row is stranded by a run that does not fail.                         *)

\* A step that stores nothing and keeps what is queued and journaled need only say of
\* a run that does not fail what it does with the rows ahead of it.
LEMMA KeptOn ==
  ASSUME TypeOK, Kept, raw' = raw, fresh' = fresh, Journaled \subseteq Journaled', Queued \subseteq Queued',
         \A r \in Runs \ Faulty :
           /\ pc'[r] # "dead"
           /\ pc'[r] = "done" \/ (pc'[r] = "markFx" /\ r \in FetchRuns) => todo'[r] = {},
         \A r \in Runs \ Faulty, k \in KrwRows \ (Journaled \cup Queued) :
           k \in fresh[r] /\ Ahead(r, k) => k \in Journaled' \cup Queued' \/ Ahead(r, k)'
  PROVE  Kept'
<1>1. KrwRows' = KrwRows
  BY DEF KrwRows, Stored
<1>2. ASSUME NEW k \in KrwRows \ (Journaled' \cup Queued')
      PROVE  \E r \in Runs : k \in fresh'[r] /\ (r \in Faulty \/ Ahead(r, k)')
  <2>1. PICK r \in Runs : k \in fresh[r] /\ (r \in Faulty \/ Ahead(r, k))
    BY <1>2 DEF Kept
  <2> QED
    BY <1>2, <2>1
<1> QED
  BY <1>1, <1>2 DEF Kept

LEMMA KeptStep ==
  ASSUME TypeOK, Ownership, KrwOnly, Progress, Kept, [Next]_vars
  PROVE  Kept'
<1> USE AccountsAssumption, ProcsAssumption DEF Runs, Consumers, Procs, TypeOK
<1>1. ASSUME NEW r \in Runs, NEW a \in Accounts, ProcessAccount(r, a) PROVE Kept'
  <2>1. PICK R \in SUBSET {k \in Keys : <<a, k>> \in Rows} :
          /\ raw' = [k \in Keys |-> IF k \in R \ Stored THEN a ELSE raw[k]]
          /\ fresh' = [fresh EXCEPT ![r] = @ \cup (R \ Stored)]
    BY <1>1 DEF ProcessAccount, InsertedRows
  <2>2. /\ pc[r] = "fetch"
        /\ UNCHANGED <<entries, msg, pc, todo, cur>>
    BY <1>1 DEF ProcessAccount
  <2>3. Journaled' = Journaled /\ Queued' = Queued
    BY <2>2 DEF Journaled, Queued, EntriesOf
  <2>4. ASSUME NEW k \in KrwRows' \ (Journaled \cup Queued)
        PROVE  \E q \in Runs : k \in fresh'[q] /\ (q \in Faulty \/ Ahead(q, k)')
    <3>1. CASE k \in R \ Stored
      <4>1. k \in fresh'[r]
        BY <2>1, <3>1
      <4>2. Ahead(r, k)'
        BY <2>2 DEF Ahead
      <4> QED
        BY <4>1, <4>2
    <3>2. CASE k \notin R \ Stored
      <4>1. k \in KrwRows
        BY <2>1, <3>2 DEF KrwRows, Stored
      <4>2. PICK q \in Runs : k \in fresh[q] /\ (q \in Faulty \/ Ahead(q, k))
        BY <2>4, <4>1 DEF Kept
      <4>3. Ahead(q, k)' <=> Ahead(q, k)
        BY <2>2 DEF Ahead
      <4> QED
        BY <2>1, <4>2, <4>3
    <3> QED
      BY <3>1, <3>2
  <2> QED
    BY <2>2, <2>3, <2>4 DEF Kept
<1>2. ASSUME NEW r \in Runs, StartRun(r) PROVE Kept'
  BY <1>2, KeptOn DEF StartRun, Goto, Ahead, Queued, Journaled, EntriesOf, Kept
<1>3. ASSUME NEW r \in Runs, AccountsDone(r) PROVE Kept'
  <2>1. /\ pc[r] = "fetch" /\ pc' = [pc EXCEPT ![r] = IF r \in FetchRuns THEN "send" ELSE "markFx"]
        /\ todo' = [todo EXCEPT ![r] = KrwFresh(r)]
        /\ UNCHANGED <<raw, fresh, cur, msg, entries>>
    BY <1>3 DEF AccountsDone, Goto
  <2>2. Journaled' = Journaled /\ Queued' = Queued
    BY <2>1 DEF Journaled, Queued, EntriesOf
  <2>3. ASSUME NEW q \in Runs \ Faulty
        PROVE  /\ pc'[q] # "dead"
               /\ pc'[q] = "done" \/ (pc'[q] = "markFx" /\ q \in FetchRuns) => todo'[q] = {}
    BY <2>1 DEF Kept
  <2>4. ASSUME NEW q \in Runs \ Faulty, NEW k \in KrwRows \ (Journaled \cup Queued),
               k \in fresh[q], Ahead(q, k)
        PROVE  Ahead(q, k)'
    <3>1. CASE q = r
      BY <2>1, <2>4, <3>1 DEF Ahead, KrwFresh, KrwRows
    <3>2. CASE q # r
      BY <2>1, <2>4, <3>2 DEF Ahead
    <3> QED
      BY <3>1, <3>2
  <2> QED
    BY <2>1, <2>2, <2>3, <2>4, KeptOn
<1>4. ASSUME NEW r \in Runs, MarkFxDispatched(r) PROVE Kept'
  BY <1>4, KeptOn DEF MarkFxDispatched, Goto, AfterMarkFx, Ahead, Queued, Journaled, EntriesOf, Kept
<1>5. ASSUME NEW r \in Runs, Die(r) PROVE Kept'
  BY <1>5, KeptOn DEF Die, Ahead, Queued, Journaled, EntriesOf, Kept
<1>6. ASSUME NEW f \in FetchRuns, SendTaskBatch(f) PROVE Kept'
  <2>1. PICK C \in SUBSET todo[f] : \E accepted \in SUBSET C :
          /\ accepted # C => f \in Faulty
          /\ msg' = [k \in Keys |-> IF k \in accepted THEN "visible" ELSE msg[k]]
          /\ todo' = [todo EXCEPT ![f] = @ \ C]
          /\ pc' = [pc EXCEPT ![f] = IF accepted = C THEN "send" ELSE "dead"]
    BY <1>6 DEF SendTaskBatch, Chunk
  <2>2. PICK accepted \in SUBSET C :
          /\ accepted # C => f \in Faulty
          /\ msg' = [k \in Keys |-> IF k \in accepted THEN "visible" ELSE msg[k]]
          /\ todo' = [todo EXCEPT ![f] = @ \ C]
          /\ pc' = [pc EXCEPT ![f] = IF accepted = C THEN "send" ELSE "dead"]
    BY <2>1
  <2>3. pc[f] = "send" /\ UNCHANGED <<raw, fresh, cur, entries>>
    BY <1>6 DEF SendTaskBatch
  <2>4. Journaled' = Journaled
    BY <2>3 DEF Journaled, EntriesOf
  <2>5. Queued \cup accepted \subseteq Queued'
    BY <2>2 DEF Queued
  <2>6. ASSUME NEW q \in Runs \ Faulty
        PROVE  /\ pc'[q] # "dead"
               /\ pc'[q] = "done" \/ (pc'[q] = "markFx" /\ q \in FetchRuns) => todo'[q] = {}
    BY <2>2 DEF Kept
  <2>7. ASSUME NEW q \in Runs \ Faulty, NEW k \in KrwRows, Ahead(q, k)
        PROVE  k \in Queued' \/ Ahead(q, k)'
    <3>1. CASE q = f
      BY <2>2, <2>3, <2>5, <2>7, <3>1 DEF Ahead
    <3>2. CASE q # f
      BY <2>2, <2>3, <2>7, <3>2 DEF Ahead
    <3> QED
      BY <3>1, <3>2
  <2> QED
    BY <2>3, <2>4, <2>5, <2>6, <2>7, KeptOn
<1>7. ASSUME NEW f \in FetchRuns, MarkKrwDispatched(f) PROVE Kept'
  BY <1>7, KeptOn DEF MarkKrwDispatched, Goto, Ahead, Queued, Journaled, EntriesOf, Kept
<1>8. ASSUME NEW c \in Consumers, NEW k \in Keys, CheckRow(c, k) PROVE Kept'
  <2>1. /\ pc[c] = "classify" /\ todo' = [todo EXCEPT ![c] = @ \ {k}]
        /\ IF k \in Classifiable
             THEN pc' = [pc EXCEPT ![c] = "save"] /\ cur' = [cur EXCEPT ![c] = k]
             ELSE pc' = pc /\ cur' = cur
        /\ UNCHANGED <<raw, fresh, msg, entries>>
    BY <1>8 DEF CheckRow
  <2>2. Journaled' = Journaled /\ Queued' = Queued
    BY <2>1 DEF Journaled, Queued, EntriesOf
  <2>3. ASSUME NEW q \in Runs \ Faulty
        PROVE  /\ pc'[q] # "dead"
               /\ pc'[q] = "done" \/ (pc'[q] = "markFx" /\ q \in FetchRuns) => todo'[q] = {}
    BY <2>1 DEF Kept
  <2>4. ASSUME NEW q \in Runs \ Faulty, NEW l \in KrwRows \ (Journaled \cup Queued), Ahead(q, l)
        PROVE  Ahead(q, l)'
    <3>1. CASE q = c
      <4>1. q \in SyncRuns
        BY <3>1
      <4>2. l \in todo[q]
        BY <2>1, <2>4, <3>1 DEF Ahead
      <4>3. CASE l # k
        BY <2>1, <4>2, <4>3 DEF Ahead
      <4>4. CASE l = k
        BY <2>1, <3>1, <4>1, <4>4 DEF Ahead, Classifiable, KrwRows
      <4> QED
        BY <4>3, <4>4
    <3>2. CASE q # c
      BY <2>1, <2>4, <3>2 DEF Ahead
    <3> QED
      BY <3>1, <3>2
  <2> QED
    BY <2>1, <2>2, <2>3, <2>4, KeptOn
<1>9. ASSUME NEW c \in Consumers, NEW st \in {"certain", "uncertain"}, SaveEntry(c, st) PROVE Kept'
  <2>1. /\ pc[c] = "save" /\ pc' = [pc EXCEPT ![c] = AfterSave(st)]
        /\ UNCHANGED <<raw, fresh, msg, todo, cur>>
    BY <1>9 DEF SaveEntry, Goto
  <2>2. Journaled \cup {cur[c]} \subseteq Journaled'
    BY <1>9, Saved
  <2>3. Queued' = Queued /\ AfterSave(st) \in {"project", "classify"}
    BY <2>1 DEF Queued, AfterSave
  <2>4. ASSUME NEW q \in Runs \ Faulty
        PROVE  /\ pc'[q] # "dead"
               /\ pc'[q] = "done" \/ (pc'[q] = "markFx" /\ q \in FetchRuns) => todo'[q] = {}
    BY <2>1, <2>3 DEF Kept
  <2>5. ASSUME NEW q \in Runs \ Faulty, NEW l \in KrwRows, Ahead(q, l)
        PROVE  l \in Journaled' \/ Ahead(q, l)'
    <3>1. CASE q = c
      BY <2>1, <2>2, <2>5, <3>1 DEF Ahead
    <3>2. CASE q # c
      BY <2>1, <2>5, <3>2 DEF Ahead
    <3> QED
      BY <3>1, <3>2
  <2> QED
    BY <2>1, <2>2, <2>3, <2>4, <2>5, KeptOn
<1>10. ASSUME NEW c \in Consumers, NEW k \in Keys, RowFails(c, k) PROVE Kept'
  BY <1>10, KeptOn DEF RowFails, Ahead, Queued, Journaled, EntriesOf, Kept
<1>11. ASSUME NEW c \in Consumers, ProjectEntry(c) PROVE Kept'
  BY <1>11, KeptOn DEF ProjectEntry, Goto, Ahead, Queued, Journaled, EntriesOf, Kept
<1>12. ASSUME NEW s \in SyncRuns, SyncDone(s) PROVE Kept'
  BY <1>12, KeptOn DEF SyncDone, Goto, Ahead, Queued, Journaled, EntriesOf, Kept
<1>13. ASSUME NEW w \in Workers, ReturnFailures(w) PROVE Kept'
  BY <1>13, KeptOn
  DEF ReturnFailures, EndInvocation, BatchItemFailures, Ahead, Queued, Journaled, EntriesOf, Kept, Progress
<1>14. ASSUME NEW w \in Workers, KillWorker(w) PROVE Kept'
  BY <1>14, KeptOn DEF KillWorker, EndInvocation, Ahead, Queued, Journaled, EntriesOf, Kept, Progress
<1>15. ASSUME NEW w \in Workers, NEW B \in SUBSET Keys, Receive(w, B) PROVE Kept'
  <2>1. /\ pc[w] = "idle" /\ pc' = [pc EXCEPT ![w] = "classify"]
        /\ msg' = [k \in Keys |-> IF k \in B THEN "inflight" ELSE msg[k]]
        /\ todo' = [todo EXCEPT ![w] = B]
        /\ UNCHANGED <<raw, fresh, cur, entries>>
    BY <1>15 DEF Receive, Goto
  <2>2. Journaled' = Journaled /\ Queued \subseteq Queued'
    BY <2>1 DEF Journaled, Queued, EntriesOf
  <2>3. \A q \in Runs : pc'[q] = pc[q] /\ todo'[q] = todo[q]
    BY <2>1
  <2> QED
    BY <2>1, <2>2, <2>3, KeptOn DEF Kept, Ahead
<1>16. ASSUME NEW w \in Workers, NEW k \in Keys, ReceiveDuplicate(w, k) PROVE Kept'
  BY <1>16, KeptOn DEF ReceiveDuplicate, Goto, Ahead, Queued, Journaled, EntriesOf, Kept, Progress
<1>17. ASSUME NEW k \in Keys, MoveToDlq(k) PROVE Kept'
  BY <1>17, KeptOn DEF MoveToDlq, Exhausted, Ahead, Queued, Journaled, EntriesOf, Kept, Progress
<1>18. CASE UNCHANGED vars
  BY <1>18 DEF vars, Ahead, Queued, Journaled, EntriesOf, Kept, KrwRows, Stored
<1> HIDE DEF Runs, Consumers, Procs, TypeOK
<1> QED
  BY <1>1, <1>2, <1>3, <1>4, <1>5, <1>6, <1>7, <1>8, <1>9, <1>10, <1>11, <1>12, <1>13, <1>14,
     <1>15, <1>16, <1>17, <1>18
  DEF Next, RunStep, FetchStep, ClassifyStep

\* A KRW row without an entry was queued, or a run that stored it is still to queue or classify
\* it, or that run was one that may fail: nothing else leaves a row behind.
THEOREM KeptAlways == Spec => []Kept
<1>1. Init => Kept
  BY DEF Init, Kept, KrwRows, Stored, Procs
<1>2. TypeOK /\ Inv /\ Kept /\ [Next]_vars => Kept'
  BY KeptStep DEF Inv
<1> QED
  BY <1>1, <1>2, TypeCorrect, Inductive, PTL DEF Spec

\* While fetches and syncs do not fail, whatever happens to workers and messages: a KRW
\* row without an entry has a task that is still worked on, or its run is alive.
THEOREM NothingStranded == ASSUME Runs \cap Faulty = {} PROVE Spec => []NoStrandedRow
<1>1. TypeOK /\ Inv /\ Kept => NoStrandedRow
  <2> SUFFICES ASSUME TypeOK, Inv, Kept, NEW k \in Stored \ Journaled, raw[k] \notin Foreign
               PROVE  \/ msg[k] \in {"visible", "inflight", "dlq"}
                      \/ \E r \in Runs : k \in fresh[r] /\ pc[r] \notin {"done", "dead"}
    BY DEF NoStrandedRow
  <2>1. k \in KrwRows /\ k \in Keys
    BY DEF KrwRows, Stored
  <2>2. CASE k \in Queued
    BY <2>1, <2>2 DEF Queued, TypeOK, Inv, Progress
  <2>3. CASE k \notin Queued
    <3>1. PICK r \in Runs : k \in fresh[r] /\ Ahead(r, k)
      BY <2>1, <2>3 DEF Kept
    <3>2. r \in Runs \ Faulty
      BY <3>1
    <3> QED
      BY <3>1, <3>2 DEF Ahead, Kept
  <2> QED
    BY <2>2, <2>3
<1> QED
  BY <1>1, TypeCorrect, Inductive, KeptAlways, PTL
=============================================================================
