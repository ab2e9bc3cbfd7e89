------------------------------- MODULE LawCorpus -------------------------------
(***************************************************************************)
(* The monthly synchronisation of the tax laws (apps/tax-knowledge,         *)
(* packages/law-corpus-core): a state machine runs a Lambda that walks the  *)
(* registry of laws, fetches the newest revision of each, stores its        *)
(* articles in S3 and registers them in tax_law_chunk_meta, and then starts *)
(* an ingestion job of the knowledge base.  An administrator may start the  *)
(* same state machine at any time, so that runs overlap.                    *)
(*                                                                         *)
(* A law is walked in steps; every step may fail, which is counted, and the *)
(* Lambda may be killed at any of them, which is not.  Texts, ministries,   *)
(* links and dates are left out: an open row is one without effective_to.   *)
(***************************************************************************)
EXTENDS Integers, Sequences, FiniteSets

CONSTANTS
  Laws,
  Registry,     \* TARGET_LAW_REGISTRY: the order of the laws
  MaxRevision,  \* bound: the newest revision there will be of a law
  Units,        \* Units[l][v]: the units of a revision, with their number and kind
  Runs,         \* executions of the state machine
  None

Revisions == 1 .. MaxRevision
Unit      == [number : Nat \cup {None}, preface : BOOLEAN]
StateRow  == [mst : Revisions \cup {None}, failures : Nat, active : BOOLEAN]

ASSUME LawsAssumption ==
  /\ MaxRevision \in Nat \ {0} /\ Registry \in Seq(Laws) /\ Registry # << >>
  /\ \A l \in Laws : \E i \in DOMAIN Registry : Registry[i] = l
  /\ Units \in [Laws -> [Revisions -> Seq(Unit)]]
  /\ None \notin Nat /\ None \notin StateRow

VARIABLES
  newest,   \* at law.go.kr
  objects,  \* in S3: chunks and their metadata, by law, revision and article
  open,     \* rows of tax_law_chunk_meta without effective_to: copies of a revision's
  closed,   \* and those with one
  state,    \* tax_law_sync_state
  pc, at,   \* of a run: its step, and its position in the registry
  hit,      \* the revision the search has found
  put,      \* how many objects of it are stored
  job,      \* whether an ingestion job runs
  indexed,  \* chunks in the knowledge base
  outcome,  \* history: how the latest walk of a law ended
  crossed   \* history: laws two runs have walked at the same time, and none alone since

lawVars  == <<newest>>
rowVars  == <<open, closed, state>>
runVars  == <<pc, at, hit, put>>
kbVars   == <<job, indexed>>
pastVars == <<outcome, crossed>>
lawCorpusVars == <<lawVars, objects, rowVars, runVars, kbVars, pastVars>>

NoRow == [mst |-> None, failures |-> 0, active |-> TRUE]
---------------------------------------------------------------------------
(* What is made of a law's payload.                                        *)

\* Units that are no preface and have a number: a chunk for each.
Articles(l, v) == SelectSeq(Units[l][v], LAMBDA u : ~u.preface /\ u.number # None)

\* The keys of a revision's objects in the order they are put.
Kind(i)    == IF i % 2 = 1 THEN "chunk" ELSE "metadata"
Key(l, v, i) == [law |-> l, mst |-> v, kind |-> Kind(i),
                 article |-> Articles(l, v)[(i + 1) \div 2].number]
Keys(l, v) == {Key(l, v, i) : i \in 1 .. 2 * Len(Articles(l, v))}

\* Deviation: rows before objects.
RowsFirst == <<"search", "get", "close", "register", "chunks", "succeed">>
\* The steps of a law's walk.
Steps == <<"search", "get", "chunks", "close", "register", "succeed">>
Walking  == {Steps[i] : i \in DOMAIN Steps} \cup {"record"}
After(s) == Steps[(CHOOSE i \in DOMAIN Steps : Steps[i] = s) + 1]
Last(s)  == s = Steps[Len(Steps)]
---------------------------------------------------------------------------
LawCorpusInit ==
  /\ newest = [l \in Laws |-> 1]
  /\ objects = {}
  /\ open = [l \in Laws |-> [v \in Revisions |-> 0]]
  /\ closed = [l \in Laws |-> [v \in Revisions |-> 0]]
  /\ state = [l \in Laws |-> None]
  /\ pc = [r \in Runs |-> "idle"] /\ at = [r \in Runs |-> 1]
  /\ hit = [r \in Runs |-> None] /\ put = [r \in Runs |-> 0]
  /\ job = FALSE /\ indexed = {}
  /\ outcome = [l \in Laws |-> "none"]
  /\ crossed = {}

Law(r)  == Registry[at[r]]
Goto(r, s) == pc' = [pc EXCEPT ![r] = s]

\* A run comes to a law, perhaps while another is at it.
Met(r, l) ==
  crossed' = IF \E q \in Runs \ {r} : pc[q] \in Walking /\ Law(q) = l
             THEN crossed \cup {l} ELSE crossed \ {l}

\* The schedule of the month or an administrator starts the state machine.
Start(r) ==
  /\ pc[r] = "idle"
  /\ Goto(r, Steps[1])
  /\ Met(r, Law(r))
  /\ UNCHANGED <<lawVars, objects, rowVars, at, hit, put, kbVars, outcome>>

\* The next law of the registry; after the last, the Lambda returns.
NextLaw(r) ==
  IF at[r] = Len(Registry)
  THEN Goto(r, "ingest") /\ UNCHANGED <<at, crossed>>
  ELSE /\ at' = [at EXCEPT ![r] = @ + 1]
       /\ Goto(r, Steps[1])
       /\ Met(r, Registry[at[r] + 1])

\* A step of the walk that succeeds.
Done(r, s) ==
  IF Last(s) THEN NextLaw(r)
  ELSE Goto(r, After(s)) /\ UNCHANGED <<at, crossed>>

Search(r) ==
  /\ pc[r] = "search"
  /\ hit' = [hit EXCEPT ![r] = newest[Law(r)]]
  /\ put' = [put EXCEPT ![r] = 0]
  /\ Done(r, "search")
  /\ UNCHANGED <<lawVars, objects, rowVars, kbVars, outcome>>

\* The text of that revision, kept raw; nothing reads it later.
GetService(r) ==
  /\ pc[r] = "get"
  /\ Done(r, "get")
  /\ UNCHANGED <<lawVars, objects, rowVars, hit, put, kbVars, outcome>>

\* One put: a chunk, or its metadata after it.
PutChunk(r) ==
  /\ pc[r] = "chunks" /\ put[r] < 2 * Len(Articles(Law(r), hit[r]))
  /\ put' = [put EXCEPT ![r] = @ + 1]
  /\ objects' = objects \cup {Key(Law(r), hit[r], put[r] + 1)}
  /\ UNCHANGED <<lawVars, rowVars, pc, at, hit, kbVars, pastVars>>

ChunksDone(r) ==
  /\ pc[r] = "chunks" /\ put[r] = 2 * Len(Articles(Law(r), hit[r]))
  /\ Done(r, "chunks")
  /\ UNCHANGED <<lawVars, objects, rowVars, hit, put, kbVars, outcome>>

\* Deviation: nothing is closed if the revision is the one named as current.
OnceOnly(l, v) == IF state[l] # None /\ state[l].mst = v THEN {} ELSE Revisions \ {v}
\* Open rows of the other revisions, newer ones too.
Stale(l, v) == Revisions \ {v}

\* One transaction.
CloseStale(r) ==
  /\ pc[r] = "close"
  /\ LET l == Law(r)
         stale == Stale(l, hit[r])
     IN /\ closed' = [closed EXCEPT ![l] =
                       [v \in Revisions |-> IF v \in stale THEN @[v] + open[l][v] ELSE @[v]]]
        /\ open' = [open EXCEPT ![l] = [v \in Revisions |-> IF v \in stale THEN 0 ELSE @[v]]]
  /\ Done(r, "close")
  /\ UNCHANGED <<lawVars, objects, state, hit, put, kbVars, outcome>>

\* One transaction.  A row's paragraph and item are NULL, so no row conflicts with an
\* earlier one: each walk adds a copy of the revision's rows.
UpsertMany(r) ==
  /\ pc[r] = "register"
  /\ open' = IF Articles(Law(r), hit[r]) = << >> THEN open
             ELSE [open EXCEPT ![Law(r)][hit[r]] = @ + 1]
  /\ Done(r, "register")
  /\ UNCHANGED <<lawVars, objects, closed, state, hit, put, kbVars, outcome>>

Row(l) == IF state[l] = None THEN NoRow ELSE state[l]

\* The gate is not among the columns of the update.
Succeeded(l, v) == [mst |-> v, failures |-> 0, active |-> Row(l).active]

UpsertOnSuccess(r) ==
  /\ pc[r] = "succeed"
  /\ state' = [state EXCEPT ![Law(r)] = Succeeded(Law(r), hit[r])]
  /\ outcome' = [outcome EXCEPT ![Law(r)] = "ok"]
  /\ Done(r, "succeed")
  /\ UNCHANGED <<lawVars, objects, open, closed, hit, put, kbVars>>

\* A call of law.go.kr, S3 or the database fails, or the search has no hit.
StepFails(r) ==
  /\ pc[r] \in Walking \ {"record"}
  /\ Goto(r, "record")
  /\ UNCHANGED <<lawVars, objects, rowVars, at, hit, put, kbVars, pastVars>>

\* Deviation: a row there is stays as it is.
FirstOnly(l) == Row(l)
Failed(l) ==
  [mst |-> Row(l).mst, failures |-> Row(l).failures + 1, active |-> Row(l).active]

RecordFailure(r) ==
  /\ pc[r] = "record"
  /\ state' = [state EXCEPT ![Law(r)] = Failed(Law(r))]
  /\ outcome' = [outcome EXCEPT ![Law(r)] = "failed"]
  /\ NextLaw(r)
  /\ UNCHANGED <<lawVars, objects, open, closed, hit, put, kbVars>>

\* Recording a failure fails, or the five minutes of the Lambda are over: the execution
\* ends there, with the other laws not walked and no ingestion.
Die(r) ==
  /\ pc[r] \in Walking
  /\ Goto(r, "failed")
  /\ outcome' = [outcome EXCEPT ![Law(r)] = "killed"]
  /\ UNCHANGED <<lawVars, objects, rowVars, at, hit, put, kbVars, crossed>>

\* The job is started whether or not laws have failed; not while another runs.
StartIngestion(r) ==
  /\ pc[r] = "ingest"
  /\ \/ ~job /\ job' = TRUE /\ Goto(r, "done")
     \/ Goto(r, "failed") /\ UNCHANGED job
  /\ UNCHANGED <<lawVars, objects, rowVars, at, hit, put, indexed, pastVars>>

\* The job reads the chunks there are.
Ingested ==
  /\ job
  /\ job' = FALSE
  /\ indexed' = {o \in objects : o.kind = "chunk"}
  /\ UNCHANGED <<lawVars, objects, rowVars, runVars, pastVars>>

\* A new revision is promulgated.
Amend(l) ==
  /\ newest[l] < MaxRevision
  /\ newest' = [newest EXCEPT ![l] = @ + 1]
  /\ UNCHANGED <<objects, rowVars, runVars, kbVars, pastVars>>

SyncLaw(r) ==
  \/ Search(r) \/ GetService(r) \/ PutChunk(r) \/ ChunksDone(r)
  \/ CloseStale(r) \/ UpsertMany(r) \/ UpsertOnSuccess(r)
  \/ StepFails(r) \/ RecordFailure(r) \/ Die(r)

LawCorpusNext ==
  \/ \E r \in Runs : Start(r) \/ SyncLaw(r) \/ StartIngestion(r)
  \/ Ingested
  \/ \E l \in Laws : Amend(l)
---------------------------------------------------------------------------
(* Properties.                                                             *)

\* Every variable has its type.
LawCorpusTypeOK ==
  /\ newest \in [Laws -> Revisions]
  /\ \A o \in objects : o.law \in Laws /\ o.mst \in Revisions
  /\ open \in [Laws -> [Revisions -> Nat]] /\ closed \in [Laws -> [Revisions -> Nat]]
  /\ state \in [Laws -> StateRow \cup {None}]
  /\ pc \in [Runs -> Walking \cup {"idle", "ingest", "done", "failed"}]
  /\ at \in [Runs -> DOMAIN Registry] /\ hit \in [Runs -> Revisions \cup {None}]
  /\ put \in [Runs -> Nat]
  /\ job \in BOOLEAN /\ indexed \subseteq objects
  /\ outcome \in [Laws -> {"none", "ok", "failed", "killed"}]
  /\ crossed \subseteq Laws

\* A registered chunk can be fetched: whatever runs overlap, fail or are killed, rows of a
\* revision are there only when each of its articles and its metadata are stored.
RowsHaveObjects ==
  \A l \in Laws, v \in Revisions : open[l][v] + closed[l][v] > 0 => Keys(l, v) \subseteq objects

\* The revision named as current is registered, though a later or an overlapping run may
\* have closed its rows.
CurrentIsRegistered ==
  \A l \in Laws : state[l] # None /\ state[l].mst # None /\ Articles(l, state[l].mst) # << >> =>
    open[l][state[l].mst] + closed[l][state[l].mst] > 0

Between(l) == \A r \in Runs : pc[r] \in Walking => Law(r) # l

\* A walk repairs a law: when it succeeds, and no other run was at the law meanwhile, the open
\* rows are those of the revision named as current and of no other, whatever walks that
\* overlapped, failed or were killed had left open or closed before it.
SettledIsCurrent ==
  \A l \in Laws \ crossed : Between(l) /\ outcome[l] = "ok" =>
    \A v \in Revisions :
      open[l][v] > 0 <=> v = state[l].mst /\ Articles(l, v) # << >>

\* A law without open rows, because rows were closed and the new ones not written, has a
\* failure on record, if its latest walk met no other and was not killed.
GapIsSeen ==
  \A l \in Laws \ crossed : Between(l) /\ outcome[l] \in {"ok", "failed"} =>
    \/ state[l].failures > 0
    \/ state[l].mst # None /\ Articles(l, state[l].mst) = << >>
    \/ \E v \in Revisions : open[l][v] > 0
=============================================================================
