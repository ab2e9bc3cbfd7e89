--------------------------- MODULE TaxKnowledgeProofs ---------------------------
(***************************************************************************)
(* Theorems of TaxKnowledge and of LawCorpus in it, for any laws, revisions, *)
(* runs, administrators and requests: types, that registered chunks are      *)
(* stored and the current revision is registered, that a walk which meets no *)
(* other repairs its law, and that answered approvals are on record.         *)
(***************************************************************************)
EXTENDS TaxKnowledge, TLAPS

W(r, l) == pc[r] \in Walking /\ Law(r) = l

\* Laws that are not crossed have one walker at a time.
Alone ==
  \A l \in Laws \ crossed : \A r, q \in Runs : W(r, l) /\ W(q, l) => r = q

\* What the walk of a run has made so far.
Progress(r) ==
  LET l == Law(r)
      v == hit[r]
  IN /\ pc[r] \in {"get", "chunks", "close", "register", "succeed"} => v \in Revisions
     /\ pc[r] \in {"get", "chunks"} => \A i \in 1 .. put[r] : Key(l, v, i) \in objects
     /\ pc[r] \in {"close", "register", "succeed"} => Keys(l, v) \subseteq objects
     /\ pc[r] = "register" /\ l \notin crossed =>
          \A u \in Revisions \ {v} : open[l][u] = 0
     /\ pc[r] = "succeed" /\ l \notin crossed =>
          \A u \in Revisions : open[l][u] > 0 <=> u = v /\ Articles(l, u) # << >>
     /\ pc[r] = "succeed" /\ Articles(l, v) # << >> => open[l][v] + closed[l][v] > 0

\* Only revisions with articles have rows; they are stored.
Rows ==
  \A l \in Laws, v \in Revisions :
    /\ open[l][v] > 0 => Articles(l, v) # << >>
    /\ open[l][v] + closed[l][v] > 0 => Keys(l, v) \subseteq objects

\* A walk that is over and has met no other.
Settled(l) ==
  l \notin crossed /\ Between(l) =>
    /\ outcome[l] = "ok" =>
         /\ state[l] # None /\ state[l].mst \in Revisions
         /\ \A v \in Revisions : open[l][v] > 0 <=> v = state[l].mst /\ Articles(l, v) # << >>
    /\ outcome[l] = "failed" => state[l] # None /\ state[l].failures > 0

CorpusInv ==
  /\ Alone /\ Rows /\ CurrentIsRegistered
  /\ \A r \in Runs : Progress(r)
  /\ \A l \in Laws : Settled(l)
---------------------------------------------------------------------------
(* The steps of a walk.                                                    *)

Middle == {"search", "get", "chunks", "close", "register"}

LEMMA StepFacts ==
  /\ Walking = Middle \cup {"succeed", "record"}
  /\ Steps[1] = "search"
  /\ Last("succeed") /\ \A s \in Middle : ~Last(s)
  /\ After("search") = "get" /\ After("get") = "chunks" /\ After("chunks") = "close"
  /\ After("close") = "register" /\ After("register") = "succeed"
<1>1. DOMAIN Steps = 1 .. 6 /\ Len(Steps) = 6
  BY DEF Steps
<1>2. /\ Steps[1] = "search" /\ Steps[2] = "get" /\ Steps[3] = "chunks" /\ Steps[4] = "close"
      /\ Steps[5] = "register" /\ Steps[6] = "succeed"
  BY DEF Steps
<1>3. ASSUME NEW i \in 1 .. 5
      PROVE  After(Steps[i]) = Steps[i + 1]
  <2>1. (CHOOSE j \in DOMAIN Steps : Steps[j] = Steps[i]) = i
    BY <1>1, <1>2
  <2>. QED  BY <2>1 DEF After
<1>. QED  BY <1>1, <1>2, <1>3 DEF Walking, Last, Middle

LEMMA RegistryFacts ==
  /\ \A i \in DOMAIN Registry : Registry[i] \in Laws
  /\ 1 \in DOMAIN Registry /\ Len(Registry) \in Nat /\ DOMAIN Registry = 1 .. Len(Registry)
  /\ 1 \in Revisions /\ None \notin Nat /\ None \notin StateRow
BY LawsAssumption DEF Revisions
---------------------------------------------------------------------------
(* Types.                                                                  *)

LEMMA CorpusTypeInit == LawCorpusInit => LawCorpusTypeOK
<1>. SUFFICES ASSUME LawCorpusInit PROVE LawCorpusTypeOK  OBVIOUS
<1>1. newest \in [Laws -> Revisions] /\ at \in [Runs -> DOMAIN Registry]
  BY RegistryFacts DEF LawCorpusInit
<1>2. open \in [Laws -> [Revisions -> Nat]] /\ closed \in [Laws -> [Revisions -> Nat]]
  BY DEF LawCorpusInit
<1>3. pc \in [Runs -> Walking \cup {"idle", "ingest", "done", "failed"}]
  BY DEF LawCorpusInit
<1>4. outcome \in [Laws -> {"none", "ok", "failed", "killed"}] /\ state \in [Laws -> StateRow \cup {None}]
        /\ hit \in [Runs -> Revisions \cup {None}] /\ put \in [Runs -> Nat]
  BY DEF LawCorpusInit
<1>. QED  BY <1>1, <1>2, <1>3, <1>4 DEF LawCorpusInit, LawCorpusTypeOK

\* A run goes on in its walk, or with the next law, or leaves.
LEMMA Moves ==
  ASSUME LawCorpusTypeOK, NEW r \in Runs
  PROVE  /\ Law(r) \in Laws
         /\ \A s \in Middle : Done(r, s) => Goto(r, After(s)) /\ UNCHANGED <<at, crossed>>
         /\ Done(r, "succeed") => NextLaw(r)
         /\ NextLaw(r) =>
              \/ Goto(r, "ingest") /\ UNCHANGED <<at, crossed>>
              \/ /\ Goto(r, "search") /\ at[r] + 1 \in DOMAIN Registry
                 /\ at' = [at EXCEPT ![r] = at[r] + 1] /\ Met(r, Registry[at[r] + 1])
<1>1. at[r] \in 1 .. Len(Registry)
  BY RegistryFacts DEF LawCorpusTypeOK
<1>2. at[r] # Len(Registry) => at[r] + 1 \in DOMAIN Registry
  BY <1>1, RegistryFacts
<1>. QED  BY <1>1, <1>2, RegistryFacts, StepFacts DEF Law, Done, NextLaw

LEMMA RowsOfState ==
  ASSUME LawCorpusTypeOK, NEW l \in Laws
  PROVE  /\ Row(l) \in StateRow
         /\ \A v \in Revisions :
              Succeeded(l, v) \in StateRow /\ Succeeded(l, v) # None /\ Succeeded(l, v).mst = v
         /\ Failed(l) \in StateRow /\ Failed(l) # None /\ Failed(l).mst = Row(l).mst
         /\ Failed(l).failures > 0
<1>1. Row(l) \in StateRow
  BY DEF LawCorpusTypeOK, Row, NoRow, StateRow
<1>2. Row(l).failures \in Nat /\ Row(l).active \in BOOLEAN /\ Row(l).mst \in Revisions \cup {None}
  BY <1>1 DEF StateRow
<1>3. \A v \in Revisions : Succeeded(l, v) \in StateRow
  BY <1>2 DEF StateRow, Succeeded
<1>4. Failed(l) \in StateRow
  BY <1>2 DEF StateRow, Failed
<1>5. Row(l).failures + 1 > 0
  BY <1>2
<1>. QED  BY <1>1, <1>3, <1>4, <1>5, RegistryFacts DEF Succeeded, Failed

\* What a step of a run may change: its own walk, its own law, and nothing that others need.
LEMMA RunStep ==
  ASSUME LawCorpusTypeOK, NEW r \in Runs, Start(r) \/ SyncLaw(r) \/ StartIngestion(r)
  PROVE  /\ \A q \in Runs \ {r} :
              pc'[q] = pc[q] /\ at'[q] = at[q] /\ hit'[q] = hit[q] /\ put'[q] = put[q]
         /\ pc' \in [Runs -> Walking \cup {"idle", "ingest", "done", "failed"}]
         /\ at' \in [Runs -> DOMAIN Registry]
         /\ \/ at' = at /\ crossed' = crossed /\ (pc'[r] \in Walking => pc[r] \in Walking)
            \/ pc'[r] = "search" /\ Met(r, Law(r)')
<1>. USE DEF Goto
<1>1. /\ pc \in [Runs -> Walking \cup {"idle", "ingest", "done", "failed"}]
      /\ at \in [Runs -> DOMAIN Registry] /\ hit \in [Runs -> Revisions \cup {None}]
      /\ put \in [Runs -> Nat]
  BY DEF LawCorpusTypeOK
<1>2. ASSUME NEW s \in Walking \cup {"ingest", "done", "failed"}, Goto(r, s),
             UNCHANGED <<at, crossed>>, s \in Walking => pc[r] \in Walking
      PROVE  /\ \A q \in Runs \ {r} : pc'[q] = pc[q] /\ at'[q] = at[q]
             /\ pc' \in [Runs -> Walking \cup {"idle", "ingest", "done", "failed"}]
             /\ at' \in [Runs -> DOMAIN Registry]
             /\ \/ at' = at /\ crossed' = crossed /\ (pc'[r] \in Walking => pc[r] \in Walking)
                \/ pc'[r] = "search" /\ Met(r, Law(r)')
  BY <1>1, <1>2
<1>3. ASSUME NextLaw(r)
      PROVE  /\ \A q \in Runs \ {r} : pc'[q] = pc[q] /\ at'[q] = at[q]
             /\ pc' \in [Runs -> Walking \cup {"idle", "ingest", "done", "failed"}]
             /\ at' \in [Runs -> DOMAIN Registry]
             /\ \/ at' = at /\ crossed' = crossed /\ (pc'[r] \in Walking => pc[r] \in Walking)
                \/ pc'[r] = "search" /\ Met(r, Law(r)')
  <2>1. CASE Goto(r, "ingest") /\ UNCHANGED <<at, crossed>>
    BY <1>2, <2>1, StepFacts DEF Middle
  <2>2. CASE /\ Goto(r, "search") /\ at[r] + 1 \in DOMAIN Registry
             /\ at' = [at EXCEPT ![r] = at[r] + 1] /\ Met(r, Registry[at[r] + 1])
    BY <1>1, <2>2, StepFacts DEF Middle, Law
  <2>. QED  BY <1>3, <2>1, <2>2, Moves
<1>4. \A q \in Runs \ {r} : hit'[q] = hit[q] /\ put'[q] = put[q]
  BY <1>1 DEF Start, SyncLaw, StartIngestion, Search, GetService, PutChunk, ChunksDone, CloseStale,
    UpsertMany, UpsertOnSuccess, StepFails, RecordFailure, Die, runVars
<1>5. CASE Start(r)
  <2>1. pc' = [pc EXCEPT ![r] = "search"] /\ at' = at /\ Met(r, Law(r))
    BY <1>5, StepFacts DEF Start
  <2>. QED  BY <1>1, <1>4, <2>1, StepFacts DEF Middle, Law
<1>6. CASE Search(r) \/ GetService(r) \/ ChunksDone(r) \/ CloseStale(r) \/ UpsertMany(r)
  <2>1. PICK s \in Middle : pc[r] = s /\ Done(r, s)
    BY <1>6 DEF Search, GetService, ChunksDone, CloseStale, UpsertMany, Middle
  <2>2. Goto(r, After(s)) /\ UNCHANGED <<at, crossed>>
    BY <2>1, Moves
  <2>3. After(s) \in Walking /\ pc[r] \in Walking
    BY <2>1, StepFacts DEF Middle
  <2>. QED  BY <1>2, <1>4, <2>2, <2>3
<1>7. CASE PutChunk(r)
  BY <1>1, <1>4, <1>7 DEF PutChunk, pastVars
<1>8. CASE UpsertOnSuccess(r) \/ RecordFailure(r)
  <2>1. NextLaw(r)
    BY <1>8, Moves DEF UpsertOnSuccess, RecordFailure
  <2>. QED  BY <1>3, <1>4, <2>1
<1>9. CASE StepFails(r) \/ Die(r) \/ StartIngestion(r)
  <2>1. UNCHANGED <<at, crossed>>
    BY <1>9 DEF StepFails, Die, StartIngestion, pastVars
  <2>2. \E s \in {"record", "done", "failed"} : Goto(r, s) /\ (s = "record" => pc[r] \in Walking)
    BY <1>9 DEF StepFails, Die, StartIngestion
  <2>. QED  BY <1>2, <1>4, <2>1, <2>2, StepFacts DEF Middle
<1>. QED  BY <1>5, <1>6, <1>7, <1>8, <1>9 DEF SyncLaw

\* What a step does to the rows: none is lost, and only the law walked is touched.
LEMMA RowsKept ==
  ASSUME LawCorpusTypeOK, NEW r \in Runs, Start(r) \/ SyncLaw(r) \/ StartIngestion(r)
  PROVE  /\ open' \in [Laws -> [Revisions -> Nat]] /\ closed' \in [Laws -> [Revisions -> Nat]]
         /\ \A l \in Laws, v \in Revisions :
              open'[l][v] + closed'[l][v] >= open[l][v] + closed[l][v]
         /\ \A l \in Laws : open'[l] # open[l] => l = Law(r) /\ pc[r] \in Walking
         /\ \A l \in Laws, v \in Revisions : open'[l][v] > open[l][v] =>
              pc[r] = "register" /\ l = Law(r) /\ v = hit[r] /\ Articles(l, v) # << >>
         /\ \A l \in Laws, v \in Revisions :
              open'[l][v] + closed'[l][v] > open[l][v] + closed[l][v] =>
                pc[r] = "register" /\ l = Law(r) /\ v = hit[r]
<1>1. open \in [Laws -> [Revisions -> Nat]] /\ closed \in [Laws -> [Revisions -> Nat]]
  BY DEF LawCorpusTypeOK
<1>2. Law(r) \in Laws /\ "close" \in Walking /\ "register" \in Walking
  BY Moves, StepFacts DEF Middle
<1>3. CASE UNCHANGED <<open, closed>>
  BY <1>1, <1>3
<1>4. CASE CloseStale(r)
  <2>. DEFINE l == Law(r)
  <2>1. /\ open' = [open EXCEPT ![l] = [v \in Revisions |-> IF v # hit[r] THEN 0 ELSE open[l][v]]]
        /\ closed' = [closed EXCEPT ![l] = [v \in Revisions |->
                        IF v # hit[r] THEN closed[l][v] + open[l][v] ELSE closed[l][v]]]
        /\ pc[r] = "close"
    BY <1>4 DEF CloseStale, Stale
  <2>2. open[l] \in [Revisions -> Nat] /\ closed[l] \in [Revisions -> Nat]
    BY <1>1, <1>2
  <2>. HIDE DEF l
  <2>3. open'[l] \in [Revisions -> Nat] /\ closed'[l] \in [Revisions -> Nat]
    <3>1. \A v \in Revisions : closed[l][v] \in Nat /\ open[l][v] \in Nat /\ closed[l][v] + open[l][v] \in Nat
      BY <2>2
    <3>. QED  BY <1>1, <1>2, <2>1, <3>1 DEF l
  <2>4. \A k \in Laws \ {l} : open'[k] = open[k] /\ closed'[k] = closed[k]
    BY <1>1, <2>1
  <2>5. /\ open' \in [Laws -> [Revisions -> Nat]] /\ closed' \in [Laws -> [Revisions -> Nat]]
    BY <1>1, <1>2, <2>1, <2>3 DEF l
  <2>6. \A v \in Revisions : open'[l][v] + closed'[l][v] = open[l][v] + closed[l][v] /\ open'[l][v] <= open[l][v]
    <3>. SUFFICES ASSUME NEW v \in Revisions
                  PROVE  open'[l][v] + closed'[l][v] = open[l][v] + closed[l][v] /\ open'[l][v] <= open[l][v]
      OBVIOUS
    <3>1. /\ open'[l][v] = IF v # hit[r] THEN 0 ELSE open[l][v]
          /\ closed'[l][v] = IF v # hit[r] THEN closed[l][v] + open[l][v] ELSE closed[l][v]
      BY <1>1, <1>2, <2>1 DEF l
    <3>2. open[l][v] \in Nat /\ closed[l][v] \in Nat
      BY <2>2
    <3>. QED  BY <3>1, <3>2
  <2>7. \A k \in Laws, v \in Revisions : open'[k][v] + closed'[k][v] = open[k][v] + closed[k][v] /\ open'[k][v] <= open[k][v]
    <3>1. \A k \in Laws \ {l}, v \in Revisions : open[k][v] \in Nat
      BY <1>1
    <3>. QED  BY <2>4, <2>6, <3>1
  <2>8. \A k \in Laws, v \in Revisions : /\ open[k][v] \in Nat /\ closed[k][v] \in Nat
                                          /\ open'[k][v] \in Nat /\ closed'[k][v] \in Nat
    BY <1>1, <2>5
  <2>9. \A k \in Laws : open'[k] # open[k] => k = Law(r) /\ pc[r] \in Walking
    BY <1>2, <2>1, <2>4 DEF l
  <2>. QED  BY <2>5, <2>7, <2>8, <2>9
<1>5. CASE UpsertMany(r)
  <2>. DEFINE l == Law(r)
              v == hit[r]
  <2>1. /\ pc[r] = "register" /\ closed' = closed
        /\ open' = IF Articles(l, v) = << >> THEN open ELSE [open EXCEPT ![l][v] = open[l][v] + 1]
    BY <1>5 DEF UpsertMany
  <2>. HIDE DEF l, v
  <2>2. CASE Articles(l, v) = << >>
    BY <1>1, <2>1, <2>2
  <2>3. CASE Articles(l, v) # << >>
    <3>1. open' = [open EXCEPT ![l][v] = open[l][v] + 1]
      BY <2>1, <2>3
    <3>2. \A k \in Laws, u \in Revisions :
            open'[k][u] = IF k = l /\ u = v THEN open[k][u] + 1 ELSE open[k][u]
      BY <1>1, <1>2, <3>1 DEF l
    <3>3. \A k \in Laws, u \in Revisions : open[k][u] \in Nat /\ closed[k][u] \in Nat
      BY <1>1
    <3>4. open' \in [Laws -> [Revisions -> Nat]]
      <4>1. \A u \in Revisions : open[l][u] + 1 \in Nat
        BY <3>3, <1>2 DEF l
      <4>. QED  BY <1>1, <1>2, <3>1, <4>1 DEF l
    <3>5. \A k \in Laws : open'[k] # open[k] => k = l
      BY <1>1, <3>1
    <3>. QED  BY <1>1, <1>2, <2>1, <2>3, <3>2, <3>3, <3>4, <3>5 DEF l, v
  <2>. QED  BY <2>2, <2>3
<1>6. CloseStale(r) \/ UpsertMany(r) \/ UNCHANGED <<open, closed>>
  BY DEF Start, SyncLaw, StartIngestion, Search, GetService, PutChunk, ChunksDone, UpsertOnSuccess,
    StepFails, RecordFailure, Die, rowVars
<1>. QED  BY <1>3, <1>4, <1>5, <1>6

\* What a step does to the store, the states and the outcomes.
LEMMA StateKept ==
  ASSUME LawCorpusTypeOK, NEW r \in Runs, Start(r) \/ SyncLaw(r) \/ StartIngestion(r)
  PROVE  /\ objects \subseteq objects'
         /\ \A o \in objects' \ objects : /\ pc[r] = "chunks" /\ put'[r] = put[r] + 1
                                          /\ o = Key(Law(r), hit[r], put[r] + 1)
         /\ \/ UNCHANGED <<state, outcome>>
            \/ /\ pc[r] = "succeed" /\ outcome' = [outcome EXCEPT ![Law(r)] = "ok"]
               /\ state' = [state EXCEPT ![Law(r)] = Succeeded(Law(r), hit[r])]
            \/ /\ pc[r] = "record" /\ outcome' = [outcome EXCEPT ![Law(r)] = "failed"]
               /\ state' = [state EXCEPT ![Law(r)] = Failed(Law(r))]
            \/ /\ pc[r] \in Walking /\ outcome' = [outcome EXCEPT ![Law(r)] = "killed"]
               /\ state' = state
<1>1. CASE PutChunk(r)
  BY <1>1 DEF PutChunk, rowVars, pastVars, LawCorpusTypeOK
<1>2. CASE UpsertOnSuccess(r) \/ RecordFailure(r) \/ Die(r)
  BY <1>2 DEF UpsertOnSuccess, RecordFailure, Die, rowVars
<1>3. CASE \/ Start(r) \/ StartIngestion(r) \/ Search(r) \/ GetService(r) \/ ChunksDone(r)
           \/ CloseStale(r) \/ UpsertMany(r) \/ StepFails(r)
  BY <1>3 DEF Start, StartIngestion, Search, GetService, ChunksDone, CloseStale, UpsertMany,
    StepFails, rowVars, pastVars
<1>. QED  BY <1>1, <1>2, <1>3 DEF SyncLaw

LEMMA CorpusTypeNext ==
  ASSUME LawCorpusTypeOK, \A r \in Runs : Progress(r), LawCorpusNext
  PROVE  LawCorpusTypeOK'
<1>1. ASSUME NEW r \in Runs, Start(r) \/ SyncLaw(r) \/ StartIngestion(r)
      PROVE  LawCorpusTypeOK'
  <2>. DEFINE l == Law(r)
  <2>1. l \in Laws
    BY Moves
  <2>2. /\ pc' \in [Runs -> Walking \cup {"idle", "ingest", "done", "failed"}]
        /\ at' \in [Runs -> DOMAIN Registry]
        /\ open' \in [Laws -> [Revisions -> Nat]] /\ closed' \in [Laws -> [Revisions -> Nat]]
    BY <1>1, RunStep, RowsKept
  <2>3. crossed' \subseteq Laws
    <3>1. Law(r)' \in Laws
      BY <2>2, RegistryFacts DEF Law
    <3>2. crossed' = crossed \/ crossed' \subseteq crossed \cup {Law(r)'}
      BY <1>1, RunStep DEF Met
    <3>. QED  BY <3>1, <3>2 DEF LawCorpusTypeOK
  <2>4. \A o \in objects' : o.law \in Laws /\ o.mst \in Revisions
    <3>1. \A o \in objects' \ objects : o.law = l /\ o.mst = hit[r] /\ pc[r] = "chunks"
      BY <1>1, StateKept DEF Key
    <3>2. pc[r] = "chunks" => hit[r] \in Revisions
      BY DEF Progress
    <3>. QED  BY <2>1, <3>1, <3>2 DEF LawCorpusTypeOK
  <2>5. outcome' \in [Laws -> {"none", "ok", "failed", "killed"}]
    BY <1>1, StateKept DEF LawCorpusTypeOK
  <2>6. state' \in [Laws -> StateRow \cup {None}]
    <3>1. pc[r] = "succeed" => hit[r] \in Revisions
      BY DEF Progress
    <3>2. /\ pc[r] = "succeed" => Succeeded(l, hit[r]) \in StateRow
          /\ Failed(l) \in StateRow
      BY <2>1, <3>1, RowsOfState
    <3>3. \/ state' = state
          \/ pc[r] = "succeed" /\ state' = [state EXCEPT ![l] = Succeeded(l, hit[r])]
          \/ state' = [state EXCEPT ![l] = Failed(l)]
      BY <1>1, StateKept
    <3>. QED  BY <2>1, <3>2, <3>3 DEF LawCorpusTypeOK
  <2>7. hit' \in [Runs -> Revisions \cup {None}] /\ put' \in [Runs -> Nat]
    <3>1. newest[l] \in Revisions /\ put[r] + 1 \in Nat
      BY <2>1 DEF LawCorpusTypeOK
    <3>2. \/ hit' = hit \/ hit' = [hit EXCEPT ![r] = newest[l]]
      BY <1>1 DEF Start, SyncLaw, StartIngestion, Search, GetService, PutChunk, ChunksDone, CloseStale,
        UpsertMany, UpsertOnSuccess, StepFails, RecordFailure, Die, runVars
    <3>3. \/ put' = put \/ put' = [put EXCEPT ![r] = 0] \/ put' = [put EXCEPT ![r] = put[r] + 1]
      BY <1>1 DEF Start, SyncLaw, StartIngestion, Search, GetService, PutChunk, ChunksDone, CloseStale,
        UpsertMany, UpsertOnSuccess, StepFails, RecordFailure, Die, runVars
    <3>4. hit \in [Runs -> Revisions \cup {None}] /\ put \in [Runs -> Nat]
      BY DEF LawCorpusTypeOK
    <3>5. hit' \in [Runs -> Revisions \cup {None}]
      BY <3>1, <3>2, <3>4
    <3>6. put' \in [Runs -> Nat]
      BY <3>1, <3>3, <3>4
    <3>. QED  BY <3>5, <3>6
  <2>8. newest' = newest /\ indexed' = indexed /\ job' \in BOOLEAN
    BY <1>1 DEF Start, SyncLaw, StartIngestion, Search, GetService, PutChunk, ChunksDone, CloseStale,
      UpsertMany, UpsertOnSuccess, StepFails, RecordFailure, Die, lawVars, kbVars, LawCorpusTypeOK
  <2>9. indexed' \subseteq objects'
    <3>1. indexed \subseteq objects /\ objects \subseteq objects'
      BY <1>1, StateKept DEF LawCorpusTypeOK
    <3>. QED  BY <2>8, <3>1
  <2>. QED  BY <2>2, <2>3, <2>4, <2>5, <2>6, <2>7, <2>8, <2>9 DEF LawCorpusTypeOK
<1>2. CASE Ingested
  BY <1>2 DEF Ingested, lawVars, rowVars, runVars, pastVars, LawCorpusTypeOK
<1>3. ASSUME NEW l \in Laws, Amend(l)
      PROVE  LawCorpusTypeOK'
  <2>1. newest[l] + 1 \in Revisions
    <3>1. MaxRevision \in Nat
      BY LawsAssumption
    <3>2. newest[l] \in 1 .. MaxRevision /\ newest[l] < MaxRevision
      BY <1>3 DEF Amend, LawCorpusTypeOK, Revisions
    <3>. QED  BY <3>1, <3>2 DEF Revisions
  <2>2. newest' \in [Laws -> Revisions]
    BY <1>3, <2>1 DEF Amend, LawCorpusTypeOK
  <2>. QED  BY <1>3, <2>2 DEF Amend, rowVars, runVars, kbVars, pastVars, LawCorpusTypeOK
<1>. QED  BY <1>1, <1>2, <1>3 DEF LawCorpusNext
---------------------------------------------------------------------------
(* The invariant of the walks.                                             *)

LEMMA CorpusInvInit == LawCorpusInit => CorpusInv
<1>. SUFFICES ASSUME LawCorpusInit PROVE CorpusInv  OBVIOUS
<1>1. "idle" \notin Walking
  BY StepFacts DEF Middle
<1>2. \A r \in Runs : pc[r] = "idle"
  BY DEF LawCorpusInit
<1>3. \A l \in Laws, v \in Revisions : open[l][v] = 0 /\ closed[l][v] = 0
  BY DEF LawCorpusInit
<1>4. \A l \in Laws : state[l] = None /\ outcome[l] = "none"
  BY DEF LawCorpusInit
<1>5. Alone
  BY <1>1, <1>2 DEF Alone, W
<1>6. Rows
  BY <1>3 DEF Rows
<1>7. CurrentIsRegistered
  BY <1>4 DEF CurrentIsRegistered
<1>8. \A r \in Runs : Progress(r)
  BY <1>2 DEF Progress
<1>9. \A l \in Laws : Settled(l)
  BY <1>4 DEF Settled
<1>. QED  BY <1>5, <1>6, <1>7, <1>8, <1>9 DEF CorpusInv

\* Another run at the law, before or after a step, is the one whose step it is.
LEMMA AloneNext ==
  ASSUME LawCorpusTypeOK, Alone, NEW r \in Runs, Start(r) \/ SyncLaw(r) \/ StartIngestion(r)
  PROVE  /\ \A l \in crossed \ crossed' : pc'[r] = "search" /\ Law(r)' = l
                                         /\ \A q \in Runs \ {r} : ~W(q, l)
         /\ Alone'
<1>1. ASSUME NEW l \in crossed \ crossed'
      PROVE  pc'[r] = "search" /\ Law(r)' = l /\ \A q \in Runs \ {r} : ~W(q, l)
  BY RunStep DEF Met, W
<1>2. \A q \in Runs \ {r} : (pc[q] \in Walking)' = (pc[q] \in Walking) /\ Law(q)' = Law(q)
  BY RunStep DEF Law
<1>3. ASSUME NEW l \in Laws \ crossed', NEW q \in Runs \ {r}, W(r, l)', W(q, l)'
      PROVE  FALSE
  <2>1. pc[q] \in Walking /\ Law(q) = l
    BY <1>2, <1>3 DEF W
  <2>2. CASE at' = at /\ crossed' = crossed /\ (pc'[r] \in Walking => pc[r] \in Walking)
    <3>1. W(r, l) /\ W(q, l) /\ l \notin crossed
      BY <1>3, <2>1, <2>2 DEF W, Law
    <3>. QED  BY <3>1 DEF Alone
  <2>3. CASE Met(r, Law(r)')
    <3>1. Law(r)' = l
      BY <1>3 DEF W
    <3>2. l \in crossed'
      BY <2>1, <2>3, <3>1 DEF Met
    <3>. QED  BY <3>2
  <2>. QED  BY <2>2, <2>3, RunStep
<1>4. ASSUME NEW l \in Laws \ crossed', NEW p \in Runs, NEW q \in Runs, W(p, l)', W(q, l)'
      PROVE  p = q
  <2>1. CASE p # r /\ q # r
    <3>1. W(p, l) /\ W(q, l)
      BY <1>2, <1>4, <2>1 DEF W
    <3>2. l \notin crossed
      BY <1>1, <1>4, <2>1, <3>1
    <3>. QED  BY <3>1, <3>2 DEF Alone
  <2>. QED  BY <1>3, <1>4, <2>1
<1>. QED  BY <1>1, <1>4 DEF Alone

LEMMA RowsNext ==
  ASSUME LawCorpusTypeOK, CorpusInv, NEW r \in Runs, Start(r) \/ SyncLaw(r) \/ StartIngestion(r)
  PROVE  Rows'
<1>1. ASSUME NEW l \in Laws, NEW v \in Revisions
      PROVE  /\ open'[l][v] > 0 => Articles(l, v) # << >>
             /\ open'[l][v] + closed'[l][v] > 0 => Keys(l, v) \subseteq objects'
  <2>1. /\ open[l][v] \in Nat /\ closed[l][v] \in Nat /\ open'[l][v] \in Nat /\ closed'[l][v] \in Nat
    BY RowsKept DEF LawCorpusTypeOK
  <2>2. open'[l][v] > 0 => Articles(l, v) # << >>
    <3>1. CASE open'[l][v] > open[l][v]
      BY <3>1, RowsKept
    <3>2. CASE ~(open'[l][v] > open[l][v])
      <4>1. open'[l][v] > 0 => open[l][v] > 0
        BY <2>1, <3>2
      <4>. QED  BY <4>1 DEF CorpusInv, Rows
    <3>. QED  BY <3>1, <3>2
  <2>3. open'[l][v] + closed'[l][v] > 0 => Keys(l, v) \subseteq objects
    <3>1. CASE open'[l][v] + closed'[l][v] > open[l][v] + closed[l][v]
      BY <3>1, RowsKept DEF CorpusInv, Progress
    <3>2. CASE ~(open'[l][v] + closed'[l][v] > open[l][v] + closed[l][v])
      <4>1. open'[l][v] + closed'[l][v] > 0 => open[l][v] + closed[l][v] > 0
        BY <2>1, <3>2
      <4>. QED  BY <4>1 DEF CorpusInv, Rows
    <3>. QED  BY <3>1, <3>2
  <2>. QED  BY <2>2, <2>3, StateKept
<1>. QED  BY <1>1 DEF Rows

LEMMA RegisteredNext ==
  ASSUME LawCorpusTypeOK, CorpusInv, NEW r \in Runs, Start(r) \/ SyncLaw(r) \/ StartIngestion(r)
  PROVE  CurrentIsRegistered'
<1>1. ASSUME NEW l \in Laws, NEW v \in Revisions, open[l][v] + closed[l][v] > 0
      PROVE  open'[l][v] + closed'[l][v] > 0
  <2>1. /\ open[l][v] \in Nat /\ closed[l][v] \in Nat /\ open'[l][v] \in Nat /\ closed'[l][v] \in Nat
    BY RowsKept DEF LawCorpusTypeOK
  <2>2. open'[l][v] + closed'[l][v] >= open[l][v] + closed[l][v]
    BY RowsKept
  <2>. QED  BY <1>1, <2>1, <2>2
<1>2. ASSUME NEW l \in Laws, state'[l] # None, state'[l].mst # None, Articles(l, state'[l].mst) # << >>
      PROVE  state'[l].mst \in Revisions /\ open[l][state'[l].mst] + closed[l][state'[l].mst] > 0
  <2>. DEFINE v == state'[l].mst
  <2>1. CASE state[l] # None /\ state[l].mst = v
    <3>1. v \in Revisions
      BY <1>2, <2>1 DEF LawCorpusTypeOK, StateRow
    <3>2. open[l][v] + closed[l][v] > 0
      BY <1>2, <2>1 DEF CorpusInv, CurrentIsRegistered
    <3>. QED  BY <3>1, <3>2
  <2>2. CASE pc[r] = "succeed" /\ l = Law(r) /\ state' = [state EXCEPT ![l] = Succeeded(l, hit[r])]
    <3>1. hit[r] \in Revisions /\ (Articles(l, hit[r]) # << >> => open[l][hit[r]] + closed[l][hit[r]] > 0)
      BY <2>2 DEF CorpusInv, Progress
    <3>2. state'[l] = Succeeded(l, hit[r])
      BY <2>2 DEF LawCorpusTypeOK
    <3>3. v = hit[r]
      BY <3>1, <3>2, RowsOfState
    <3>. QED  BY <1>2, <3>1, <3>3
  <2>3. CASE l = Law(r) /\ state' = [state EXCEPT ![l] = Failed(l)]
    <3>1. state'[l] = Failed(l)
      BY <2>3 DEF LawCorpusTypeOK
    <3>2. v = Row(l).mst
      BY <3>1, RowsOfState
    <3>3. state[l] # None /\ state[l].mst = v
      BY <1>2, <3>2 DEF Row, NoRow
    <3>. QED  BY <3>3, <2>1
  <2>4. CASE state'[l] = state[l]
    BY <1>2, <2>1, <2>4
  <2>5. CASE l # Law(r)
    <3>1. state'[l] = state[l]
      BY <2>5, StateKept DEF LawCorpusTypeOK
    <3>. QED  BY <3>1, <2>4
  <2>. QED  BY <2>2, <2>3, <2>4, <2>5, StateKept
<1>. QED  BY <1>1, <1>2 DEF CurrentIsRegistered

\* The other runs' walks are as they were.
LEMMA ProgressKept ==
  ASSUME LawCorpusTypeOK, CorpusInv, NEW r \in Runs, Start(r) \/ SyncLaw(r) \/ StartIngestion(r),
         NEW q \in Runs \ {r}
  PROVE  Progress(q)'
<1>. DEFINE l == Law(q)
            v == hit[q]
<1>1. pc'[q] = pc[q] /\ Law(q)' = l /\ hit'[q] = v /\ put'[q] = put[q] /\ l \in Laws
  BY RunStep, Moves DEF Law
<1>2. Progress(q)
  BY DEF CorpusInv
<1>3. /\ objects \subseteq objects'
      /\ pc[q] \in {"register", "succeed"} /\ l \notin crossed' => l \notin crossed
  <2>1. pc[q] \in {"register", "succeed"} => W(q, l)
    BY StepFacts DEF W, Middle
  <2>. QED  BY <2>1, StateKept, AloneNext DEF CorpusInv
<1>4. pc[q] \in {"register", "succeed"} /\ l \notin crossed' => open'[l] = open[l]
  <2>. SUFFICES ASSUME pc[q] \in {"register", "succeed"}, l \notin crossed', open'[l] # open[l]
                PROVE  FALSE
    OBVIOUS
  <2>1. W(r, l) /\ W(q, l)
    BY <1>1, RowsKept, StepFacts DEF W, Middle
  <2>. QED  BY <1>1, <1>3, <2>1 DEF CorpusInv, Alone
<1>5. pc[q] = "succeed" /\ Articles(l, v) # << >> => open'[l][v] + closed'[l][v] > 0
  <2>. SUFFICES ASSUME pc[q] = "succeed", Articles(l, v) # << >>
                PROVE  open'[l][v] + closed'[l][v] > 0
    OBVIOUS
  <2>1. v \in Revisions /\ open[l][v] + closed[l][v] > 0
    BY <1>2 DEF Progress
  <2>2. /\ open[l][v] \in Nat /\ closed[l][v] \in Nat /\ open'[l][v] \in Nat /\ closed'[l][v] \in Nat
    BY <1>1, <2>1, RowsKept DEF LawCorpusTypeOK
  <2>3. open'[l][v] + closed'[l][v] >= open[l][v] + closed[l][v]
    BY <1>1, <2>1, RowsKept
  <2>. QED  BY <2>1, <2>2, <2>3
<1>. HIDE DEF l, v
<1>6. /\ pc[q] \in {"get", "chunks", "close", "register", "succeed"} => v \in Revisions
      /\ pc[q] \in {"get", "chunks"} => \A i \in 1 .. put[q] : Key(l, v, i) \in objects
      /\ pc[q] \in {"close", "register", "succeed"} => Keys(l, v) \subseteq objects
      /\ pc[q] = "register" /\ l \notin crossed =>
           \A u \in Revisions \ {v} : open[l][u] = 0
      /\ pc[q] = "succeed" /\ l \notin crossed =>
           \A u \in Revisions : open[l][u] > 0 <=> u = v /\ Articles(l, u) # << >>
  BY <1>2 DEF Progress, l, v
<1>. QED  BY <1>1, <1>3, <1>4, <1>5, <1>6 DEF Progress

\* A run's own walk goes on.
LEMMA ProgressMade ==
  ASSUME LawCorpusTypeOK, CorpusInv, NEW r \in Runs, Start(r) \/ SyncLaw(r) \/ StartIngestion(r)
  PROVE  Progress(r)'
<1>. DEFINE l == Law(r)
            v == hit[r]
<1>1. /\ l \in Laws /\ Progress(r) /\ put[r] \in Nat
      /\ pc \in [Runs -> Walking \cup {"idle", "ingest", "done", "failed"}]
      /\ hit \in [Runs -> Revisions \cup {None}] /\ put \in [Runs -> Nat]
  BY Moves DEF CorpusInv, LawCorpusTypeOK
<1>2. CASE pc'[r] \notin {"get", "chunks", "close", "register", "succeed"}
  BY <1>2 DEF Progress
<1>3. CASE Start(r) \/ StartIngestion(r) \/ UpsertOnSuccess(r) \/ RecordFailure(r) \/ StepFails(r) \/ Die(r)
  <2>1. pc'[r] \in {"search", "ingest", "record", "failed", "done"}
    <3>1. UpsertOnSuccess(r) \/ RecordFailure(r) => NextLaw(r)
      BY Moves DEF UpsertOnSuccess, RecordFailure
    <3>2. NextLaw(r) => Goto(r, "ingest") \/ Goto(r, "search")
      BY Moves
    <3>3. \E s \in {"search", "ingest", "record", "failed", "done"} : Goto(r, s)
      BY <1>3, <3>1, <3>2, StepFacts DEF Start, StartIngestion, StepFails, Die
    <3>. QED  BY <1>1, <3>3 DEF Goto
  <2>. QED  BY <1>2, <2>1
<1>4. CASE Search(r)
  <2>1. /\ pc'[r] = "get" /\ hit'[r] = newest[l] /\ put'[r] = 0
    <3>1. Done(r, "search") /\ hit' = [hit EXCEPT ![r] = newest[l]] /\ put' = [put EXCEPT ![r] = 0]
      BY <1>4 DEF Search
    <3>2. Goto(r, "get")
      BY <3>1, Moves, StepFacts DEF Middle
    <3>. QED  BY <1>1, <3>1, <3>2 DEF Goto
  <2>2. newest[l] \in Revisions
    BY <1>1 DEF LawCorpusTypeOK
  <2>3. \A i \in 1 .. put'[r] : FALSE
    BY <2>1
  <2>. QED  BY <2>1, <2>2, <2>3 DEF Progress
<1>5. CASE GetService(r)
  <2>1. pc[r] = "get" /\ UNCHANGED <<hit, put, objects>> /\ pc'[r] = "chunks" /\ at' = at
    <3>1. Done(r, "get")
      BY <1>5 DEF GetService
    <3>2. Goto(r, "chunks") /\ at' = at
      BY <3>1, Moves, StepFacts DEF Middle
    <3>. QED  BY <1>1, <1>5, <3>2 DEF Goto, GetService
  <2>. QED  BY <1>1, <2>1 DEF Progress, Law
<1>6. CASE PutChunk(r)
  <2>1. /\ pc[r] = "chunks" /\ pc' = pc /\ at' = at /\ hit' = hit /\ put'[r] = put[r] + 1
        /\ objects' = objects \cup {Key(l, v, put[r] + 1)}
    BY <1>1, <1>6 DEF PutChunk
  <2>2. \A i \in 1 .. put'[r] : i \in 1 .. put[r] \/ i = put[r] + 1
    BY <1>1, <2>1
  <2>3. v \in Revisions /\ \A i \in 1 .. put[r] : Key(l, v, i) \in objects
    BY <1>1, <2>1 DEF Progress
  <2>4. Law(r)' = l
    BY <2>1 DEF Law
  <2>5. \A i \in 1 .. put'[r] : Key(l, v, i) \in objects'
    BY <2>1, <2>2, <2>3
  <2>. HIDE DEF l, v
  <2>6. hit'[r] = v
    BY <2>1 DEF v
  <2>. QED  BY <2>1, <2>3, <2>4, <2>5, <2>6 DEF Progress
<1>7. CASE ChunksDone(r)
  <2>1. /\ pc[r] = "chunks" /\ put[r] = 2 * Len(Articles(l, v)) /\ objects' = objects
        /\ pc'[r] = "close" /\ at' = at /\ hit' = hit
    <3>1. Done(r, "chunks")
      BY <1>7 DEF ChunksDone
    <3>2. Goto(r, "close") /\ at' = at
      BY <3>1, Moves, StepFacts DEF Middle
    <3>. QED  BY <1>1, <1>7, <3>2 DEF Goto, ChunksDone
  <2>2. v \in Revisions /\ \A i \in 1 .. 2 * Len(Articles(l, v)) : Key(l, v, i) \in objects
    BY <1>1, <2>1 DEF Progress
  <2>3. Keys(l, v) \subseteq objects
    BY <2>2 DEF Keys
  <2>4. Law(r)' = l
    BY <2>1 DEF Law
  <2>. HIDE DEF l, v
  <2>5. hit'[r] = v
    BY <2>1 DEF v
  <2>. QED  BY <2>1, <2>2, <2>3, <2>4, <2>5 DEF Progress
<1>8. CASE CloseStale(r)
  <2>1. /\ pc[r] = "close" /\ objects' = objects /\ pc'[r] = "register" /\ at' = at /\ hit' = hit
    <3>1. Done(r, "close")
      BY <1>8 DEF CloseStale
    <3>2. Goto(r, "register") /\ at' = at
      BY <3>1, Moves, StepFacts DEF Middle
    <3>. QED  BY <1>1, <1>8, <3>2 DEF Goto, CloseStale
  <2>2. \A u \in Revisions \ {v} : open'[l][u] = 0
    BY <1>1, <1>8 DEF CloseStale, Stale, LawCorpusTypeOK
  <2>3. v \in Revisions /\ Keys(l, v) \subseteq objects
    BY <1>1, <2>1 DEF Progress
  <2>4. Law(r)' = l
    BY <2>1 DEF Law
  <2>. HIDE DEF l, v
  <2>5. hit'[r] = v
    BY <2>1 DEF v
  <2>. QED  BY <2>1, <2>2, <2>3, <2>4, <2>5 DEF Progress
<1>9. CASE UpsertMany(r)
  <2>1. /\ pc[r] = "register" /\ objects' = objects /\ pc'[r] = "succeed" /\ at' = at /\ hit' = hit
        /\ crossed' = crossed /\ closed' = closed
        /\ open' = IF Articles(l, v) = << >> THEN open ELSE [open EXCEPT ![l][v] = open[l][v] + 1]
    <3>1. Done(r, "register")
      BY <1>9 DEF UpsertMany
    <3>2. Goto(r, "succeed") /\ at' = at /\ crossed' = crossed
      BY <3>1, Moves, StepFacts DEF Middle
    <3>. QED  BY <1>1, <1>9, <3>2 DEF Goto, UpsertMany
  <2>2. v \in Revisions /\ Keys(l, v) \subseteq objects
    BY <1>1, <2>1 DEF Progress
  <2>3. open[l][v] \in Nat /\ closed[l][v] \in Nat /\ open \in [Laws -> [Revisions -> Nat]]
    BY <1>1, <2>2 DEF LawCorpusTypeOK
  <2>4. l \notin crossed => \A u \in Revisions \ {v} : open[l][u] = 0
    BY <1>1, <2>1 DEF Progress
  <2>5. open[l][v] > 0 => Articles(l, v) # << >>
    BY <1>1, <2>2 DEF CorpusInv, Rows
  <2>6. Law(r)' = l
    BY <2>1 DEF Law
  <2>. HIDE DEF l, v
  <2>7. hit'[r] = v
    BY <2>1 DEF v
  <2>8. Articles(l, v) # << >> =>
          open'[l][v] = open[l][v] + 1 /\ \A u \in Revisions \ {v} : open'[l][u] = open[l][u]
    <3>. SUFFICES ASSUME Articles(l, v) # << >>
                  PROVE  open'[l][v] = open[l][v] + 1 /\ \A u \in Revisions \ {v} : open'[l][u] = open[l][u]
      OBVIOUS
    <3>1. open' = [open EXCEPT ![l][v] = open[l][v] + 1]
      BY <2>1
    <3>. QED  BY <1>1, <2>2, <2>3, <3>1 DEF l
  <2>9. l \notin crossed => \A u \in Revisions : open'[l][u] > 0 <=> u = v /\ Articles(l, u) # << >>
    <3>1. CASE Articles(l, v) = << >>
      <4>1. open' = open
        BY <2>1, <3>1
      <4>2. ~(open[l][v] > 0)
        BY <2>5, <3>1
      <4>. QED  BY <2>4, <3>1, <4>1, <4>2
    <3>2. CASE Articles(l, v) # << >>
      <4>1. open'[l][v] > 0
        BY <2>3, <2>8, <3>2
      <4>2. \A u \in Revisions \ {v} : open'[l][u] = open[l][u]
        BY <2>8, <3>2
      <4>. QED  BY <2>4, <3>2, <4>1, <4>2
    <3>. QED  BY <3>1, <3>2
  <2>10. Articles(l, v) # << >> => open'[l][v] + closed'[l][v] > 0
    BY <2>1, <2>3, <2>8
  <2>. QED  BY <2>1, <2>2, <2>6, <2>7, <2>9, <2>10 DEF Progress
<1>. QED  BY <1>3, <1>4, <1>5, <1>6, <1>7, <1>8, <1>9 DEF SyncLaw

LEMMA SettledNext ==
  ASSUME LawCorpusTypeOK, CorpusInv, NEW r \in Runs, Start(r) \/ SyncLaw(r) \/ StartIngestion(r),
         NEW l \in Laws
  PROVE  Settled(l)'
<1>. SUFFICES ASSUME l \notin crossed', Between(l)'
              PROVE  /\ outcome'[l] = "ok" =>
                          /\ state'[l] # None /\ state'[l].mst \in Revisions
                          /\ \A v \in Revisions :
                               open'[l][v] > 0 <=> v = state'[l].mst /\ Articles(l, v) # << >>
                     /\ outcome'[l] = "failed" => state'[l] # None /\ state'[l].failures > 0
  BY DEF Settled
<1>1. /\ l \notin crossed /\ Settled(l)
      /\ state \in [Laws -> StateRow \cup {None}]
      /\ outcome \in [Laws -> {"none", "ok", "failed", "killed"}]
  <2>1. ~(pc'[r] = "search" /\ Law(r)' = l)
    BY StepFacts DEF Between, Middle
  <2>. QED  BY <2>1, AloneNext DEF CorpusInv, LawCorpusTypeOK
<1>2. \A q \in Runs \ {r} : pc[q] \in Walking => Law(q) # l
  <2>1. \A q \in Runs \ {r} : pc'[q] = pc[q] /\ Law(q)' = Law(q)
    BY RunStep DEF Law
  <2>2. \A q \in Runs : pc'[q] \in Walking => Law(q)' # l
    BY DEF Between
  <2>. QED  BY <2>1, <2>2
<1>3. CASE ~W(r, l)
  <2>1. Between(l)
    BY <1>2, <1>3 DEF Between, W
  <2>2. open'[l] = open[l]
    BY <1>3, RowsKept DEF W
  <2>3. state'[l] = state[l] /\ outcome'[l] = outcome[l]
    BY <1>1, <1>3, StateKept, StepFacts DEF W, Middle
  <2>. QED  BY <1>1, <2>1, <2>2, <2>3 DEF Settled
<1>4. CASE W(r, l)
  <2>1. pc[r] \in Walking /\ Law(r) = l
    BY <1>4 DEF W
  <2>2. CASE UpsertOnSuccess(r)
    <3>1. /\ pc[r] = "succeed" /\ outcome'[l] = "ok" /\ state'[l] = Succeeded(l, hit[r])
          /\ open' = open
      BY <1>1, <2>1, <2>2 DEF UpsertOnSuccess
    <3>2. hit[r] \in Revisions
          /\ \A u \in Revisions : open[l][u] > 0 <=> u = hit[r] /\ Articles(l, u) # << >>
      BY <1>1, <2>1, <3>1 DEF CorpusInv, Progress
    <3>3. state'[l] # None /\ state'[l].mst = hit[r]
      BY <3>1, <3>2, RowsOfState
    <3>. QED  BY <3>1, <3>2, <3>3
  <2>3. CASE RecordFailure(r)
    <3>1. outcome'[l] = "failed" /\ state'[l] = Failed(l)
      BY <1>1, <2>1, <2>3 DEF RecordFailure
    <3>. QED  BY <3>1, RowsOfState
  <2>4. CASE Die(r)
    <3>1. outcome'[l] = "killed"
      BY <1>1, <2>1, <2>4 DEF Die
    <3>. QED  BY <3>1
  <2>5. CASE \/ Search(r) \/ GetService(r) \/ PutChunk(r) \/ ChunksDone(r) \/ CloseStale(r)
             \/ UpsertMany(r) \/ StepFails(r)
    <3>1. pc \in [Runs -> Walking \cup {"idle", "ingest", "done", "failed"}]
      BY DEF LawCorpusTypeOK
    <3>2. at' = at /\ pc'[r] \in Walking
      <4>1. CASE PutChunk(r)
        BY <2>1, <4>1 DEF PutChunk
      <4>2. CASE StepFails(r)
        BY <3>1, <4>2, StepFacts DEF StepFails, Goto
      <4>3. CASE Search(r) \/ GetService(r) \/ ChunksDone(r) \/ CloseStale(r) \/ UpsertMany(r)
        <5>1. PICK s \in Middle : Done(r, s)
          BY <4>3 DEF Search, GetService, ChunksDone, CloseStale, UpsertMany, Middle
        <5>2. Goto(r, After(s)) /\ at' = at
          BY <5>1, Moves
        <5>3. After(s) \in Walking
          BY <5>1, StepFacts DEF Middle
        <5>. QED  BY <3>1, <5>2, <5>3 DEF Goto
      <4>. QED  BY <2>5, <4>1, <4>2, <4>3
    <3>3. Law(r)' = l
      BY <2>1, <3>2 DEF Law
    <3>. QED  BY <3>2, <3>3 DEF Between
  <2>6. CASE Start(r) \/ StartIngestion(r)
    BY <2>1, <2>6, StepFacts DEF Start, StartIngestion, Middle
  <2>. QED  BY <2>2, <2>3, <2>4, <2>5, <2>6 DEF SyncLaw
<1>. QED  BY <1>3, <1>4

\* A step of no run keeps the invariant when it changes nothing of a law but its gate.
LEMMA GateOnly ==
  ASSUME LawCorpusTypeOK, CorpusInv, UNCHANGED <<objects, open, closed, runVars, pastVars>>,
         \A l \in Laws :
           \/ state'[l] = state[l]
           \/ state[l] # None /\ state'[l] # None /\ state'[l].mst = state[l].mst
                /\ state'[l].failures = state[l].failures
  PROVE  CorpusInv'
<1>. USE DEF runVars, pastVars
<1>1. \A q \in Runs : Law(q)' = Law(q)
  BY DEF Law
<1>2. Alone'
  BY <1>1 DEF CorpusInv, Alone, W
<1>3. Rows'
  BY DEF CorpusInv, Rows
<1>4. CurrentIsRegistered'
  BY DEF CorpusInv, CurrentIsRegistered
<1>5. ASSUME NEW q \in Runs
      PROVE  Progress(q)'
  BY <1>1 DEF CorpusInv, Progress
<1>6. ASSUME NEW l \in Laws
      PROVE  Settled(l)'
  <2>1. Between(l)' <=> Between(l)
    BY <1>1 DEF Between
  <2>. QED  BY <2>1 DEF CorpusInv, Settled
<1>. QED  BY <1>2, <1>3, <1>4, <1>5, <1>6 DEF CorpusInv

LEMMA CorpusInvNext ==
  ASSUME LawCorpusTypeOK, CorpusInv, LawCorpusNext
  PROVE  LawCorpusTypeOK' /\ CorpusInv'
<1>1. LawCorpusTypeOK'
  BY CorpusTypeNext DEF CorpusInv
<1>2. ASSUME NEW r \in Runs, Start(r) \/ SyncLaw(r) \/ StartIngestion(r)
      PROVE  CorpusInv'
  <2>1. Alone' /\ Rows' /\ CurrentIsRegistered'
    BY <1>2, AloneNext, RowsNext, RegisteredNext DEF CorpusInv
  <2>2. \A q \in Runs : Progress(q)'
    BY <1>2, ProgressKept, ProgressMade
  <2>3. \A l \in Laws : Settled(l)'
    BY <1>2, SettledNext
  <2>. QED  BY <2>1, <2>2, <2>3 DEF CorpusInv
<1>3. CASE Ingested \/ \E l \in Laws : Amend(l)
  <2>1. UNCHANGED <<objects, rowVars, runVars, pastVars>>
    BY <1>3 DEF Ingested, Amend
  <2>. QED  BY <1>1, <2>1, GateOnly DEF rowVars
<1>. QED  BY <1>1, <1>2, <1>3 DEF LawCorpusNext
---------------------------------------------------------------------------
(* The administrators.                                                     *)

\* A request that is under way has asked for what its route handles, and is not answered.
Asked ==
  \A c \in Calls :
    /\ call[c] # "done" => reply[c] = 0
    /\ call[c] \in {"approve", "commit"} => want[c] \in [rule : Rules]
    /\ call[c] = "resolve" => want[c] \in Wishes \ [rule : Rules]

Inv == TypeOK /\ CorpusInv /\ Asked /\ AnsweredIsRecorded

LEMMA InvInit == Init => Inv
<1>. SUFFICES ASSUME Init PROVE Inv  OBVIOUS
<1>1. LawCorpusTypeOK /\ CorpusInv
  BY CorpusTypeInit, CorpusInvInit DEF Init
<1>2. TypeOK
  BY <1>1 DEF Init, TypeOK
<1>3. Asked /\ AnsweredIsRecorded
  BY DEF Init, Asked, AnsweredIsRecorded
<1>. QED  BY <1>1, <1>2, <1>3 DEF Inv

\* A walk changes nothing of the requests.
LEMMA WalkKeeps ==
  ASSUME Inv, LawCorpusNext, UNCHANGED adminVars
  PROVE  Inv'
<1>. USE DEF adminVars
<1>1. LawCorpusTypeOK /\ CorpusInv /\ LawCorpusTypeOK' /\ CorpusInv'
  BY CorpusInvNext DEF Inv, TypeOK
<1>2. TypeOK'
  BY <1>1 DEF Inv, TypeOK
<1>3. Asked' /\ AnsweredIsRecorded'
  BY DEF Inv, Asked, AnsweredIsRecorded, Approval
<1>. QED  BY <1>1, <1>2, <1>3 DEF Inv

\* A request changes nothing of the walks but a gate.
LEMMA CorpusApart ==
  ASSUME Inv, UNCHANGED <<lawVars, objects, open, closed, runVars, kbVars, pastVars>>,
         state' = state \/ \E l \in Laws, b \in BOOLEAN :
                             state[l] # None /\ state' = [state EXCEPT ![l].active = b]
  PROVE  LawCorpusTypeOK' /\ CorpusInv'
<1>1. LawCorpusTypeOK /\ CorpusInv
  BY DEF Inv, TypeOK
<1>2. ASSUME NEW l \in Laws, NEW b \in BOOLEAN, state[l] # None,
             state' = [state EXCEPT ![l].active = b]
      PROVE  /\ state' \in [Laws -> StateRow \cup {None}]
             /\ \A k \in Laws :
                  \/ state'[k] = state[k]
                  \/ state[k] # None /\ state'[k] # None /\ state'[k].mst = state[k].mst
                       /\ state'[k].failures = state[k].failures
  <2>1. state \in [Laws -> StateRow \cup {None}] /\ state[l] \in StateRow
    BY <1>1, <1>2 DEF LawCorpusTypeOK
  <2>2. /\ \A k \in Laws \ {l} : state'[k] = state[k]
        /\ state'[l] = [state[l] EXCEPT !.active = b] /\ DOMAIN state' = Laws
    BY <1>2, <2>1
  <2>3. ASSUME NEW x \in StateRow
        PROVE  /\ [x EXCEPT !.active = b] \in StateRow /\ [x EXCEPT !.active = b].mst = x.mst
               /\ [x EXCEPT !.active = b].failures = x.failures
    BY DEF StateRow
  <2>4. state'[l] \in StateRow /\ state'[l].mst = state[l].mst /\ state'[l].failures = state[l].failures
    BY <2>1, <2>2, <2>3
  <2>5. state' \in [Laws -> StateRow \cup {None}]
    BY <1>2, <2>1, <2>2, <2>4
  <2>6. state'[l] # None
    BY <2>4, RegistryFacts
  <2>. QED  BY <1>2, <2>2, <2>4, <2>5, <2>6
<1>3. /\ state' \in [Laws -> StateRow \cup {None}]
      /\ \A k \in Laws :
           \/ state'[k] = state[k]
           \/ state[k] # None /\ state'[k] # None /\ state'[k].mst = state[k].mst
                /\ state'[k].failures = state[k].failures
  BY <1>1, <1>2 DEF LawCorpusTypeOK
<1>4. LawCorpusTypeOK'
  BY <1>1, <1>3 DEF LawCorpusTypeOK, lawVars, runVars, kbVars, pastVars
<1>. QED  BY <1>1, <1>3, <1>4, GateOnly

LEMMA RequestKeeps ==
  ASSUME Inv, NEW c \in Calls, Ask(c) \/ Approve(c) \/ ResolveReview(c) \/ CallFails(c)
  PROVE  Inv'
<1>1. /\ call \in [Calls -> {"idle", "approve", "commit", "resolve", "done"}]
      /\ want \in [Calls -> Wishes \cup {None}] /\ reply \in [Calls -> {0, 200, 400, 500, 503}]
      /\ approval \subseteq [rule : Rules, admin : Admins] /\ held \subseteq Calls
      /\ review \in [Laws -> {"none", "pending", "approve", "reject"}]
      /\ state \in [Laws -> StateRow \cup {None}] /\ LawCorpusTypeOK
  BY DEF Inv, TypeOK, LawCorpusTypeOK
<1>2. ASSUME UNCHANGED <<lawCorpusVars, review>>
      PROVE  LawCorpusTypeOK' /\ CorpusInv'
  BY <1>2, CorpusApart DEF lawCorpusVars, rowVars
<1>3. CASE Ask(c)
  <2>1. UNCHANGED <<lawCorpusVars, approval, review, held, reply>> /\ call[c] = "idle"
    BY <1>3 DEF Ask
  <2>2. PICK w \in Wishes : /\ want' = [want EXCEPT ![c] = w]
                            /\ call' = [call EXCEPT ![c] = IF w \in [rule : Rules] THEN "approve" ELSE "resolve"]
    BY <1>3 DEF Ask, Become
  <2>3. reply[c] = 0
    BY <2>1 DEF Inv, Asked
  <2>4. /\ call' \in [Calls -> {"idle", "approve", "commit", "resolve", "done"}]
        /\ want' \in [Calls -> Wishes \cup {None}]
    BY <1>1, <2>2
  <2>5. TypeOK'
    BY <1>1, <1>2, <2>1, <2>4 DEF TypeOK
  <2>6. want'[c] = w /\ call'[c] = (IF w \in [rule : Rules] THEN "approve" ELSE "resolve")
    BY <1>1, <2>2
  <2>7. Asked'
    BY <1>1, <2>1, <2>2, <2>3, <2>6 DEF Inv, Asked
  <2>8. AnsweredIsRecorded'
    <3>1. \A d \in Calls \ {c} : reply'[d] = 200 /\ want'[d] \in [rule : Rules] => Approval(d)' \in approval'
      BY <1>1, <2>1, <2>2 DEF Inv, AnsweredIsRecorded, Approval
    <3>. QED  BY <2>1, <2>3, <3>1 DEF AnsweredIsRecorded
  <2>. QED  BY <1>2, <2>1, <2>5, <2>7, <2>8 DEF Inv
\* The other routes answer, or go on to the commit.
<1>4. ASSUME UNCHANGED want, approval \subseteq approval', call[c] \notin {"idle", "done"},
             \/ /\ call' = [call EXCEPT ![c] = "commit"] /\ reply' = reply /\ call[c] = "approve"
             \/ \E code \in {200, 400, 500, 503} :
                  /\ call' = [call EXCEPT ![c] = "done"] /\ reply' = [reply EXCEPT ![c] = code]
                  /\ code = 200 /\ want[c] \in [rule : Rules] => Approval(c) \in approval'
      PROVE  /\ call' \in [Calls -> {"idle", "approve", "commit", "resolve", "done"}]
             /\ reply' \in [Calls -> {0, 200, 400, 500, 503}] /\ Asked' /\ AnsweredIsRecorded'
  <2>1. \A d \in Calls : Approval(d)' = Approval(d)
    BY <1>4 DEF Approval
  <2>2. CASE call' = [call EXCEPT ![c] = "commit"] /\ reply' = reply /\ call[c] = "approve"
    <3>1. Asked'
      BY <1>1, <1>4, <2>2 DEF Inv, Asked
    <3>2. AnsweredIsRecorded'
      BY <1>4, <2>1, <2>2 DEF Inv, AnsweredIsRecorded
    <3>. QED  BY <1>1, <2>2, <3>1, <3>2
  <2>3. ASSUME NEW code \in {200, 400, 500, 503}, call' = [call EXCEPT ![c] = "done"],
               reply' = [reply EXCEPT ![c] = code],
               code = 200 /\ want[c] \in [rule : Rules] => Approval(c) \in approval'
        PROVE  /\ call' \in [Calls -> {"idle", "approve", "commit", "resolve", "done"}]
               /\ reply' \in [Calls -> {0, 200, 400, 500, 503}] /\ Asked' /\ AnsweredIsRecorded'
    <3>1. Asked'
      BY <1>1, <1>4, <2>3 DEF Inv, Asked
    <3>2. AnsweredIsRecorded'
      BY <1>1, <1>4, <2>1, <2>3 DEF Inv, AnsweredIsRecorded
    <3>. QED  BY <1>1, <2>3, <3>1, <3>2
  <2>. QED  BY <1>4, <2>2, <2>3
<1>5. CASE InsertApproval(c)
  <2>1. /\ UNCHANGED <<lawCorpusVars, approval, review, want>> /\ call[c] = "approve"
        /\ held' = held \/ held' = held \cup {c}
    BY <1>5 DEF InsertApproval
  <2>2. \/ /\ call' = [call EXCEPT ![c] = "commit"] /\ reply' = reply
        \/ \E code \in {200, 400, 500, 503} :
             /\ call' = [call EXCEPT ![c] = "done"] /\ reply' = [reply EXCEPT ![c] = code]
             /\ code = 200 => Conflict(c) = "row"
    BY <1>5 DEF InsertApproval, Become, Reply
  <2>3. Conflict(c) = "row" => Approval(c) \in approval
    BY DEF Conflict
  <2>4. /\ call' \in [Calls -> {"idle", "approve", "commit", "resolve", "done"}]
        /\ reply' \in [Calls -> {0, 200, 400, 500, 503}] /\ Asked' /\ AnsweredIsRecorded'
    BY <1>4, <2>1, <2>2, <2>3
  <2>5. TypeOK'
    BY <1>1, <1>2, <2>1, <2>4 DEF TypeOK
  <2>. QED  BY <1>2, <2>1, <2>4, <2>5 DEF Inv
<1>6. CASE CommitApproval(c)
  <2>1. /\ UNCHANGED <<lawCorpusVars, review, want>> /\ call[c] = "commit"
        /\ held' = held \ {c} /\ approval' = approval \cup {Approval(c)}
        /\ call' = [call EXCEPT ![c] = "done"] /\ reply' = [reply EXCEPT ![c] = 200]
    BY <1>6 DEF CommitApproval, Become, Reply
  <2>2. /\ call' \in [Calls -> {"idle", "approve", "commit", "resolve", "done"}]
        /\ reply' \in [Calls -> {0, 200, 400, 500, 503}] /\ Asked' /\ AnsweredIsRecorded'
    BY <1>4, <2>1
  <2>3. Approval(c) \in [rule : Rules, admin : Admins]
    <3>1. want[c] \in [rule : Rules]
      BY <2>1 DEF Inv, Asked
    <3>2. By[c] \in Admins
      BY AdminsAssumption
    <3>. QED  BY <3>1, <3>2 DEF Approval
  <2>4. TypeOK'
    BY <1>1, <1>2, <2>1, <2>2, <2>3 DEF TypeOK
  <2>. QED  BY <1>2, <2>1, <2>2, <2>4 DEF Inv
<1>7. CASE ResolveReview(c)
  <2>. DEFINE l == want[c].law
              decision == want[c].decision
  <2>1. /\ call[c] = "resolve" /\ UNCHANGED <<approval, want, held>>
        /\ UNCHANGED <<lawVars, objects, open, closed, runVars, kbVars, pastVars>>
        /\ call' = [call EXCEPT ![c] = "done"] /\ reply' = [reply EXCEPT ![c] = 200]
    BY <1>7 DEF ResolveReview, Become, Reply
  <2>2. want[c] \notin [rule : Rules] /\ l \in Laws /\ decision \in {"approve", "reject"}
    BY <2>1 DEF Inv, Asked, Wishes
  <2>3. /\ call' \in [Calls -> {"idle", "approve", "commit", "resolve", "done"}]
        /\ reply' \in [Calls -> {0, 200, 400, 500, 503}] /\ Asked' /\ AnsweredIsRecorded'
    BY <1>4, <2>1, <2>2
  <2>4. \/ UNCHANGED <<review, state>>
        \/ /\ review[l] # "none" /\ review' = [review EXCEPT ![l] = decision]
           /\ \/ decision = "approve" /\ state[l] # None /\ state' = [state EXCEPT ![l].active = TRUE]
              \/ state' = state
    BY <1>7 DEF ResolveReview, Opened
  <2>5. state' = state \/ \E k \in Laws, b \in BOOLEAN :
                             state[k] # None /\ state' = [state EXCEPT ![k].active = b]
    BY <2>2, <2>4
  <2>6. LawCorpusTypeOK' /\ CorpusInv'
    BY <2>1, <2>5, CorpusApart
  <2>. HIDE DEF l, decision
  <2>7. TypeOK'
    BY <1>1, <2>1, <2>2, <2>3, <2>4, <2>6 DEF TypeOK
  <2>. QED  BY <2>1, <2>3, <2>6, <2>7 DEF Inv
<1>8. CASE CallFails(c)
  <2>1. /\ UNCHANGED <<lawCorpusVars, approval, review, want>> /\ call[c] \notin {"idle", "done"}
        /\ held' = held \ {c}
        /\ call' = [call EXCEPT ![c] = "done"] /\ reply' = [reply EXCEPT ![c] = 503]
    BY <1>8 DEF CallFails, Become, Reply
  <2>2. /\ call' \in [Calls -> {"idle", "approve", "commit", "resolve", "done"}]
        /\ reply' \in [Calls -> {0, 200, 400, 500, 503}] /\ Asked' /\ AnsweredIsRecorded'
    BY <1>4, <2>1
  <2>3. TypeOK'
    BY <1>1, <1>2, <2>1, <2>2 DEF TypeOK
  <2>. QED  BY <1>2, <2>1, <2>2, <2>3 DEF Inv
<1>. QED  BY <1>3, <1>5, <1>6, <1>7, <1>8 DEF Approve

LEMMA InvNext == Inv /\ [Next]_vars => Inv'
<1>. SUFFICES ASSUME Inv, [Next]_vars PROVE Inv'  OBVIOUS
<1>1. CASE LawCorpusNext /\ UNCHANGED adminVars
  BY <1>1, WalkKeeps
<1>2. ASSUME NEW c \in Calls, Ask(c) \/ Approve(c) \/ ResolveReview(c) \/ CallFails(c)
      PROVE  Inv'
  BY <1>2, RequestKeeps
<1>3. ASSUME NEW l \in Laws, Detect(l)
      PROVE  Inv'
  <2>1. /\ UNCHANGED <<lawVars, objects, open, closed, runVars, kbVars, pastVars>>
        /\ UNCHANGED <<approval, call, want, held, reply>>
        /\ state[l] # None /\ state' = [state EXCEPT ![l].active = FALSE]
        /\ review' = [review EXCEPT ![l] = "pending"]
    BY <1>3 DEF Detect
  <2>2. LawCorpusTypeOK' /\ CorpusInv'
    BY <2>1, CorpusApart
  <2>3. TypeOK'
    BY <2>1, <2>2 DEF Inv, TypeOK
  <2>4. Asked' /\ AnsweredIsRecorded'
    BY <2>1 DEF Inv, Asked, AnsweredIsRecorded, Approval
  <2>. QED  BY <2>2, <2>3, <2>4 DEF Inv
<1>4. CASE UNCHANGED vars
  <2>1. LawCorpusTypeOK' /\ CorpusInv'
    BY <1>4, CorpusApart DEF vars, lawCorpusVars, rowVars
  <2>2. TypeOK'
    BY <1>4, <2>1 DEF Inv, TypeOK, vars, adminVars
  <2>3. Asked' /\ AnsweredIsRecorded'
    BY <1>4 DEF Inv, Asked, AnsweredIsRecorded, Approval, vars, adminVars
  <2>. QED  BY <2>1, <2>2, <2>3 DEF Inv
<1>. QED  BY <1>1, <1>2, <1>3, <1>4 DEF Next

LEMMA InvAlways == Spec => []Inv
BY InvInit, InvNext, PTL DEF Spec
---------------------------------------------------------------------------
(* The theorems.                                                           *)

\* Every variable keeps its type, whatever runs and requests overlap, fail or are killed.
THEOREM TypeCorrect == Spec => []TypeOK
<1>1. Inv => TypeOK
  BY DEF Inv
<1>. QED  BY InvAlways, <1>1, PTL

\* A registered chunk can be fetched (S3LawCorpusRepository before PgLawChunkMetaRepository):
\* overlapping, failing and killed runs leave no row of a revision without its objects.
THEOREM RegisteredIsStored == Spec => []RowsHaveObjects
<1>1. Inv => RowsHaveObjects
  BY DEF Inv, CorpusInv, Rows, RowsHaveObjects
<1>. QED  BY InvAlways, <1>1, PTL

\* The revision tax_law_sync_state names as current has been registered, if it has articles.
THEOREM CurrentRevisionRegistered == Spec => []CurrentIsRegistered
<1>1. Inv => CurrentIsRegistered
  BY DEF Inv, CorpusInv
<1>. QED  BY InvAlways, <1>1, PTL

\* A walk repairs its law (closeStaleByLaw, then upsertMany): when it has met no other and
\* succeeds, the open rows are those of the revision named as current and no others, however
\* overlapping, failing or killed walks had left them.
THEOREM SuccessSettles == Spec => []SettledIsCurrent
<1>1. Inv => SettledIsCurrent
  BY DEF Inv, CorpusInv, Settled, SettledIsCurrent
<1>. QED  BY InvAlways, <1>1, PTL

\* A walk that has met no other leaves a law without open rows only when it is killed, or by a
\* failure that is counted.
THEOREM GapsAreSeen == Spec => []GapIsSeen
<1>1. Inv => GapIsSeen
  <2>. SUFFICES ASSUME Inv, NEW l \in Laws \ crossed, Between(l), outcome[l] \in {"ok", "failed"}
                PROVE  \/ state[l].failures > 0
                       \/ state[l].mst # None /\ Articles(l, state[l].mst) = << >>
                       \/ \E v \in Revisions : open[l][v] > 0
    BY DEF GapIsSeen
  <2>1. Settled(l)
    BY DEF Inv, CorpusInv
  <2>2. CASE outcome[l] = "failed"
    BY <2>1, <2>2 DEF Settled
  <2>3. CASE outcome[l] = "ok"
    <3>1. state[l].mst \in Revisions
          /\ (open[l][state[l].mst] > 0 <=> Articles(l, state[l].mst) # << >>)
      BY <2>1, <2>3 DEF Settled
    <3>2. state[l].mst # None
      BY <3>1, RegistryFacts DEF Revisions
    <3>. QED  BY <3>1, <3>2
  <2>. QED  BY <2>2, <2>3
<1>. QED  BY InvAlways, <1>1, PTL

\* An approval that was answered with success is on record.
THEOREM ApprovalsRecorded == Spec => []AnsweredIsRecorded
<1>1. Inv => AnsweredIsRecorded
  BY DEF Inv
<1>. QED  BY InvAlways, <1>1, PTL
=============================================================================
