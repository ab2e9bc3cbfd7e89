--------------------------- MODULE OnboardingProofs ---------------------------
(* Proofs about Onboarding, for any requests, keys and registration numbers. *)
EXTENDS Onboarding, FiniteSetTheorems, TLAPS

\* What a request is sent with is one of the inputs.
LEMMA InputType ==
  ASSUME TypeOK, NEW r \in Requests
  PROVE  /\ input[r].route \in {"me", "create", "list"}
         /\ input[r].brn \in Brns \cup {None}
         /\ Keyed(r) => input[r].key \in Keys
<1>1. input[r] \in [route : {"me", "create", "list"}, key : Keys \cup {None}, brn : Brns \cup {None}]
  BY InputsAssumption DEF TypeOK
<1> QED
  BY <1>1 DEF Keyed

\* A step of request r that goes to label l with an answer, and to tables that are given.
Moves(r, l, a) ==
  /\ pc' = [pc EXCEPT ![r] = l]
  /\ result' = [result EXCEPT ![r] = a]
  /\ input' = input /\ registered' \in BOOLEAN /\ birth' \in [Requests -> Nat]

\* The answer is the recorded one.
Backed(r, a) ==
  LET rec == records[input[r].key] IN
    rec # None /\ rec.status = "COMPLETED" /\ rec.tenant = a.tenant /\ rec.brn = input[r].brn

\* A step that writes none of the tables the invariant relates keeps it, provided the
\* request holds its record, and its tenant and owner exist, where they should.
LEMMA Calm ==
  ASSUME Onboarded, NEW r \in Requests, NEW l \in Labels, NEW a \in Result,
         Moves(r, l, a), UNCHANGED <<tenants, members, records>>,
         l \in {"claim", "complete", "release"} => Keyed(r),
         l \in {"seed", "answer"} => ~Keyed(r),
         Keyed(r) /\ l \notin Unheld => pc[r] \notin Unheld,
         l = "release" => a.code # 201,
         l = "done" /\ a.code = 201 => a.tenant \in members /\ (Keyed(r) => Backed(r, a)),
         l = "member" => r \in tenants,
         l \in {"seed", "answer", "complete"} => r \in members
  PROVE  Onboarded'
<1> USE DEF Onboarded, Moves
<1>1. TypeOK'
  BY DEF TypeOK
<1>2. /\ \A q \in Requests : pc'[q] = IF q = r THEN l ELSE pc[q]
      /\ \A q \in Requests : result'[q] = IF q = r THEN a ELSE result[q]
  BY DEF TypeOK
<1>3. \A q \in Requests : Keyed(q)' <=> Keyed(q)
  BY DEF Keyed
<1>4. \A q \in Requests : Created(q)' <=> IF q = r THEN l = "done" /\ a.code = 201 ELSE Created(q)
  BY <1>2 DEF Created
<1>5. Custody'
  BY <1>2, <1>3 DEF Custody
<1>6. Recorder'
  <2>1. \A q \in Requests : pc'[q] = "release" => result'[q].code # 201
    BY <1>2 DEF Recorder
  <2>2. \A q \in Requests : Created(q)' /\ Keyed(q) => Backed(q, result'[q])
    BY <1>2, <1>4 DEF Recorder, Backed
  <2> QED
    BY <2>1, <2>2, <1>3 DEF Recorder, Backed
<1>7. Owned'
  BY <1>2 DEF Owned
<1>8. CreatedMeansOwner'
  BY <1>2, <1>4 DEF CreatedMeansOwner
<1>9. OneTenantPerBrn'
  BY DEF OneTenantPerBrn, HasBrn
<1> QED
  BY <1>1, <1>5, <1>6, <1>7, <1>8, <1>9

\* The three ways to write the idempotency table keep the invariant.
LEMMA Writes ==
  ASSUME Onboarded, NEW r \in Requests, Keyed(r), NEW l \in Labels, NEW a \in Result,
         Moves(r, l, a), UNCHANGED <<tenants, members>>,
         \/ /\ pc[r] = "claim" /\ Claimable(records[input[r].key]) /\ records' = Opened(r)
            /\ l = "findUser" \/ (l = "done" /\ a.code # 201)
         \/ /\ pc[r] = "complete" /\ records' = Recorded(r)
            /\ l = "done" /\ (a.code = 201 => a.tenant = r)
         \/ /\ pc[r] = "release" /\ records' = Deleted(r)
            /\ l = "done" /\ a.code # 201
  PROVE  Onboarded'
<1> USE DEF Onboarded, Moves
<1> DEFINE k == input[r].key
           rec == records'[k]
<1>1. k \in Keys /\ input[r].brn \in Brns \cup {None}
  BY InputType
<1>2. records[k] \in Record \cup {None}
  BY <1>1 DEF TypeOK
<1>3. pc[r] # "claim" => records[k] \in Record /\ records[k].status = "INPROGRESS" /\ records[k].by = r
                         /\ records[k].brn = input[r].brn
  BY <1>2 DEF Custody, Unheld
<1>4. /\ \A j \in Keys \ {k} : records'[j] = records[j]
      /\ records' \in [Keys -> Record \cup {None}]
      /\ pc[r] = "claim" => rec \in Record /\ rec.status = "INPROGRESS" /\ rec.by = r /\ rec.brn = input[r].brn
      /\ pc[r] = "complete" => rec \in Record /\ rec.status = "COMPLETED" /\ rec.tenant = r /\ rec.brn = input[r].brn
      /\ pc[r] = "release" => rec = None
  BY <1>1, <1>2, <1>3 DEF Opened, Recorded, Deleted, TypeOK, Record
<1>5. None \notin Record
  BY NoneAssumption DEF Record
<1>6. TypeOK'
  BY <1>4 DEF TypeOK
<1>7. /\ \A q \in Requests : pc'[q] = IF q = r THEN l ELSE pc[q]
      /\ \A q \in Requests : result'[q] = IF q = r THEN a ELSE result[q]
      /\ \A q \in Requests : Keyed(q)' <=> Keyed(q)
  BY DEF TypeOK, Keyed
<1>8. \A q \in Requests \ {r} : Created(q)' <=> Created(q)
  BY <1>7 DEF Created
\* Another request with the same key holds no record, and was not answered.
<1>9. ASSUME NEW q \in Requests \ {r}, Keyed(q), input[q].key = k
      PROVE  pc[q] \in Unheld /\ ~Created(q)
  <2>1. records[k] # None => records[k].status = "INPROGRESS"
    BY <1>3, <1>2, <1>5 DEF Claimable
  <2>2. ~Created(q)
    BY <1>9, <2>1 DEF Recorder
  <2>3. pc[q] \in Unheld
    BY <1>3, <1>9 DEF Custody, Claimable, Ended, Unheld
  <2> QED
    BY <2>2, <2>3
<1>10. Custody'
  <2> SUFFICES ASSUME NEW q \in Requests
               PROVE  /\ pc'[q] \in {"claim", "complete", "release"} => Keyed(q)
                      /\ pc'[q] \in {"seed", "answer"} => ~Keyed(q)
                      /\ Keyed(q) /\ pc'[q] \notin Unheld =>
                           /\ records'[input[q].key] # None
                           /\ records'[input[q].key].status = "INPROGRESS"
                           /\ records'[input[q].key].by = q
                           /\ records'[input[q].key].brn = input[q].brn
    BY <1>7 DEF Custody
  <2>1. CASE q = r
    BY <2>1, <1>4, <1>5, <1>7 DEF Unheld
  <2>2. CASE q # r
    <3>1. Keyed(q) => input[q].key \in Keys
      BY InputType
    <3>2. Keyed(q) /\ pc[q] \notin Unheld => input[q].key # k
      BY <2>2, <1>9
    <3> QED
      BY <2>2, <3>1, <3>2, <1>4, <1>7 DEF Custody
  <2> QED
    BY <2>1, <2>2
<1>11. Recorder'
  <2> SUFFICES ASSUME NEW q \in Requests
               PROVE  /\ pc'[q] = "release" => result'[q].code # 201
                      /\ Created(q)' /\ Keyed(q) =>
                           /\ records'[input[q].key] # None
                           /\ records'[input[q].key].status = "COMPLETED"
                           /\ records'[input[q].key].tenant = result'[q].tenant
                           /\ records'[input[q].key].brn = input[q].brn
    BY <1>7 DEF Recorder
  <2>1. CASE q = r
    <3>1. Created(r)' => pc[r] = "complete" /\ a.code = 201
      BY <1>7 DEF Created
    <3> QED
      BY <2>1, <3>1, <1>4, <1>5, <1>7
  <2>2. CASE q # r
    <3>1. Keyed(q) => input[q].key \in Keys
      BY InputType
    <3>2. Keyed(q) /\ Created(q) => input[q].key # k
      BY <2>2, <1>9
    <3> QED
      BY <2>2, <3>1, <3>2, <1>4, <1>7, <1>8 DEF Recorder
  <2> QED
    BY <2>1, <2>2
<1>12. pc[r] = "complete" => r \in members
  BY DEF Owned
<1>13. Owned'
  <2>1. \A j \in Keys : records'[j] # None /\ records'[j].status = "COMPLETED" => records'[j].tenant \in members
    BY <1>4, <1>12 DEF Owned
  <2>2. \A q \in Requests : /\ pc'[q] = "member" => q \in tenants
                            /\ pc'[q] \in {"seed", "answer", "complete"} => q \in members
    BY <1>7 DEF Owned
  <2> QED
    BY <2>1, <2>2 DEF Owned
<1>14. CreatedMeansOwner'
  <2> SUFFICES ASSUME NEW q \in Requests, Created(q)' PROVE result'[q].tenant \in members
    BY DEF CreatedMeansOwner
  <2>1. CASE q = r
    BY <2>1, <1>7, <1>12 DEF Created
  <2>2. CASE q # r
    BY <2>2, <1>7, <1>8 DEF CreatedMeansOwner
  <2> QED
    BY <2>1, <2>2
<1>15. OneTenantPerBrn'
  BY DEF OneTenantPerBrn, HasBrn
<1> QED
  BY <1>6, <1>10, <1>11, <1>13, <1>14, <1>15

\* The invariant holds at first.
LEMMA Initially == Init => Onboarded
<1> SUFFICES ASSUME Init PROVE Onboarded
  OBVIOUS
<1>1. TypeOK
  BY DEF Init, TypeOK, Labels, Result, NoResult
<1>2. Custody /\ Recorder /\ Owned /\ CreatedMeansOwner /\ OneTenantPerBrn
  BY DEF Init, Custody, Recorder, Owned, CreatedMeansOwner, OneTenantPerBrn, Created, Unheld
<1> QED
  BY <1>1, <1>2 DEF Onboarded

\* Throwing keeps it: the request still holds its record, if it had one.
LEMMA Throws ==
  ASSUME Onboarded, NEW r \in Requests, NEW code \in {409, 500}, Throw(r, code),
         pc[r] \notin Unheld, UNCHANGED <<tenants, members, records, birth, input>>,
         registered' \in BOOLEAN
  PROVE  Onboarded'
<1> DEFINE l == IF Keyed(r) THEN "release" ELSE "done"
           a == [code |-> code, tenant |-> None]
<1>1. l \in Labels /\ a \in Result
  BY DEF Labels, Result
<1>2. Moves(r, l, a)
  BY DEF Throw, Goto, Moves, Onboarded, TypeOK
<1> QED
  BY <1>1, <1>2, Calm

\* So does going on without an answer.
LEMMA GoesOn ==
  ASSUME Onboarded, NEW r \in Requests, NEW l \in Labels, Goto(r, l),
         l \notin {"complete", "release", "member", "seed", "answer", "done"},
         l = "claim" => Keyed(r),
         Keyed(r) /\ l \notin Unheld => pc[r] \notin Unheld,
         UNCHANGED <<registered, tenants, members, records, input, result>>,
         birth' \in [Requests -> Nat]
  PROVE  Onboarded'
<1>1. Moves(r, l, result[r]) /\ result[r] \in Result
  BY DEF Goto, Moves, Onboarded, TypeOK
<1> QED
  BY <1>1, Calm

\* So does what follows the user.
LEMMA Continues ==
  ASSUME Onboarded, NEW r \in Requests, Continue(r), pc[r] \notin Unheld,
         registered' \in BOOLEAN, UNCHANGED <<tenants, members, records, birth, input>>
  PROVE  Onboarded'
<1> DEFINE l == IF input[r].route = "list" THEN "done" ELSE IF input[r].route = "me" THEN "findTenant" ELSE "begin"
           a == IF input[r].route = "list" THEN [code |-> 200, tenant |-> None] ELSE result[r]
<1>1. l \in Labels /\ a \in Result /\ Moves(r, l, a)
  BY DEF Continue, Answer, Goto, Moves, Labels, Onboarded, TypeOK, Result
<1>2. l = "done" => a.code # 201
  OBVIOUS
<1> QED
  BY <1>1, <1>2, Calm

\* Going on with an answer or to the next label, when it is a keyed request's record,
\* its tenant and its owner that the new label asks for.
LEMMA Answers ==
  ASSUME Onboarded, NEW r \in Requests, NEW code \in {200, 201, 409, 500}, NEW t \in Requests \cup {None},
         Answer(r, code, t), UNCHANGED <<registered, tenants, members, birth, records, input>>,
         code = 201 => t \in members /\ (Keyed(r) => Backed(r, [code |-> code, tenant |-> t]))
  PROVE  Onboarded'
<1> DEFINE a == [code |-> code, tenant |-> t]
<1>1. "done" \in Labels /\ a \in Result
  BY DEF Labels, Result
<1>2. Moves(r, "done", a)
  BY DEF Answer, Goto, Moves, Onboarded, TypeOK
<1> QED
  BY <1>1, <1>2, Calm DEF Unheld

\* A new tenant, of a registration number no other tenant has.
LEMMA Inserts ==
  ASSUME Onboarded, NEW r \in Requests, pc[r] = "insert", UniqueBrn(r),
         tenants' = tenants \cup {r}, Goto(r, "member"),
         UNCHANGED <<registered, members, birth, records, input, result>>
  PROVE  Onboarded'
<1> USE DEF Onboarded
<1>1. \A q \in Requests : pc'[q] = IF q = r THEN "member" ELSE pc[q]
  BY DEF TypeOK, Goto
<1>2. TypeOK'
  BY DEF TypeOK, Goto, Labels
<1>3. Custody'
  BY <1>1 DEF Custody, Unheld, Keyed
<1>4. \A q \in Requests : Created(q)' => Created(q)
  BY <1>1 DEF Created
<1>5. Recorder' /\ Owned' /\ CreatedMeansOwner'
  BY <1>1, <1>4 DEF Recorder, Owned, CreatedMeansOwner, Keyed
<1>6. OneTenantPerBrn'
  BY DEF OneTenantPerBrn, HasBrn, UniqueBrn
<1> QED
  BY <1>2, <1>3, <1>5, <1>6

\* Its owner.
LEMMA Joins ==
  ASSUME Onboarded, NEW r \in Requests, AddMember(r)
  PROVE  Onboarded'
<1> USE DEF Onboarded
<1> DEFINE l == IF Keyed(r) THEN "complete" ELSE IF input[r].route = "me" THEN "seed" ELSE "answer"
<1>1. /\ pc[r] = "member" /\ members' = members \cup {r} /\ pc' = [pc EXCEPT ![r] = l]
      /\ UNCHANGED <<registered, tenants, birth, records, input, result>>
  BY DEF AddMember, AddOwner, Goto
<1>2. \A q \in Requests : pc'[q] = IF q = r THEN l ELSE pc[q]
  BY <1>1 DEF TypeOK
<1>3. TypeOK'
  BY <1>1 DEF TypeOK, Owned, Labels
<1>4. Custody'
  BY <1>1, <1>2 DEF Custody, Unheld, Keyed
<1>5. \A q \in Requests : Created(q)' => Created(q)
  BY <1>1, <1>2 DEF Created
<1>6. Recorder'
  BY <1>1, <1>2, <1>5 DEF Recorder, Keyed
<1>7. Owned' /\ CreatedMeansOwner'
  BY <1>1, <1>2, <1>5 DEF Owned, CreatedMeansOwner
<1>8. OneTenantPerBrn'
  BY <1>1 DEF OneTenantPerBrn, HasBrn
<1> QED
  BY <1>3, <1>4, <1>6, <1>7, <1>8

\* Every step of the users' requests keeps the invariant.
LEMMA Steps == Onboarded /\ [Next]_vars => Onboarded'
<1> SUFFICES ASSUME Onboarded, [Next]_vars PROVE Onboarded'
  OBVIOUS
<1>1. CASE UNCHANGED vars
  BY <1>1 DEF vars, Onboarded, TypeOK, Custody, Recorder, Owned, CreatedMeansOwner, OneTenantPerBrn,
              Keyed, Created, HasBrn, Unheld
<1>2. SUFFICES ASSUME NEW r \in Requests, Step(r) \/ StoreFails(r) \/ Fail(r) \/ Kill(r)
               PROVE  Onboarded'
  BY <1>1 DEF Next
<1>3. /\ registered \in BOOLEAN /\ birth \in [Requests -> Nat]
      /\ pc[r] \in {"claim", "complete", "release"} => Keyed(r)
      /\ pc[r] \in {"seed", "answer"} => ~Keyed(r) /\ r \in members
      /\ tenants \subseteq Requests
  BY DEF Onboarded, TypeOK, Custody, Owned
<1>4. CASE Arrive(r)
  <2> DEFINE l == IF Keyed(r) THEN "claim" ELSE "findUser"
  <2>1. l \in Labels /\ Goto(r, l)
    BY <1>4 DEF Arrive, Labels
  <2> QED
    BY <1>3, <1>4, <2>1, GoesOn DEF Arrive, Unheld
<1>5. CASE Claim(r)
  <2>1. Moves(r, "findUser", result[r]) /\ result[r] \in Result /\ "findUser" \in Labels
    BY <1>5, <1>3 DEF Claim, Goto, Moves, Onboarded, TypeOK, Labels
  <2> QED
    BY <1>5, <1>3, <2>1, Writes DEF Claim
<1>6. CASE Replay(r)
  <2> DEFINE rec == records[input[r].key]
  <2>1. /\ pc[r] = "claim" /\ rec # None /\ Keyed(r)
        /\ UNCHANGED <<registered, tenants, members, birth, records, input>>
    BY <1>6, <1>3 DEF Replay
  <2>2. CASE Answer(r, 409, None)
    BY <2>1, <2>2, Answers
  <2>3. CASE rec.status # "INPROGRESS" /\ rec.brn = input[r].brn /\ Answer(r, 201, rec.tenant)
    <3>1. input[r].key \in Keys
      BY <2>1, InputType DEF Onboarded
    <3>2. rec \in Record
      BY <2>1, <3>1 DEF Onboarded, TypeOK
    <3>3. rec.status = "COMPLETED" /\ rec.tenant \in members /\ rec.tenant \in Requests \cup {None}
      BY <2>1, <2>3, <3>1, <3>2 DEF Record, Onboarded, Owned
    <3> QED
      BY <2>1, <2>3, <3>3, Answers DEF Backed
  <2> QED
    BY <1>6, <2>2, <2>3 DEF Replay
<1>7. CASE FindUser(r) \/ LookAgain(r)
  <2>1. /\ pc[r] \in {"findUser", "upsert"}
        /\ UNCHANGED <<registered, tenants, members, birth, records, input>>
        /\ Continue(r) \/ (UNCHANGED result /\ (Goto(r, "upsert") \/ Goto(r, "insertUser")))
    BY <1>7 DEF FindUser, LookAgain
  <2>2. "upsert" \in Labels /\ "insertUser" \in Labels
    BY DEF Labels
  <2> QED
    BY <1>3, <2>1, <2>2, Continues, GoesOn DEF Unheld
<1>8. CASE InsertUser(r)
  BY <1>8, Throws, Continues DEF InsertUser, Unheld
<1>9. CASE FindTenant(r)
  <2>1. /\ pc[r] = "findTenant"
        /\ UNCHANGED <<registered, tenants, members, birth, records, input>>
        /\ (\E t \in Requests : Answer(r, 200, t)) \/ (UNCHANGED result /\ Goto(r, "begin"))
    BY <1>9, <1>3 DEF FindTenant, Personal
  <2>2. "begin" \in Labels
    BY DEF Labels
  <2> QED
    BY <1>3, <2>1, <2>2, Answers, GoesOn DEF Unheld
<1>10. CASE BeginTenant(r)
  <2> DEFINE Begun == {s \in Requests : birth[s] > 0}
  <2>1. IsFiniteSet(Begun)
    BY RequestsAssumption, FS_Subset
  <2>2. Cardinality(Begun) + 1 \in Nat
    BY <2>1, FS_CardinalityType
  <2>3. birth' \in [Requests -> Nat]
    BY <1>3, <1>10, <2>2 DEF BeginTenant
  <2>4. "insert" \in Labels
    BY DEF Labels
  <2> QED
    BY <1>10, <2>3, <2>4, GoesOn DEF BeginTenant, Unheld
<1>11. CASE InsertTenant(r)
  BY <1>3, <1>11, Inserts, Throws DEF InsertTenant, Unheld
<1>12. CASE AddMember(r)
  BY <1>12, Joins
<1>13. CASE Respond(r)
  <2>1. /\ ~Keyed(r) /\ r \in members
        /\ UNCHANGED <<registered, tenants, members, birth, records, input>>
    BY <1>3, <1>13 DEF Respond
  <2>2. PICK code \in {200, 201} : Answer(r, code, r)
    BY <1>13 DEF Respond
  <2>3. code \in {200, 201, 409, 500} /\ r \in Requests \cup {None}
    BY <2>2
  <2> QED
    BY <2>1, <2>2, <2>3, Answers
<1>14. CASE Complete(r)
  <2> DEFINE a == [code |-> 201, tenant |-> r]
  <2>1. Moves(r, "done", a) /\ a \in Result /\ "done" \in Labels
    BY <1>3, <1>14 DEF Complete, Answer, Goto, Moves, Onboarded, TypeOK, Labels, Result
  <2> QED
    BY <1>3, <1>14, <2>1, Writes DEF Complete
<1>15. CASE Release(r)
  <2>1. Moves(r, "done", result[r]) /\ result[r] \in Result /\ "done" \in Labels
    BY <1>3, <1>15 DEF Release, Goto, Moves, Onboarded, TypeOK, Labels
  <2>2. result[r].code # 201
    BY <1>15 DEF Release, Onboarded, Recorder
  <2> QED
    BY <1>3, <1>15, <2>1, <2>2, Writes DEF Release
<1>16. CASE StoreFails(r)
  <2> DEFINE a == [code |-> 500, tenant |-> None]
  <2>1. Moves(r, "done", a) /\ a \in Result /\ "done" \in Labels
    BY <1>3, <1>16 DEF StoreFails, Answer, Goto, Moves, Onboarded, TypeOK, Labels, Result
  <2>2. /\ Keyed(r) /\ Answer(r, 500, None)
        /\ UNCHANGED <<registered, tenants, members, birth, input>>
    BY <1>3, <1>16 DEF StoreFails
  <2>3. CASE records' = records
    BY <2>2, <2>3, Answers
  <2>4. CASE records' # records
    BY <1>16, <2>1, <2>2, <2>4, Writes DEF StoreFails
  <2> QED
    BY <2>3, <2>4
<1>17. CASE Fail(r)
  BY <1>3, <1>17, Throws DEF Fail, Unheld
<1>18. CASE Kill(r)
  <2>1. "killed" \in Labels
    BY DEF Labels
  <2> QED
    BY <1>3, <1>18, <2>1, GoesOn DEF Kill, Unheld
<1> QED
  BY <1>2, <1>4, <1>5, <1>6, <1>7, <1>8, <1>9, <1>10, <1>11, <1>12, <1>13, <1>14, <1>15, <1>16, <1>17, <1>18
     DEF Step

\* The invariant, of which the properties are conjuncts or consequences.
THEOREM Invariance == Spec => []Onboarded
  BY Initially, Steps, PTL DEF Spec

\* The tables keep their types, and an owner row has its tenant, whatever fails.
THEOREM TypeCorrect == Spec => []TypeOK
<1>1. Onboarded => TypeOK
  BY DEF Onboarded
<1> QED
  BY <1>1, Invariance, PTL

\* One Idempotency-Key is told of one tenant, however many requests carry it, and
\* whichever of its holders fail or are killed.
THEOREM OneKeyOneTenant == Spec => []SameKeySameTenant
<1>1. Onboarded => SameKeySameTenant
  BY DEF Onboarded, Recorder, SameKeySameTenant
<1> QED
  BY <1>1, Invariance, PTL

\* A user who is told "created" is the owner of the tenant.
THEOREM CreatorOwns == Spec => []CreatedMeansOwner
<1>1. Onboarded => CreatedMeansOwner
  BY DEF Onboarded
<1> QED
  BY <1>1, Invariance, PTL

\* No registration number gets two tenants.
THEOREM BrnUnique == Spec => []OneTenantPerBrn
<1>1. Onboarded => OneTenantPerBrn
  BY DEF Onboarded
<1> QED
  BY <1>1, Invariance, PTL
=============================================================================
