------------------------------ MODULE Onboarding ------------------------------
(***************************************************************************)
(* A user meets the service (apps/identity): GET /me creates the user and a *)
(* personal tenant, POST /tenants creates a tenant, optionally with a       *)
(* business registration number (brn) and an Idempotency-Key.  One user's   *)
(* requests run concurrently, and any of them may fail or be killed between *)
(* two transactions.  A retry is a further request.                         *)
(*                                                                         *)
(* A request inserts at most one tenant, which is named after it.          *)
(***************************************************************************)
EXTENDS Integers, FiniteSets

CONSTANTS
  Requests,
  Faulty,    \* requests that may fail or be killed
  Inputs,    \* what clients send: route, key, brn
  Keys,      \* values of the Idempotency-Key header
  Brns,      \* business registration numbers
  None

ASSUME RequestsAssumption == IsFiniteSet(Requests) /\ Faulty \subseteq Requests /\ None \notin Requests
ASSUME NoneAssumption ==
  None \notin [status : {"INPROGRESS", "COMPLETED"}, brn : Brns \cup {None}, by : Requests, tenant : Requests \cup {None}]
ASSUME InputsAssumption ==
  Inputs \subseteq [route : {"me", "create", "list"}, key : Keys \cup {None}, brn : Brns \cup {None}]

VARIABLES
  registered, \* the user has a row in users
  tenants,    \* committed rows of tenants
  members,    \* tenants with an owner row in tenant_members
  birth,      \* order of created_at, which is the start of the INSERT's transaction
  records,    \* the idempotency table
  pc,         \* what a request does next
  input,      \* what it was sent with
  result      \* its answer: a status and the tenant it names

vars == <<registered, tenants, members, birth, records, pc, input, result>>

Record == [status : {"INPROGRESS", "COMPLETED"}, brn : Brns \cup {None},
           by : Requests, tenant : Requests \cup {None}]
Result == [code : {0, 200, 201, 409, 500}, tenant : Requests \cup {None}]
NoResult == [code |-> 0, tenant |-> None]
---------------------------------------------------------------------------
Init ==
  /\ registered \in BOOLEAN
  /\ tenants = {} /\ members = {}
  /\ birth = [r \in Requests |-> 0]
  /\ records = [k \in Keys |-> None]
  /\ pc = [r \in Requests |-> "new"]
  /\ input \in [Requests -> Inputs]
  /\ result = [r \in Requests |-> NoResult]

Keyed(r)    == input[r].route = "create" /\ input[r].key # None
HasBrn(t)   == input[t].route = "create" /\ input[t].brn # None
Personal    == {t \in tenants : ~HasBrn(t)}
\* A record in progress expires when its holder's Lambda would time out: after its end.
Ended(r)    == pc[r] \in {"done", "killed"}

Goto(r, l) == pc' = [pc EXCEPT ![r] = l]

Answer(r, code, t) ==
  /\ result' = [result EXCEPT ![r] = [code |-> code, tenant |-> t]]
  /\ Goto(r, "done")

\* A controller throws: makeIdempotent deletes the key's record before it rethrows.
Throw(r, code) ==
  /\ result' = [result EXCEPT ![r] = [code |-> code, tenant |-> None]]
  /\ Goto(r, IF Keyed(r) THEN "release" ELSE "done")

Arrive(r) ==
  /\ pc[r] = "new"
  /\ Goto(r, IF Keyed(r) THEN "claim" ELSE "findUser")
  /\ UNCHANGED <<registered, tenants, members, birth, records, input, result>>
---------------------------------------------------------------------------
(* The idempotency layer around POST /tenants.                             *)

\* Deviation: any record in progress may be taken over.
AnyInProgress(rec) == rec # None => rec.status = "INPROGRESS"
\* The conditional put succeeds on no record, or on one in progress past its expiry.
Claimable(rec) == rec # None => rec.status = "INPROGRESS" /\ Ended(rec.by)

\* What the calls write: a record in progress, the recorded answer, nothing.
Opened(r)   == [records EXCEPT ![input[r].key] =
                  [status |-> "INPROGRESS", brn |-> input[r].brn, by |-> r, tenant |-> None]]
Recorded(r) == [records EXCEPT ![input[r].key] =
                  [status |-> "COMPLETED", brn |-> input[r].brn, by |-> r, tenant |-> r]]
Deleted(r)  == [records EXCEPT ![input[r].key] = None]

Claim(r) ==
  /\ pc[r] = "claim"
  /\ Claimable(records[input[r].key])
  /\ records' = Opened(r)
  /\ Goto(r, "findUser")
  /\ UNCHANGED <<registered, tenants, members, birth, input, result>>

\* The record exists: 409 while it is in progress or when the body differs, else the
\* recorded answer.
Replay(r) ==
  LET rec == records[input[r].key] IN
  /\ pc[r] = "claim"
  /\ rec # None
  /\ IF rec.status = "INPROGRESS" \/ rec.brn # input[r].brn
     THEN Answer(r, 409, None)
     ELSE Answer(r, 201, rec.tenant)
  /\ UNCHANGED <<registered, tenants, members, birth, records, input>>

\* The response is recorded, then returned.
Complete(r) ==
  /\ pc[r] = "complete"
  /\ records' = Recorded(r)
  /\ Answer(r, 201, r)
  /\ UNCHANGED <<registered, tenants, members, birth, input>>

Release(r) ==
  /\ pc[r] = "release"
  /\ records' = Deleted(r)
  /\ Goto(r, "done")
  /\ UNCHANGED <<registered, tenants, members, birth, input, result>>

\* A call to the table fails, with or without its effect, and the client gets a 500.
StoreFails(r) ==
  /\ r \in Faulty
  /\ \/ pc[r] = "claim" /\ records' = records
     \/ pc[r] = "claim" /\ Claimable(records[input[r].key]) /\ records' = Opened(r)
     \/ pc[r] = "complete" /\ records' \in {records, Recorded(r)}
     \/ pc[r] = "release" /\ records' \in {records, Deleted(r)}
  /\ Answer(r, 500, None)
  /\ UNCHANGED <<registered, tenants, members, birth, input>>
---------------------------------------------------------------------------
(* The controllers, one action per transaction.                            *)

\* What follows the user: find or create a personal tenant, create one, or list.
Continue(r) ==
  IF input[r].route = "list" THEN Answer(r, 200, None)
  ELSE /\ Goto(r, IF input[r].route = "me" THEN "findTenant" ELSE "begin")
       /\ UNCHANGED result

FindUser(r) ==
  /\ pc[r] = "findUser"
  /\ IF registered THEN Continue(r) ELSE Goto(r, "upsert") /\ UNCHANGED result
  /\ UNCHANGED <<registered, tenants, members, birth, records, input>>

\* The upsert looks for the row again.  If it finds it, it sets app.current_user_id
\* and the conflict is an UPDATE row security allows.
LookAgain(r) ==
  /\ pc[r] = "upsert"
  /\ IF registered THEN Continue(r) ELSE Goto(r, "insertUser") /\ UNCHANGED result
  /\ UNCHANGED <<registered, tenants, members, birth, records, input>>

\* If it did not, a row that has appeared since is one users_update_self rejects.
InsertUser(r) ==
  /\ pc[r] = "insertUser"
  /\ IF registered THEN Throw(r, 500) ELSE Continue(r)
  /\ registered' = TRUE
  /\ UNCHANGED <<tenants, members, birth, records, input>>

\* findByCreatedByUserId: the user's oldest personal tenant, whoever is its member.
FindTenant(r) ==
  /\ pc[r] = "findTenant"
  /\ IF Personal = {} THEN Goto(r, "begin") /\ UNCHANGED result
     ELSE \E t \in Personal : /\ \A s \in Personal : birth[t] <= birth[s]
                              /\ Answer(r, 200, t)
  /\ UNCHANGED <<registered, tenants, members, birth, records, input>>

BeginTenant(r) ==
  /\ pc[r] = "begin"
  /\ birth' = [birth EXCEPT ![r] = Cardinality({s \in Requests : birth[s] > 0}) + 1]
  /\ Goto(r, "insert")
  /\ UNCHANGED <<registered, tenants, members, records, input, result>>

\* Deviation: biz_reg_no_hash is not unique.
AnyBrn(r) == TRUE
UniqueBrn(r) == HasBrn(r) => \A t \in tenants : HasBrn(t) => input[t].brn # input[r].brn

\* A conflict is a 409.
InsertTenant(r) ==
  /\ pc[r] = "insert"
  /\ IF UniqueBrn(r) THEN tenants' = tenants \cup {r} /\ Goto(r, "member") /\ UNCHANGED result
     ELSE Throw(r, 409) /\ UNCHANGED tenants
  /\ UNCHANGED <<registered, members, birth, records, input>>

\* Deviation: the owner is added after the answer, if at all.
OwnerLater(r) == members' \in {members, members \cup {r}}
AddOwner(r) == members' = members \cup {r}

\* GET /me then invokes the filing generator, which never fails it.
AddMember(r) ==
  /\ pc[r] = "member"
  /\ AddOwner(r)
  /\ Goto(r, IF Keyed(r) THEN "complete" ELSE IF input[r].route = "me" THEN "seed" ELSE "answer")
  /\ UNCHANGED <<registered, tenants, birth, records, input, result>>

Respond(r) ==
  /\ pc[r] \in {"seed", "answer"}
  /\ Answer(r, IF pc[r] = "seed" THEN 200 ELSE 201, r)
  /\ UNCHANGED <<registered, tenants, members, birth, records, input>>

\* A transaction, KMS or the validation of the body fails; or the transaction before
\* was committed without the handler hearing of it.
Fail(r) ==
  /\ r \in Faulty
  /\ pc[r] \in {"findUser", "upsert", "insertUser", "findTenant", "begin", "insert", "member",
                "seed", "answer", "complete"}
  /\ Throw(r, 500)
  /\ UNCHANGED <<registered, tenants, members, birth, records, input>>

\* The Lambda is killed: nobody answers, and a record stays in progress.
Kill(r) ==
  /\ r \in Faulty /\ pc[r] # "new" /\ ~Ended(r)
  /\ Goto(r, "killed")
  /\ UNCHANGED <<registered, tenants, members, birth, records, input, result>>

Step(r) ==
  \/ Arrive(r) \/ Claim(r) \/ Replay(r) \/ FindUser(r) \/ LookAgain(r) \/ InsertUser(r)
  \/ FindTenant(r) \/ BeginTenant(r) \/ InsertTenant(r) \/ AddMember(r) \/ Respond(r)
  \/ Complete(r) \/ Release(r)

Next == \E r \in Requests : Step(r) \/ StoreFails(r) \/ Fail(r) \/ Kill(r)

Spec == Init /\ [][Next]_vars
---------------------------------------------------------------------------
(* Properties.                                                             *)

Labels == {"new", "claim", "findUser", "upsert", "insertUser", "findTenant", "begin", "insert",
           "member", "seed", "answer", "complete", "release", "done", "killed"}

\* Every variable has its type; an owner's tenant exists.
TypeOK ==
  /\ registered \in BOOLEAN
  /\ tenants \subseteq Requests /\ members \subseteq tenants
  /\ birth \in [Requests -> Nat]
  /\ records \in [Keys -> Record \cup {None}]
  /\ pc \in [Requests -> Labels]
  /\ input \in [Requests -> Inputs]
  /\ result \in [Requests -> Result]

Created(r) == pc[r] = "done" /\ result[r].code = 201

\* Requests with one Idempotency-Key that are told "created" are told the same tenant,
\* also after holders of the key have failed or were killed.
SameKeySameTenant ==
  \A r, s \in Requests :
    /\ Created(r) /\ Created(s) /\ Keyed(r) /\ Keyed(s) /\ input[r].key = input[s].key
    => result[r].tenant = result[s].tenant /\ input[r].brn = input[s].brn

\* Whoever is told "created", by a fresh or a recorded answer, owns the tenant.
CreatedMeansOwner == \A r \in Requests : Created(r) => result[r].tenant \in members

\* A registration number has at most one tenant, however often it is submitted.
OneTenantPerBrn ==
  \A s, t \in tenants : HasBrn(s) /\ HasBrn(t) /\ input[s].brn = input[t].brn => s = t

\* GET /me is idempotent: it names the same tenant each time.  The code does not have
\* this property (README, Disagreements found).
MeIsIdempotent ==
  \A r, s \in Requests :
    (\A q \in {r, s} : pc[q] = "done" /\ input[q].route = "me" /\ result[q].code = 200)
    => result[r].tenant = result[s].tenant
---------------------------------------------------------------------------
(* Strengthening for the proofs.                                           *)

Unheld == {"new", "claim", "done", "killed"}

\* A keyed request that is past its claim holds the record of its key.
Custody ==
  \A r \in Requests :
    /\ pc[r] \in {"claim", "complete", "release"} => Keyed(r)
    /\ pc[r] \in {"seed", "answer"} => ~Keyed(r)
    /\ Keyed(r) /\ pc[r] \notin Unheld =>
         LET rec == records[input[r].key] IN
           rec # None /\ rec.status = "INPROGRESS" /\ rec.by = r /\ rec.brn = input[r].brn

\* Keyed requests are told what is recorded for good.
Recorder ==
  \A r \in Requests :
    /\ pc[r] = "release" => result[r].code # 201
    /\ Created(r) /\ Keyed(r) =>
         LET rec == records[input[r].key] IN
           rec # None /\ rec.status = "COMPLETED" /\ rec.tenant = result[r].tenant /\ rec.brn = input[r].brn

\* A recorded tenant has its owner, and so has one that is about to be answered.
Owned ==
  /\ \A k \in Keys : records[k] # None /\ records[k].status = "COMPLETED" => records[k].tenant \in members
  /\ \A r \in Requests :
       /\ pc[r] = "member" => r \in tenants
       /\ pc[r] \in {"seed", "answer", "complete"} => r \in members

Onboarded == TypeOK /\ Custody /\ Recorder /\ Owned /\ CreatedMeansOwner /\ OneTenantPerBrn
=============================================================================
