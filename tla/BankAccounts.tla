----------------------------- MODULE BankAccounts -----------------------------
(***************************************************************************)
(* A tenant's bank connections and accounts (apps/identity, apps/fx).       *)
(* POST /bank-connections lets CODEF issue a connectedId and stores it for  *)
(* the bank; an account is added with the id stored at that time; foreign   *)
(* accounts are registered by hand, or discovered and linked, then edited   *)
(* and deactivated.  The members' requests run concurrently, each a few     *)
(* transactions with calls to CODEF between them.                           *)
(*                                                                         *)
(* A connectedId is named after the request that obtained it.  CODEF and    *)
(* the bank are external: any call may fail, and a login may expire.        *)
(***************************************************************************)
EXTENDS Integers, FiniteSets

CONSTANTS
  Requests,
  Orders,    \* what clients send: an operation and the account or bank it names
  Orgs,      \* organisation codes of banks
  AtBank,    \* the accounts at the banks: <<organisation, number>> to its kind
  Earlier,   \* the connectedId of a connection made before
  Before,    \* the rows there may be before: sets of accounts added with Earlier
  Manual,    \* the organisation 'MANL'
  None

ConnectedIds == Requests \cup {Earlier}
BankKeys     == DOMAIN AtBank
\* An account entered by hand gets a random number: it is named after its request.
ManualKeys   == {Manual} \X Requests
Keys         == BankKeys \cup ManualKeys
Operations   == {"connect", "add", "register", "balance", "discover", "link", "deactivate"}

ASSUME BankAssumption ==
  /\ BankKeys \subseteq Orgs \X {k[2] : k \in BankKeys}
  /\ \A k \in BankKeys : AtBank[k] \in {"deposit", "usd", "other"}
  /\ Before \subseteq SUBSET BankKeys
  /\ Manual \notin Orgs
\* What calls CODEF names an account of a bank.
ASSUME OrdersAssumption ==
  /\ Orders \subseteq [op : Operations, key : Keys]
  /\ \A o \in Orders : o.op \in {"connect", "add", "discover", "link"} => o.key \in BankKeys
ASSUME NamesAssumption == Earlier \notin Requests /\ None \notin ConnectedIds

VARIABLES
  connection, \* tenant_bank_connections: the connectedId of a bank
  rows,       \* tenant_bank_accounts: a bank's account or a manual one to its row
  expired,    \* connectedIds whose login at the bank is no longer accepted
  listed,     \* connectedIds CODEF has answered an account list for, and the bank it was for
  pc, input,
  held,       \* the connectedId a request has read or been issued
  code        \* the status it is answered with

accountVars == <<connection, rows, expired, listed, pc, input, held, code>>

Row == [kind : {"krw_demand", "foreign"}, manual : BOOLEAN, active : BOOLEAN,
        id : ConnectedIds \cup {None}]
NoOrder == [op |-> "none", key |-> None]
NoRow == [kind |-> "none", manual |-> FALSE, active |-> FALSE, id |-> None]
Exists(k) == rows[k] # NoRow

Bank(r) == input[r].key[1]
Op(r)   == input[r].op
---------------------------------------------------------------------------
Added(k, id) == [kind |-> IF AtBank[k] = "deposit" THEN "krw_demand" ELSE "foreign",
                 manual |-> FALSE, active |-> TRUE, id |-> id]

\* Nothing yet, or a connection from before with some of the accounts.
AccountsInit ==
  /\ \E known \in Before :
       /\ rows = [k \in Keys |-> IF k \in known THEN Added(k, Earlier) ELSE NoRow]
       /\ connection = [o \in Orgs |-> IF \E k \in known : k[1] = o THEN Earlier ELSE None]
       /\ listed = {<<Earlier, k[1]>> : k \in known}
  /\ expired = {}
  /\ pc = [r \in Requests |-> "idle"]
  /\ input = [r \in Requests |-> NoOrder]
  /\ held = [r \in Requests |-> None]
  /\ code = [r \in Requests |-> 0]

Goto(r, l) == pc' = [pc EXCEPT ![r] = l]
Answer(r, c) == Goto(r, "done") /\ code' = [code EXCEPT ![r] = c]
Data == <<connection, rows, expired, listed>>

\* CODEF or the bank answers a request made with an id; no answer is certain.
Accepts(id) == id \notin expired

Arrive(r) ==
  /\ pc[r] = "idle"
  /\ \E o \in Orders : input' = [input EXCEPT ![r] = o]
  /\ Goto(r, "new")
  /\ UNCHANGED <<Data, held, code>>
---------------------------------------------------------------------------
(* POST /bank-connections.                                                 *)

\* Deviation: the id is stored before the accounts are listed.
StoredEarly(r) ==
  /\ pc[r] = "new" /\ Op(r) = "connect"
  /\ connection' = [connection EXCEPT ![Bank(r)] = r]
  /\ Goto(r, "list") /\ held' = [held EXCEPT ![r] = r]
  /\ UNCHANGED <<rows, expired, listed, input, code>>

\* account/create: the bank's login is tried, and an id is issued.
CreateAccount(r) ==
  /\ pc[r] = "new" /\ Op(r) = "connect"
  /\ \/ Goto(r, "list") /\ held' = [held EXCEPT ![r] = r] /\ UNCHANGED code
     \/ Answer(r, 502) /\ UNCHANGED held
  /\ UNCHANGED <<Data, input>>

\* account-list: if it fails the id is dropped, and the client has to start again.
ListAccounts(r) ==
  /\ pc[r] = "list"
  /\ \/ /\ Accepts(r) /\ Goto(r, "upsert") /\ UNCHANGED code
        /\ listed' = listed \cup {<<r, Bank(r)>>}
     \/ Answer(r, 502) /\ UNCHANGED listed
  /\ UNCHANGED <<connection, rows, expired, input, held>>

UpsertConnection(r) ==
  /\ pc[r] = "upsert"
  /\ connection' = [connection EXCEPT ![Bank(r)] = held[r]]
  /\ Answer(r, 200)
  /\ UNCHANGED <<rows, expired, listed, input, held>>

Connect(r) == CreateAccount(r) \/ ListAccounts(r) \/ UpsertConnection(r)
---------------------------------------------------------------------------
(* An account of a bank is added or linked with the id read before.         *)

\* No connection is a 422 for POST /bank-accounts, a 404 for the foreign accounts.
Refusal(r) == IF Op(r) = "add" THEN 422 ELSE 404

ReadConnection(r) ==
  /\ pc[r] = "new" /\ Op(r) \in {"add", "link", "discover"}
  /\ LET id == connection[Bank(r)] IN
     IF id = None
     THEN Answer(r, Refusal(r)) /\ UNCHANGED held
     ELSE /\ held' = [held EXCEPT ![r] = id]
          /\ Goto(r, IF Op(r) = "add" THEN "insert" ELSE "listForeign")
          /\ UNCHANGED code
  /\ UNCHANGED <<Data, input>>

\* CODEF lists deposits apart.
Foreign(k) == AtBank[k] # "deposit"

\* The foreign accounts CODEF lists are answered, or searched for the one to link.
ListForeign(r) ==
  /\ pc[r] = "listForeign"
  /\ \/ Answer(r, 502)
     \/ /\ Accepts(held[r])
        /\ IF Op(r) = "discover" THEN Answer(r, 200)
           ELSE CASE ~Foreign(input[r].key)          -> Answer(r, 404)
                  [] AtBank[input[r].key] = "other" -> Answer(r, 422)
                  [] AtBank[input[r].key] = "usd" -> \/ Goto(r, "insert") /\ UNCHANGED code
                                                     \/ Answer(r, 422)  \* an overdrawn balance
  /\ UNCHANGED <<Data, input, held>>

\* POST /bank-accounts takes the number from the body, and KRW for its currency.
NewRow(r) == [kind |-> IF Op(r) = "add" THEN "krw_demand" ELSE "foreign",
              manual |-> FALSE, active |-> TRUE, id |-> held[r]]

\* Deviation: ON CONFLICT DO NOTHING.
InsertedOrNot(r) ==
  /\ pc[r] = "insert"
  /\ rows' = IF Exists(input[r].key) THEN rows ELSE [rows EXCEPT ![input[r].key] = NewRow(r)]
  /\ Answer(r, 201)
  /\ UNCHANGED <<connection, expired, listed, input, held>>

\* A row with the organisation and number, active or not, is a conflict.
InsertAccount(r) ==
  /\ pc[r] = "insert"
  /\ IF Exists(input[r].key) THEN Answer(r, 409) /\ UNCHANGED rows
     ELSE Answer(r, 201) /\ rows' = [rows EXCEPT ![input[r].key] = NewRow(r)]
  /\ UNCHANGED <<connection, expired, listed, input, held>>

AddAccount(r) == ReadConnection(r) \/ ListForeign(r) \/ InsertAccount(r)
---------------------------------------------------------------------------
(* Foreign accounts entered by hand, and their end.                         *)

Register(r) ==
  /\ pc[r] = "new" /\ Op(r) = "register"
  /\ rows' = [rows EXCEPT ![<<Manual, r>>] =
                [kind |-> "foreign", manual |-> TRUE, active |-> TRUE, id |-> None]]
  /\ Answer(r, 201)
  /\ UNCHANGED <<connection, expired, listed, input, held>>

\* PATCH and DELETE read the row, then write it: both statements of one transaction,
\* which holds no lock on the row in between.
ReadAccount(r) ==
  LET row == rows[input[r].key] IN
  /\ pc[r] = "new" /\ Op(r) \in {"balance", "deactivate"}
  /\ IF row.kind # "foreign" \/ (Op(r) = "balance" /\ ~row.active) THEN Answer(r, 404)
     ELSE CASE ~row.active                         -> Answer(r, 204)
            [] row.active /\ Op(r) = "balance" /\ ~row.manual -> Answer(r, 409)
            [] OTHER                               -> Goto(r, "write") /\ UNCHANGED code
  /\ UNCHANGED <<Data, input, held>>

\* The balance itself is left out.
WriteAccount(r) ==
  /\ pc[r] = "write"
  /\ IF Op(r) = "deactivate"
     THEN Answer(r, 204) /\ rows' = [rows EXCEPT ![input[r].key].active = FALSE]
     ELSE Answer(r, 200) /\ UNCHANGED rows
  /\ UNCHANGED <<connection, expired, listed, input, held>>

Edit(r) == Register(r) \/ ReadAccount(r) \/ WriteAccount(r)
---------------------------------------------------------------------------
\* A transaction or a call fails, or the Lambda is killed: nothing is undone.
Fail(r) ==
  /\ pc[r] \notin {"idle", "done"}
  /\ Answer(r, 500)
  /\ UNCHANGED <<Data, input, held>>

\* The password at the bank is changed.
Expire(id) ==
  /\ id \notin expired /\ \E o \in Orgs : <<id, o>> \in listed
  /\ expired' = expired \cup {id}
  /\ UNCHANGED <<connection, rows, listed, pc, input, held, code>>

AccountsNext ==
  \/ \E r \in Requests : Arrive(r) \/ Connect(r) \/ AddAccount(r) \/ Edit(r) \/ Fail(r)
  \/ \E id \in ConnectedIds : Expire(id)
---------------------------------------------------------------------------
(* Properties.                                                             *)

Labels == {"idle", "new", "list", "upsert", "listForeign", "insert", "write", "done"}

\* Every variable has its type.
AccountsTypeOK ==
  /\ connection \in [Orgs -> ConnectedIds \cup {None}]
  /\ rows \in [Keys -> Row \cup {NoRow}]
  /\ expired \subseteq ConnectedIds /\ listed \subseteq ConnectedIds \X Orgs
  /\ pc \in [Requests -> Labels]
  /\ input \in [Requests -> Orders \cup {NoOrder}]
  /\ \A r \in Requests : pc[r] # "idle" => input[r] \in Orders
  /\ held \in [Requests -> ConnectedIds \cup {None}]
  /\ code \in [Requests -> {0, 200, 201, 204, 404, 409, 422, 500, 502}]

\* Whatever is stored for a bank, in its connection or in a row of its accounts, is an id
\* CODEF has listed accounts of this bank for: an id whose connection went wrong
\* halfway, or of another bank, is never stored.
IdsOfTheirBank ==
  /\ \A o \in Orgs : connection[o] # None => <<connection[o], o>> \in listed
  /\ \A k \in BankKeys : Exists(k) => <<rows[k].id, k[1]>> \in listed

Registered(r) == pc[r] = "done" /\ code[r] = 201 /\ Op(r) \in {"add", "link"}

\* Of the requests that add or link one account only one is told it was created, and
\* what it created is the row: same kind, and the id it had read.
OneCreator ==
  \A r \in Requests : Registered(r) =>
    /\ rows[input[r].key].kind = NewRow(r).kind /\ rows[input[r].key].id = held[r]
    /\ \A s \in Requests : Registered(s) /\ input[s].key = input[r].key => s = r

\* "The bank's authentication has expired ... please connect again": when the bank has been
\* connected again, none of its accounts is left with an expired id.  The
\* code does not have this property (README, Disagreements found).
ReconnectRepairs ==
  [][\A r \in Requests :
       Op(r) = "connect" /\ code[r] = 0 /\ code'[r] = 200 =>
         \A k \in BankKeys :
           k[1] = Bank(r) /\ Exists(k) /\ rows[k].active => rows'[k].id \notin expired \ {r}]_accountVars
=============================================================================
