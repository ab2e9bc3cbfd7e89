----------------------------- MODULE BankingProofs -----------------------------
(***************************************************************************)
(* Theorems of Banking, for any banks, accounts, requests, jobs and bounds: *)
(* its types, that a stored connectedId is one CODEF has listed accounts of *)
(* its bank for, that an account has one creator, and that the tenant's one *)
(* window leaves no day out.                                                *)
(***************************************************************************)
EXTENDS Banking, TLAPS

\* What a request is at is what it asked for, and the id it holds has listed its bank.
Ordered(r) ==
  /\ pc[r] # "idle" => input[r] \in Orders
  /\ pc[r] \in {"list", "upsert"} => Op(r) = "connect" /\ held[r] = r
  /\ pc[r] = "upsert" => <<held[r], Bank(r)>> \in listed
  /\ pc[r] \in {"listForeign", "insert"} =>
       Op(r) \in {"add", "link", "discover"} /\ <<held[r], Bank(r)>> \in listed
  /\ code[r] = 201 => pc[r] = "done"

\* The inductive invariant of the accounts.
AccountsInv == AccountsTypeOK /\ IdsOfTheirBank /\ \A r \in Requests : Ordered(r)

Calling == {"connect", "add", "discover", "link"}
---------------------------------------------------------------------------
\* An account of a bank is none entered by hand.
LEMMA KeysApart ==
  /\ \A k \in BankKeys : k[1] \in Orgs /\ k \notin ManualKeys
  /\ \A o \in Orders : o.key \in Keys /\ (o.op \in Calling => o.key \in BankKeys)
BY BankAssumption, OrdersAssumption DEF ManualKeys, Calling

LEMMA OrdersHaveBanks ==
  ASSUME AccountsTypeOK, NEW r \in Requests, pc[r] # "idle"
  PROVE  /\ input[r] \in Orders /\ input[r].key \in Keys
         /\ Op(r) \in Calling => input[r].key \in BankKeys /\ Bank(r) \in Orgs
BY KeysApart DEF AccountsTypeOK, Op, Bank

LEMMA AccountsInitInv == AccountsInit => AccountsInv
<1>. SUFFICES ASSUME AccountsInit PROVE AccountsInv  OBVIOUS
<1>1. PICK known \in Before :
        /\ rows = [k \in Keys |-> IF k \in known THEN Added(k, Earlier) ELSE NoRow]
        /\ connection = [o \in Orgs |-> IF \E k \in known : k[1] = o THEN Earlier ELSE None]
        /\ listed = {<<Earlier, k[1]>> : k \in known}
  BY DEF AccountsInit
<1>2. known \subseteq BankKeys /\ (\A k \in known : k[1] \in Orgs)
  BY <1>1, BankAssumption, KeysApart
<1>3. rows \in [Keys -> Row \cup {NoRow}]
  <2>1. \A k \in known : Added(k, Earlier) \in Row
    BY <1>2 DEF Added, Row, ConnectedIds
  <2>. QED  BY <1>1, <2>1
<1>4. AccountsTypeOK
  BY <1>1, <1>2, <1>3 DEF AccountsInit, AccountsTypeOK, ConnectedIds, Labels
<1>5. IdsOfTheirBank
  BY <1>1, <1>2 DEF IdsOfTheirBank, Exists, Added, NoRow, Keys
<1>6. \A r \in Requests : Ordered(r)
  BY DEF AccountsInit, Ordered
<1>. QED  BY <1>4, <1>5, <1>6 DEF AccountsInv
---------------------------------------------------------------------------
(* Steps of the accounts.                                                  *)

LEMMA RowsAreRows ==
  ASSUME AccountsTypeOK, NEW r \in Requests
  PROVE  /\ held[r] # None => NewRow(r) \in Row
         /\ \A k \in Keys : Exists(k) => rows[k] \in Row
         /\ NoRow \notin Row
BY DEF AccountsTypeOK, NewRow, Row, NoRow, Exists

\* An account that ends stays the row it is.
LEMMA Ended ==
  ASSUME NEW row \in Row
  PROVE  LET new == [row EXCEPT !.active = FALSE] IN
         new \in Row /\ new.id = row.id /\ new.kind = row.kind
BY DEF Row

LEMMA NothingEnds == [NoRow EXCEPT !.active = FALSE] = NoRow
<1>. DEFINE Nothing == [kind : {"none"}, manual : {FALSE}, active : {FALSE}, id : {None}]
<1>1. NoRow \in Nothing
  BY DEF NoRow
<1>2. [NoRow EXCEPT !.active = FALSE] \in Nothing
  BY <1>1
<1>3. ASSUME NEW x \in Nothing PROVE x = NoRow
  BY DEF NoRow
<1>. QED  BY <1>2, <1>3

LEMMA WrittenRow ==
  ASSUME AccountsTypeOK, NEW r \in Requests, WriteAccount(r), NEW k \in Keys
  PROVE  rows'[k] = rows[k] \/ (Exists(k) /\ rows'[k] = [rows[k] EXCEPT !.active = FALSE])
<1>1. rows \in [Keys -> Row \cup {NoRow}]
  BY DEF AccountsTypeOK
<1>2. rows' = rows \/ rows' = [rows EXCEPT ![input[r].key] =
                                 [rows[input[r].key] EXCEPT !.active = FALSE]]
  BY DEF WriteAccount
<1>3. rows'[k] = rows[k] \/ rows'[k] = [rows[k] EXCEPT !.active = FALSE]
  BY <1>1, <1>2
<1>. QED  BY <1>3, NothingEnds DEF Exists

LEMMA ForeignListed ==
  ASSUME AccountsInv, NEW r \in Requests, ListForeign(r)
  PROVE  \/ \E c \in {200, 404, 422, 502} : Answer(r, c)
         \/ Goto(r, "insert") /\ UNCHANGED code
<1>1. Op(r) \in Calling /\ pc[r] # "idle"
  BY DEF AccountsInv, ListForeign, Ordered, Calling
<1>2. input[r].key \in BankKeys
  BY <1>1, OrdersHaveBanks DEF AccountsInv
<1>3. AtBank[input[r].key] \in {"deposit", "usd", "other"}
  BY <1>2, BankAssumption
<1>4. ASSUME ~Answer(r, 502), Op(r) # "discover"
      PROVE  \/ Answer(r, 404) \/ Answer(r, 422)
             \/ Goto(r, "insert") /\ UNCHANGED code
  <2>1. CASE AtBank[input[r].key] = "deposit"
    BY <1>4, <2>1 DEF ListForeign, Foreign
  <2>2. CASE AtBank[input[r].key] = "usd"
    BY <1>4, <2>2 DEF ListForeign, Foreign
  <2>3. CASE AtBank[input[r].key] = "other"
    BY <1>4, <2>3 DEF ListForeign, Foreign
  <2>. QED  BY <1>3, <2>1, <2>2, <2>3
<1>5. Op(r) = "discover" => Answer(r, 200) \/ Answer(r, 502)
  BY DEF ListForeign
<1>. QED  BY <1>4, <1>5

LEMMA AccountsTypeNext == AccountsInv /\ AccountsNext => AccountsTypeOK'
<1>. SUFFICES ASSUME AccountsInv, AccountsNext PROVE AccountsTypeOK'  OBVIOUS
<1>. USE DEF Goto, Answer, Data
<1>0. AccountsTypeOK /\ \A r \in Requests : Ordered(r)
  BY DEF AccountsInv
<1>1. CASE \E r \in Requests : Arrive(r)
  BY <1>0, <1>1 DEF Arrive, AccountsTypeOK, Labels
<1>2. CASE \E r \in Requests : Connect(r)
  <2>1. PICK r \in Requests : Connect(r)
    BY <1>2
  <2>2. Op(r) = "connect" /\ pc[r] # "idle"
    BY <1>0, <2>1 DEF Connect, CreateAccount, ListAccounts, UpsertConnection, Ordered
  <2>3. Bank(r) \in Orgs
    BY <1>0, <2>2, OrdersHaveBanks DEF Calling
  <2>4. CASE CreateAccount(r)
    BY <1>0, <2>4 DEF CreateAccount, AccountsTypeOK, Labels, ConnectedIds
  <2>5. CASE ListAccounts(r)
    BY <1>0, <2>3, <2>5 DEF ListAccounts, AccountsTypeOK, Labels, ConnectedIds
  <2>6. CASE UpsertConnection(r)
    BY <1>0, <2>3, <2>6 DEF UpsertConnection, AccountsTypeOK, Labels
  <2>. QED  BY <2>1, <2>4, <2>5, <2>6 DEF Connect
<1>3. CASE \E r \in Requests : ReadConnection(r)
  <2>1. PICK r \in Requests : ReadConnection(r)
    BY <1>3
  <2>2. connection[Bank(r)] \in ConnectedIds \cup {None}
    BY <1>0, <2>1, OrdersHaveBanks DEF ReadConnection, Calling, AccountsTypeOK
  <2>. QED  BY <1>0, <2>1, <2>2 DEF ReadConnection, Refusal, AccountsTypeOK, Labels
<1>4. CASE \E r \in Requests : ListForeign(r)
  <2>1. PICK r \in Requests : ListForeign(r)
    BY <1>4
  <2>5. \/ \E c \in {200, 404, 422, 502} : Answer(r, c)
        \/ Goto(r, "insert") /\ UNCHANGED code
    BY <2>1, ForeignListed
  <2>. QED  BY <1>0, <2>1, <2>5 DEF ListForeign, AccountsTypeOK, Labels
<1>5. CASE \E r \in Requests : InsertAccount(r)
  <2>1. PICK r \in Requests : InsertAccount(r)
    BY <1>5
  <2>2. <<held[r], Bank(r)>> \in listed /\ pc[r] # "idle"
    BY <1>0, <2>1 DEF InsertAccount, Ordered
  <2>3. held[r] # None
    BY <1>0, <2>2, NamesAssumption DEF AccountsTypeOK
  <2>4. NewRow(r) \in Row
    BY <1>0, <2>3, RowsAreRows
  <2>5. rows' \in [Keys -> Row \cup {NoRow}]
    BY <1>0, <2>1, <2>4 DEF InsertAccount, AccountsTypeOK
  <2>. QED  BY <1>0, <2>1, <2>5 DEF InsertAccount, AccountsTypeOK, Labels
<1>6. CASE \E r \in Requests : Register(r)
  <2>1. PICK r \in Requests : Register(r)
    BY <1>6
  <2>2. [kind |-> "foreign", manual |-> TRUE, active |-> TRUE, id |-> None] \in Row
    BY DEF Row
  <2>3. rows' \in [Keys -> Row \cup {NoRow}]
    BY <1>0, <2>1, <2>2 DEF Register, AccountsTypeOK
  <2>. QED  BY <1>0, <2>1, <2>3 DEF Register, AccountsTypeOK, Labels
<1>7. CASE \E r \in Requests : ReadAccount(r)
  BY <1>0, <1>7 DEF ReadAccount, AccountsTypeOK, Labels
<1>8. CASE \E r \in Requests : WriteAccount(r)
  <2>1. PICK r \in Requests : WriteAccount(r)
    BY <1>8
  <2>2. ASSUME NEW k \in Keys
        PROVE  rows'[k] \in Row \cup {NoRow}
    <3>1. CASE rows'[k] = rows[k]
      BY <1>0, <3>1 DEF AccountsTypeOK
    <3>2. CASE Exists(k) /\ rows'[k] = [rows[k] EXCEPT !.active = FALSE]
      BY <1>0, <2>1, <3>2, Ended, RowsAreRows
    <3>. QED  BY <1>0, <2>1, <3>1, <3>2, WrittenRow
  <2>3. rows' \in [Keys -> Row \cup {NoRow}]
    BY <1>0, <2>1, <2>2 DEF WriteAccount, AccountsTypeOK
  <2>. QED  BY <1>0, <2>1, <2>3 DEF WriteAccount, AccountsTypeOK, Labels
<1>9. CASE \E r \in Requests : Fail(r)
  BY <1>0, <1>9 DEF Fail, AccountsTypeOK, Labels
<1>10. CASE \E id \in ConnectedIds : Expire(id)
  BY <1>0, <1>10 DEF Expire, AccountsTypeOK
<1>. QED
  BY <1>1, <1>2, <1>3, <1>4, <1>5, <1>6, <1>7, <1>8, <1>9, <1>10
  DEF AccountsNext, AddAccount, Edit

\* Requests keep to their steps.
LEMMA OrderedNext == AccountsInv /\ AccountsNext => \A r \in Requests : Ordered(r)'
<1>. SUFFICES ASSUME AccountsInv, AccountsNext, NEW q \in Requests PROVE Ordered(q)'  OBVIOUS
<1>. USE DEF Goto, Answer, Data
<1>0. /\ pc \in [Requests -> Labels] /\ input \in [Requests -> Orders \cup {NoOrder}]
      /\ held \in [Requests -> ConnectedIds \cup {None}]
      /\ code \in [Requests -> {0, 200, 201, 204, 404, 409, 422, 500, 502}]
      /\ IdsOfTheirBank /\ AccountsTypeOK /\ AccountsInv /\ \A r \in Requests : Ordered(r)
  BY DEF AccountsInv, AccountsTypeOK
<1>1. ASSUME pc'[q] = pc[q], input'[q] = input[q], held'[q] = held[q], code'[q] = code[q],
             listed \subseteq listed'
      PROVE  Ordered(q)'
  BY <1>0, <1>1 DEF Ordered, Op, Bank
<1>2. ASSUME NEW r \in Requests, r # q,
             Arrive(r) \/ Connect(r) \/ AddAccount(r) \/ Edit(r) \/ Fail(r)
      PROVE  Ordered(q)'
  <2>1. CASE Arrive(r) \/ Fail(r)
    BY <1>0, <1>1, <1>2, <2>1 DEF Arrive, Fail
  <2>2. CASE Connect(r)
    BY <1>0, <1>1, <1>2, <2>2 DEF Connect, CreateAccount, ListAccounts, UpsertConnection
  <2>3. CASE AddAccount(r)
    <3>1. CASE ListForeign(r)
      <4>1. UNCHANGED <<Data, input, held>>
        BY <3>1 DEF ListForeign
      <4>2. \E l \in {"done", "insert"} : Goto(r, l)
        BY <1>0, <3>1, ForeignListed
      <4>3. code' = code \/ \E c : code' = [code EXCEPT ![r] = c]
        BY <1>0, <3>1, ForeignListed
      <4>. QED  BY <1>0, <1>1, <1>2, <4>1, <4>2, <4>3
    <3>2. CASE ReadConnection(r) \/ InsertAccount(r)
      BY <1>0, <1>1, <1>2, <3>2 DEF ReadConnection, InsertAccount
    <3>. QED  BY <2>3, <3>1, <3>2 DEF AddAccount
  <2>4. CASE Edit(r)
    BY <1>0, <1>1, <1>2, <2>4 DEF Edit, Register, ReadAccount, WriteAccount
  <2>. QED  BY <1>2, <2>1, <2>2, <2>3, <2>4
<1>3. CASE Arrive(q)
  <2>1. /\ pc[q] = "idle" /\ pc'[q] = "new" /\ code'[q] = code[q]
        /\ \E o \in Orders : input'[q] = o
    BY <1>0, <1>3 DEF Arrive
  <2>2. code[q] # 201
    BY <1>0, <2>1 DEF Ordered
  <2>. QED  BY <2>1, <2>2 DEF Ordered
<1>4. CASE CreateAccount(q)
  <2>1. /\ pc[q] = "new" /\ Op(q) = "connect" /\ input' = input
        /\ \/ pc'[q] = "list" /\ held'[q] = q /\ code' = code
           \/ pc'[q] = "done"
    BY <1>0, <1>4 DEF CreateAccount
  <2>2. input[q] \in Orders /\ code[q] # 201
    BY <1>0, <2>1 DEF Ordered
  <2>. QED  BY <2>1, <2>2 DEF Ordered, Op
<1>5. CASE ListAccounts(q)
  BY <1>0, <1>5 DEF ListAccounts, Ordered, Op, Bank
<1>6. CASE UpsertConnection(q) \/ ReadAccount(q) \/ WriteAccount(q) \/ Fail(q) \/ Register(q)
             \/ InsertAccount(q)
  <2>1. /\ pc[q] # "idle" /\ input' = input
        /\ \/ pc'[q] = "done"
           \/ pc'[q] = "write" /\ code' = code /\ pc[q] = "new"
    BY <1>0, <1>6 DEF UpsertConnection, ReadAccount, WriteAccount, Fail, Register, InsertAccount
  <2>2. input[q] \in Orders
    BY <1>0, <2>1 DEF Ordered
  <2>3. pc[q] = "new" => code[q] # 201
    BY <1>0 DEF Ordered
  <2>. QED  BY <2>1, <2>2, <2>3 DEF Ordered
<1>7. CASE ReadConnection(q)
  <2>1. pc[q] = "new" /\ Op(q) \in {"add", "link", "discover"} /\ input' = input /\ listed' = listed
    BY <1>7 DEF ReadConnection
  <2>2. Bank(q) \in Orgs
    BY <1>0, <2>1, OrdersHaveBanks DEF Calling
  <2>3. connection[Bank(q)] # None => <<connection[Bank(q)], Bank(q)>> \in listed
    BY <1>0, <2>2 DEF IdsOfTheirBank
  <2>4. \/ pc'[q] = "done"
        \/ /\ pc'[q] \in {"insert", "listForeign"} /\ held'[q] = connection[Bank(q)]
           /\ connection[Bank(q)] # None /\ code' = code
    BY <1>0, <1>7 DEF ReadConnection
  <2>5. input[q] \in Orders /\ code[q] # 201
    BY <1>0, <2>1 DEF Ordered
  <2>. QED  BY <2>1, <2>3, <2>4, <2>5 DEF Ordered, Op, Bank
<1>8. CASE ListForeign(q)
  <2>1. pc[q] = "listForeign" /\ UNCHANGED <<Data, input, held>>
    BY <1>8 DEF ListForeign
  <2>2. \/ pc'[q] = "done"
        \/ pc'[q] = "insert" /\ code' = code
    BY <1>0, <1>8, ForeignListed
  <2>. QED  BY <1>0, <2>1, <2>2 DEF Ordered, Op, Bank
<1>9. CASE \E id \in ConnectedIds : Expire(id)
  BY <1>0, <1>1, <1>9 DEF Expire
<1>. QED
  BY <1>2, <1>3, <1>4, <1>5, <1>6, <1>7, <1>8, <1>9 DEF AccountsNext, Connect, AddAccount, Edit

\* What is stored is an id listed for its bank.
LEMMA IdsNext == AccountsInv /\ AccountsNext => IdsOfTheirBank'
<1>. SUFFICES ASSUME AccountsInv, AccountsNext PROVE IdsOfTheirBank'  OBVIOUS
<1>. USE DEF Goto, Answer, Data
<1>0. AccountsTypeOK /\ IdsOfTheirBank /\ \A r \in Requests : Ordered(r)
  BY DEF AccountsInv
<1>1. ASSUME UNCHANGED connection, listed \subseteq listed',
             \A k \in BankKeys : rows'[k] = rows[k] \/ (Exists(k) /\ rows'[k].id = rows[k].id)
      PROVE  IdsOfTheirBank'
  BY <1>0, <1>1 DEF IdsOfTheirBank, Exists
<1>2. CASE \E r \in Requests : UpsertConnection(r)
  BY <1>0, <1>2 DEF UpsertConnection, Ordered, IdsOfTheirBank, AccountsTypeOK, Exists, Bank
<1>3. CASE \E r \in Requests : InsertAccount(r)
  <2>1. PICK r \in Requests : InsertAccount(r)
    BY <1>3
  <2>2. <<held[r], input[r].key[1]>> \in listed
    BY <1>0, <2>1 DEF InsertAccount, Ordered, Bank
  <2>3. rows' = rows \/ rows' = [rows EXCEPT ![input[r].key] = NewRow(r)]
    BY <2>1 DEF InsertAccount
  <2>4. ASSUME NEW k \in BankKeys, rows'[k] # NoRow
        PROVE  <<rows'[k].id, k[1]>> \in listed
    <3>1. rows'[k] = rows[k] \/ (k = input[r].key /\ rows'[k] = NewRow(r))
      BY <1>0, <2>3 DEF AccountsTypeOK, Keys
    <3>2. CASE rows'[k] = rows[k]
      BY <1>0, <2>4, <3>2 DEF IdsOfTheirBank, Exists
    <3>3. CASE k = input[r].key /\ rows'[k] = NewRow(r)
      BY <2>2, <3>3 DEF NewRow
    <3>. QED  BY <3>1, <3>2, <3>3
  <2>. QED  BY <1>0, <2>1, <2>4 DEF InsertAccount, IdsOfTheirBank, Exists
<1>4. CASE \E r \in Requests : Register(r)
  BY <1>0, <1>1, <1>4, KeysApart DEF Register, ManualKeys, AccountsTypeOK
<1>5. CASE \E r \in Requests : WriteAccount(r)
  <2>1. PICK r \in Requests : WriteAccount(r)
    BY <1>5
  <2>2. \A k \in BankKeys : k \in Keys
    BY DEF Keys
  <2>3. ASSUME NEW k \in BankKeys
        PROVE  rows'[k] = rows[k] \/ (Exists(k) /\ rows'[k].id = rows[k].id)
    BY <1>0, <2>1, <2>2, WrittenRow, Ended, RowsAreRows
  <2>. QED  BY <1>1, <2>1, <2>3 DEF WriteAccount
<1>6. CASE \E r \in Requests : Arrive(r) \/ CreateAccount(r) \/ ListAccounts(r)
                                 \/ ReadConnection(r) \/ ListForeign(r) \/ ReadAccount(r) \/ Fail(r)
  <2>1. UNCHANGED <<connection, rows>> /\ listed \subseteq listed'
    BY <1>6 DEF Arrive, CreateAccount, ListAccounts, ReadConnection, ListForeign, ReadAccount, Fail
  <2>. QED  BY <1>1, <2>1
<1>7. CASE \E id \in ConnectedIds : Expire(id)
  BY <1>1, <1>7 DEF Expire
<1>. QED
  BY <1>2, <1>3, <1>4, <1>5, <1>6, <1>7 DEF AccountsNext, Connect, AddAccount, Edit
---------------------------------------------------------------------------
(* The creator of an account.                                              *)

\* OneCreator, of one request: it has its row, and no other has it.
Created(r) ==
  Registered(r) =>
    /\ Exists(input[r].key) /\ input[r].key \in BankKeys
    /\ rows[input[r].key].kind = NewRow(r).kind /\ rows[input[r].key].id = held[r]
    /\ \A s \in Requests : Registered(s) /\ input[s].key = input[r].key => s = r

\* Rows of bank accounts are neither overwritten nor removed.
LEMMA RowsStay ==
  ASSUME AccountsInv, AccountsNext, NEW k \in BankKeys, Exists(k)
  PROVE  Exists(k)' /\ rows'[k].kind = rows[k].kind /\ rows'[k].id = rows[k].id
<1>. USE DEF Goto, Answer, Data
<1>1. AccountsTypeOK /\ k \in Keys /\ k \notin ManualKeys
  BY KeysApart DEF AccountsInv, Keys
<1>2. rows \in [Keys -> Row \cup {NoRow}]
  BY <1>1 DEF AccountsTypeOK
<1>3. CASE \E r \in Requests : InsertAccount(r)
  <2>1. PICK r \in Requests : InsertAccount(r)
    BY <1>3
  <2>2. \/ rows' = rows
        \/ rows' = [rows EXCEPT ![input[r].key] = NewRow(r)] /\ input[r].key # k
    BY <2>1 DEF InsertAccount
  <2>. QED  BY <1>1, <1>2, <2>2 DEF Exists
<1>4. CASE \E r \in Requests : Register(r)
  BY <1>1, <1>2, <1>4 DEF Register, Exists, ManualKeys
<1>5. CASE \E r \in Requests : WriteAccount(r)
  <2>1. rows'[k] = rows[k] \/ rows'[k] = [rows[k] EXCEPT !.active = FALSE]
    BY <1>1, <1>5, WrittenRow
  <2>2. rows[k] \in Row /\ NoRow \notin Row
    BY <1>1, RowsAreRows, <1>5
  <2>. QED  BY <2>1, <2>2, Ended DEF Exists
<1>6. CASE UNCHANGED rows
  BY <1>6 DEF Exists
<1>7. CASE \E r \in Requests : Arrive(r) \/ Connect(r) \/ ReadConnection(r) \/ ListForeign(r)
                                 \/ ReadAccount(r) \/ Fail(r)
  BY <1>6, <1>7 DEF Arrive, Connect, CreateAccount, ListAccounts, UpsertConnection,
    ReadConnection, ListForeign, ReadAccount, Fail
<1>8. CASE \E id \in ConnectedIds : Expire(id)
  BY <1>6, <1>8 DEF Expire
<1>. QED  BY <1>3, <1>4, <1>5, <1>7, <1>8 DEF AccountsNext, AddAccount, Edit

\* A request becomes one that has created an account by inserting it, where there was none.
LEMMA Registering ==
  ASSUME AccountsInv, AccountsNext, NEW q \in Requests, Registered(q)'
  PROVE  \/ Registered(q) /\ input'[q] = input[q] /\ held'[q] = held[q]
         \/ InsertAccount(q) /\ ~Exists(input[q].key)
<1>. USE DEF Goto, Answer, Data
<1>0. /\ pc \in [Requests -> Labels] /\ input \in [Requests -> Orders \cup {NoOrder}]
      /\ held \in [Requests -> ConnectedIds \cup {None}]
      /\ code \in [Requests -> {0, 200, 201, 204, 404, 409, 422, 500, 502}]
      /\ Ordered(q)
  BY DEF AccountsInv, AccountsTypeOK
<1>1. pc'[q] = "done" /\ code'[q] = 201 /\ Op(q)' \in {"add", "link"}
  BY DEF Registered
<1>2. ASSUME pc'[q] = pc[q], code'[q] = code[q], input'[q] = input[q], held'[q] = held[q]
      PROVE  Registered(q) /\ input'[q] = input[q] /\ held'[q] = held[q]
  BY <1>1, <1>2 DEF Registered, Op
<1>3. ASSUME NEW r \in Requests, r # q,
             Arrive(r) \/ Connect(r) \/ AddAccount(r) \/ Edit(r) \/ Fail(r)
      PROVE  pc'[q] = pc[q] /\ code'[q] = code[q] /\ input'[q] = input[q] /\ held'[q] = held[q]
  <2>1. CASE Arrive(r) \/ Fail(r)
    BY <1>0, <1>3, <2>1 DEF Arrive, Fail
  <2>2. CASE Connect(r)
    BY <1>0, <1>3, <2>2 DEF Connect, CreateAccount, ListAccounts, UpsertConnection
  <2>3. CASE ListForeign(r)
    <3>1. UNCHANGED <<input, held>>
      BY <2>3 DEF ListForeign
    <3>2. (\E l \in {"done", "insert"} : Goto(r, l))
            /\ (code' = code \/ \E c : code' = [code EXCEPT ![r] = c])
      BY <2>3, ForeignListed
    <3>. QED  BY <1>0, <1>3, <3>1, <3>2
  <2>4. CASE ReadConnection(r) \/ InsertAccount(r)
    BY <1>0, <1>3, <2>4 DEF ReadConnection, InsertAccount
  <2>5. CASE Edit(r)
    BY <1>0, <1>3, <2>5 DEF Edit, Register, ReadAccount, WriteAccount
  <2>. QED  BY <1>3, <2>1, <2>2, <2>3, <2>4, <2>5 DEF AddAccount
<1>4. CASE Arrive(q) \/ Connect(q) \/ ReadConnection(q) \/ Fail(q)
  BY <1>0, <1>1, <1>4 DEF Arrive, Connect, CreateAccount, ListAccounts, UpsertConnection,
    ReadConnection, Refusal, Fail
<1>5. CASE ListForeign(q)
  <2>1. pc[q] = "listForeign"
    BY <1>5 DEF ListForeign
  <2>2. \/ \E c \in {200, 404, 422, 502} : code'[q] = c
        \/ pc'[q] = "insert"
    BY <1>0, <1>5, ForeignListed
  <2>. QED  BY <1>1, <2>2
<1>6. CASE InsertAccount(q)
  BY <1>0, <1>1, <1>6 DEF InsertAccount
<1>7. CASE Edit(q)
  <2>1. ~Register(q)
    BY <1>1 DEF Register, Op
  <2>. QED  BY <1>0, <1>1, <1>7, <2>1 DEF Edit, ReadAccount, WriteAccount
<1>8. CASE \E id \in ConnectedIds : Expire(id)
  BY <1>2, <1>8 DEF Expire
<1>. QED
  BY <1>2, <1>3, <1>4, <1>5, <1>6, <1>7, <1>8 DEF AccountsNext, AddAccount

LEMMA CreatedNext ==
  ASSUME AccountsInv, AccountsNext, \A r \in Requests : Created(r), NEW q \in Requests
  PROVE  Created(q)'
<1>. SUFFICES ASSUME Registered(q)'
              PROVE  /\ Exists(input[q].key)' /\ input'[q].key \in BankKeys
                     /\ rows'[input'[q].key].kind = NewRow(q).kind'
                     /\ rows'[input'[q].key].id = held'[q]
                     /\ \A s \in Requests :
                          Registered(s)' /\ input'[s].key = input'[q].key => s = q
  BY DEF Created
<1>. USE DEF Goto, Answer
<1>1. ASSUME NEW r \in Requests, Registered(r), input'[r] = input[r], held'[r] = held[r]
      PROVE  /\ Exists(input[r].key)' /\ input'[r].key \in BankKeys /\ Exists(input[r].key)
             /\ rows'[input'[r].key].kind = NewRow(r).kind'
             /\ rows'[input'[r].key].id = held'[r]
  <2>1. /\ Exists(input[r].key) /\ input[r].key \in BankKeys
        /\ rows[input[r].key].kind = NewRow(r).kind /\ rows[input[r].key].id = held[r]
    BY <1>1 DEF Created
  <2>. QED  BY <1>1, <2>1, RowsStay DEF NewRow, Op
<1>2. ASSUME NEW r \in Requests, InsertAccount(r), ~Exists(input[r].key)
      PROVE  /\ input' = input /\ held' = held /\ pc[r] = "insert"
             /\ pc' = [pc EXCEPT ![r] = "done"]
             /\ input'[r].key \in BankKeys /\ Exists(input[r].key)'
             /\ rows'[input'[r].key].kind = NewRow(r).kind'
             /\ rows'[input'[r].key].id = held'[r]
  <2>1. /\ input' = input /\ held' = held /\ pc[r] = "insert"
        /\ pc' = [pc EXCEPT ![r] = "done"]
        /\ rows' = [rows EXCEPT ![input[r].key] = NewRow(r)]
    BY <1>2 DEF InsertAccount
  <2>2. input[r].key \in BankKeys
    BY <2>1, OrdersHaveBanks DEF AccountsInv, Ordered, Calling
  <2>3. rows'[input[r].key] = NewRow(r)
    BY <2>1, <2>2 DEF AccountsInv, AccountsTypeOK, Keys
  <2>. QED  BY <2>1, <2>2, <2>3 DEF NewRow, NoRow, Exists, Op
<1>3. ASSUME NEW s \in Requests, Registered(s)', input'[s].key = input'[q].key
      PROVE  s = q
  <2>1. CASE /\ Registered(q) /\ input'[q] = input[q]
             /\ Registered(s) /\ input'[s] = input[s]
    BY <1>3, <2>1 DEF Created
  <2>2. CASE /\ Registered(q) /\ input'[q] = input[q] /\ held'[q] = held[q]
             /\ InsertAccount(s) /\ ~Exists(input[s].key)
    BY <1>1, <1>2, <1>3, <2>2
  <2>3. CASE /\ InsertAccount(q) /\ ~Exists(input[q].key)
             /\ Registered(s) /\ input'[s] = input[s] /\ held'[s] = held[s]
    BY <1>1, <1>2, <1>3, <2>3
  <2>4. CASE InsertAccount(q) /\ ~Exists(input[q].key) /\ InsertAccount(s) /\ ~Exists(input[s].key)
    BY <1>2, <2>4 DEF AccountsInv, AccountsTypeOK
  <2>. QED  BY <1>3, <2>1, <2>2, <2>3, <2>4, Registering
<1>4. CASE Registered(q) /\ input'[q] = input[q] /\ held'[q] = held[q]
  BY <1>1, <1>3, <1>4
<1>5. CASE InsertAccount(q) /\ ~Exists(input[q].key)
  BY <1>2, <1>3, <1>5
<1>. QED  BY <1>4, <1>5, Registering
---------------------------------------------------------------------------
(* Jobs.                                                                   *)

FetchTypeOK ==
  /\ today \in Days
  /\ latest \in Days \cup {Never}
  /\ job \in [Jobs -> [stage : {"idle", "range", "fetch"}, from : Past, to : Days,
                       explicit : BOOLEAN, left : SUBSET (BankKeys \X ConnectedIds)]]
  /\ covered \in [BankKeys -> SUBSET Past]
  /\ track \in [BankKeys -> [first : Past \cup {Never}, last : Days \cup {Never},
                              steady : BOOLEAN]]

\* A window that was not asked for reaches back over the lookback, for every account: the
\* newest row of the tenant is not of a later day.
Windows ==
  /\ latest # Never => latest <= today
  /\ \A j \in Jobs :
       /\ job[j].to <= today
       /\ job[j].stage = "fetch" /\ ~job[j].explicit => job[j].from <= job[j].to - Lookback

Inv == FetchTypeOK /\ Windows /\ NoDayIsMissed

LEMMA DaysAndPast ==
  /\ Days \subseteq Past /\ Past \subseteq Int /\ Never \notin Days /\ Never \notin Past
  /\ Never \in Int /\ 0 \in Days
  /\ Lookback \in Nat /\ Initial \in Nat /\ Lookback <= Initial
  /\ \A d \in Days : d - Initial \in Past /\ d - Lookback \in Past
BY WindowAssumption DEF Days, Past, Never

LEMMA FetchInit == Init => Inv
<1>. SUFFICES ASSUME Init PROVE Inv  OBVIOUS
<1>1. FetchTypeOK
  BY DaysAndPast DEF Init, FetchTypeOK, Idle, Untracked
<1>2. Windows
  BY DaysAndPast DEF Init, Windows, Idle
<1>3. NoDayIsMissed
  BY DEF Init, NoDayIsMissed, Untracked
<1>. QED  BY <1>1, <1>2, <1>3 DEF Inv

\* One account of a job: the days it had are joined by those of the window.
LEMMA Joined ==
  ASSUME Inv, NEW j \in Jobs, job[j].stage = "fetch", NEW k \in BankKeys, NEW id, Fetched(j, k, id)
  PROVE  /\ covered' \in [BankKeys -> SUBSET Past]
         /\ track' \in [BankKeys -> [first : Past \cup {Never}, last : Days \cup {Never},
                                      steady : BOOLEAN]]
         /\ latest' \in {latest, today}
         /\ NoDayIsMissed'
<1>. DEFINE from == job[j].from
            to   == job[j].to
            t    == track[k]
<1>1. /\ job[j].from \in Past /\ job[j].to \in Days /\ job[j].explicit \in BOOLEAN /\ today \in Days
      /\ covered \in [BankKeys -> SUBSET Past]
      /\ track \in [BankKeys -> [first : Past \cup {Never}, last : Days \cup {Never},
                                  steady : BOOLEAN]]
      /\ to <= today
      /\ ~job[j].explicit => from <= to - Lookback
  BY DEF Inv, FetchTypeOK, Windows
<1>0. from \in Int /\ to \in Int /\ today \in Int
  BY <1>1, DaysAndPast
<1>2. /\ covered' = [covered EXCEPT ![k] = @ \cup Over(Asked(j, k))]
      /\ track' = [track EXCEPT ![k] = Tracked(j, k)]
      /\ latest' \in {latest, today}
  BY DEF Fetched
<1>3. Over(Asked(j, k)) \subseteq Past
  BY <1>1, WindowAssumption DEF Over, Asked, Past, Days
<1>4. Tracked(j, k) \in [first : Past \cup {Never}, last : Days \cup {Never}, steady : BOOLEAN]
  BY <1>1, DaysAndPast DEF Tracked
<1>5. covered' \in [BankKeys -> SUBSET Past]
  BY <1>1, <1>2, <1>3
<1>6. track' \in [BankKeys -> [first : Past \cup {Never}, last : Days \cup {Never},
                                steady : BOOLEAN]]
  BY <1>1, <1>2, <1>4
<1>7. /\ covered[k] \subseteq covered'[k] /\ track'[k] = Tracked(j, k)
      /\ \A d \in Int : from <= d /\ d < to => d \in covered'[k]
  BY <1>0, <1>1, <1>2 DEF Over, Asked
<1>8. t.last # Never /\ t.steady => t.first .. (t.last - 1) \subseteq covered[k]
  BY DEF Inv, NoDayIsMissed
<1>9. ASSUME Tracked(j, k).last # Never, Tracked(j, k).steady,
             NEW d \in Tracked(j, k).first .. (Tracked(j, k).last - 1)
      PROVE  d \in covered'[k]
  <2>1. CASE job[j].explicit
    BY <1>7, <1>8, <1>9, <2>1 DEF Tracked
  <2>2. CASE ~job[j].explicit /\ t.last = Never
    <3>1. Tracked(j, k).first = from /\ Tracked(j, k).last = to
      BY <2>2 DEF Tracked
    <3>2. d \in Int /\ from <= d /\ d < to
      BY <1>0, <1>9, <3>1
    <3>. QED  BY <1>7, <3>2
  <2>3. CASE ~job[j].explicit /\ t.last # Never
    <3>1. /\ Tracked(j, k).first = t.first
          /\ Tracked(j, k).last = IF to > t.last THEN to ELSE t.last
          /\ t.steady /\ to - t.last <= Lookback
      BY <1>1, <1>9, <2>3 DEF Tracked
    <3>2. t.first \in Int /\ t.last \in Int /\ to \in Int /\ from \in Int /\ d \in Int
      <4>1. t.first \in Past \cup {Never} /\ t.last \in Days \cup {Never}
        BY <1>1
      <4>2. t.first \in Int /\ t.last \in Int
        BY <4>1, DaysAndPast
      <4>3. d \in Int
        <5>1. d \in t.first .. (Tracked(j, k).last - 1)
          BY <1>9, <3>1
        <5>. QED  BY <5>1
      <4>. QED  BY <1>0, <4>2, <4>3
    <3>3. t.first <= d /\ d < (IF to > t.last THEN to ELSE t.last)
      BY <1>9, <3>1, <3>2
    <3>4. CASE d < t.last
      <4>1. d \in t.first .. (t.last - 1)
        BY <3>2, <3>3, <3>4
      <4>. QED  BY <1>7, <1>8, <2>3, <3>1, <4>1
    <3>5. CASE ~(d < t.last)
      <4>1. from <= d /\ d < to
        BY <1>1, <2>3, <3>1, <3>2, <3>3, <3>5, DaysAndPast
      <4>. QED  BY <1>7, <3>2, <4>1
    <3>. QED  BY <3>4, <3>5
  <2>. QED  BY <1>1, <2>1, <2>2, <2>3
<1>10. NoDayIsMissed'
  <2>. SUFFICES ASSUME NEW q \in BankKeys, track'[q].last # Never, track'[q].steady
                PROVE  track'[q].first .. (track'[q].last - 1) \subseteq covered'[q]
    BY DEF NoDayIsMissed
  <2>1. CASE q = k
    BY <1>7, <1>9, <2>1
  <2>2. CASE q # k
    <3>1. track'[q] = track[q] /\ covered'[q] = covered[q]
      BY <1>1, <1>2, <2>2
    <3>. QED  BY <3>1 DEF Inv, NoDayIsMissed
  <2>. QED  BY <2>1, <2>2
<1>. QED  BY <1>2, <1>5, <1>6, <1>10

LEMMA FetchNext ==
  ASSUME Inv, AccountsInv, [Next]_vars
  PROVE  Inv'
<1>1. /\ today \in Days /\ latest \in Days \cup {Never}
      /\ job \in [Jobs -> [stage : {"idle", "range", "fetch"}, from : Past, to : Days,
                           explicit : BOOLEAN, left : SUBSET (BankKeys \X ConnectedIds)]]
      /\ FetchTypeOK /\ Windows /\ NoDayIsMissed
  BY DEF Inv, FetchTypeOK
<1>2. ASSUME UNCHANGED <<today, latest, covered, track>>,
             NEW j \in Jobs,
             NEW w \in [stage : {"idle", "range", "fetch"}, from : Past, to : Days,
                        explicit : BOOLEAN, left : SUBSET (BankKeys \X ConnectedIds)],
             job' = [job EXCEPT ![j] = w], w.to <= today,
             w.stage = "fetch" /\ ~w.explicit => w.from <= w.to - Lookback
      PROVE  Inv'
  <2>1. FetchTypeOK'
    BY <1>1, <1>2 DEF FetchTypeOK
  <2>2. Windows'
    BY <1>1, <1>2 DEF Windows
  <2>3. NoDayIsMissed'
    BY <1>1, <1>2 DEF NoDayIsMissed
  <2>. QED  BY <2>1, <2>2, <2>3 DEF Inv
<1>3. CASE \E j \in Jobs : LoadAccounts(j)
  <2>1. PICK j \in Jobs, e \in BOOLEAN, a \in 0 .. today, b \in 0 .. today :
          job' = [job EXCEPT ![j] =
            [stage |-> "range", explicit |-> e, from |-> a, to |-> b,
             left |-> {<<k, rows[k].id>> : k \in {q \in BankKeys : Exists(q) /\ rows[q].active}}]]
    BY <1>3 DEF LoadAccounts
  <2>2. a \in Past /\ b \in Days /\ b <= today
    BY <1>1, WindowAssumption DEF Past, Days
  <2>3. {<<k, rows[k].id>> : k \in {q \in BankKeys : Exists(q) /\ rows[q].active}}
          \subseteq BankKeys \X ConnectedIds
    <3>1. ASSUME NEW k \in BankKeys, Exists(k)
          PROVE  rows[k].id \in ConnectedIds
      <4>1. <<rows[k].id, k[1]>> \in listed /\ listed \subseteq ConnectedIds \X Orgs
        BY <3>1 DEF AccountsInv, IdsOfTheirBank, AccountsTypeOK
      <4>. QED  BY <4>1
    <3>. QED  BY <3>1
  <2>. DEFINE w == [stage |-> "range", explicit |-> e, from |-> a, to |-> b,
                    left |-> {<<k, rows[k].id>> : k \in {q \in BankKeys : Exists(q) /\ rows[q].active}}]
  <2>4. /\ w \in [stage : {"idle", "range", "fetch"}, from : Past, to : Days,
                  explicit : BOOLEAN, left : SUBSET (BankKeys \X ConnectedIds)]
        /\ w.to <= today /\ w.stage = "range" /\ job' = [job EXCEPT ![j] = w]
    BY <2>1, <2>2, <2>3
  <2>5. UNCHANGED <<today, latest, covered, track>>
    BY <1>3 DEF LoadAccounts
  <2>. HIDE DEF w
  <2>. QED  BY <1>2, <2>4, <2>5
<1>4. CASE \E j \in Jobs : ResolveDateRange(j)
  <2>1. PICK j \in Jobs : ResolveDateRange(j)
    BY <1>4
  <2>. DEFINE w == [job[j] EXCEPT !.stage = "fetch",
                                  !.from = IF job[j].explicit THEN job[j].from ELSE DefaultFrom,
                                  !.to = IF job[j].explicit THEN job[j].to ELSE today]
  <2>2. DefaultFrom \in Past /\ DefaultFrom <= today - Lookback
    BY <1>1, DaysAndPast DEF DefaultFrom, Windows
  <2>3. job' = [job EXCEPT ![j] = w]
    BY <1>1, <2>1 DEF ResolveDateRange
  <2>4. w \in [stage : {"idle", "range", "fetch"}, from : Past, to : Days,
               explicit : BOOLEAN, left : SUBSET (BankKeys \X ConnectedIds)]
    BY <1>1, <2>2
  <2>5. w.to <= today /\ (w.stage = "fetch" /\ ~w.explicit => w.from <= w.to - Lookback)
    BY <1>1, <2>2, DaysAndPast DEF Windows
  <2>6. UNCHANGED <<today, latest, covered, track>>
    BY <2>1 DEF ResolveDateRange
  <2>. HIDE DEF w
  <2>. QED  BY <1>2, <2>3, <2>4, <2>5, <2>6
<1>5. CASE \E j \in Jobs : FetchAccount(j)
  <2>1. PICK j \in Jobs : FetchAccount(j)
    BY <1>5
  <2>2. PICK a \in job[j].left :
          /\ job' = [job EXCEPT ![j].left = @ \ {a}]
          /\ Fetched(j, a[1], a[2]) \/ PassedOver
    BY <2>1 DEF FetchAccount
  <2>. DEFINE w == [job[j] EXCEPT !.left = @ \ {a}]
  <2>3. /\ job' = [job EXCEPT ![j] = w] /\ a[1] \in BankKeys
        /\ w \in [stage : {"idle", "range", "fetch"}, from : Past, to : Days,
                  explicit : BOOLEAN, left : SUBSET (BankKeys \X ConnectedIds)]
        /\ w.stage = job[j].stage /\ w.explicit = job[j].explicit
        /\ w.from = job[j].from /\ w.to = job[j].to
    BY <1>1, <2>2
  <2>4. w.to <= today /\ (w.stage = "fetch" /\ ~w.explicit => w.from <= w.to - Lookback)
    BY <1>1, <2>3 DEF Windows
  <2>5. today' = today /\ job[j].stage = "fetch"
    BY <2>1 DEF FetchAccount
  <2>. HIDE DEF w
  <2>6. CASE PassedOver
    BY <1>2, <2>3, <2>4, <2>5, <2>6 DEF PassedOver
  <2>7. CASE Fetched(j, a[1], a[2])
    <3>1. /\ covered' \in [BankKeys -> SUBSET Past]
          /\ track' \in [BankKeys -> [first : Past \cup {Never}, last : Days \cup {Never},
                                       steady : BOOLEAN]]
          /\ latest' \in {latest, today} /\ NoDayIsMissed'
      BY <2>3, <2>5, <2>7, Joined
    <3>2. FetchTypeOK'
      BY <1>1, <2>3, <2>5, <3>1 DEF FetchTypeOK
    <3>3. Windows'
      <4>1. latest' # Never => latest' <= today
        BY <1>1, <3>1, DaysAndPast DEF Windows
      <4>. QED  BY <1>1, <2>3, <2>4, <2>5, <4>1 DEF Windows
    <3>. QED  BY <3>1, <3>2, <3>3 DEF Inv
  <2>. QED  BY <2>2, <2>6, <2>7
<1>6. CASE \E j \in Jobs : EndJob(j)
  <2>1. Idle \in [stage : {"idle", "range", "fetch"}, from : Past, to : Days,
                  explicit : BOOLEAN, left : SUBSET (BankKeys \X ConnectedIds)]
          /\ Idle.to <= today /\ Idle.stage = "idle"
    BY <1>1, DaysAndPast, WindowAssumption DEF Idle, Days
  <2>. QED  BY <1>2, <1>6, <2>1 DEF EndJob
<1>7. CASE NextDay
  <2>1. today' \in Days /\ today <= today' /\ today \in Int /\ today' \in Int
          /\ UNCHANGED <<latest, job, covered, track>>
    BY <1>1, <1>7, WindowAssumption DEF NextDay, Days
  <2>2. \A j \in Jobs : job[j].to \in Int
    BY <1>1, DaysAndPast
  <2>3. FetchTypeOK' /\ NoDayIsMissed'
    BY <1>1, <2>1 DEF FetchTypeOK, NoDayIsMissed
  <2>4. Windows'
    BY <1>1, <2>1, <2>2, DaysAndPast DEF Windows
  <2>. QED  BY <2>3, <2>4 DEF Inv
<1>8. CASE UNCHANGED fetchVars
  BY <1>1, <1>8 DEF fetchVars, Inv, FetchTypeOK, Windows, NoDayIsMissed
<1>. QED  BY <1>3, <1>4, <1>5, <1>6, <1>7, <1>8 DEF Next, vars
---------------------------------------------------------------------------
(* The theorems.                                                           *)

AllInv == AccountsInv /\ (\A r \in Requests : Created(r)) /\ Inv

LEMMA AllInvInductive == Spec => []AllInv
<1>1. Init => AllInv
  <2>1. Init => \A r \in Requests : Created(r)
    BY DEF Init, AccountsInit, Created, Registered
  <2>. QED  BY <2>1, AccountsInitInv, FetchInit DEF Init, AllInv
<1>2. AllInv /\ [Next]_vars => AllInv'
  <2>. SUFFICES ASSUME AllInv, [Next]_vars PROVE AllInv'  OBVIOUS
  <2>1. AccountsInv /\ (\A r \in Requests : Created(r)) /\ Inv /\ Inv'
    BY FetchNext DEF AllInv
  <2>2. CASE AccountsNext
    <3>1. AccountsInv'
      BY <2>1, <2>2, AccountsTypeNext, IdsNext, OrderedNext DEF AccountsInv
    <3>. QED  BY <2>1, <2>2, <3>1, CreatedNext DEF AllInv
  <2>3. CASE UNCHANGED accountVars
    <3>1. AccountsInv'
      BY <2>1, <2>3 DEF accountVars, AccountsInv, AccountsTypeOK, IdsOfTheirBank, Exists,
        Ordered, Op, Bank
    <3>2. \A r \in Requests : Created(r)'
      BY <2>1, <2>3 DEF accountVars, Created, Registered, NewRow, Exists, Op
    <3>. QED  BY <2>1, <3>1, <3>2 DEF AllInv
  <2>. QED
    BY <2>2, <2>3 DEF Next, vars, LoadAccounts, ResolveDateRange, FetchAccount, EndJob, NextDay
<1>. QED  BY <1>1, <1>2, PTL DEF Spec

\* Every variable has its type, for any banks, accounts and bounds.
THEOREM TypeCorrect == Spec => []TypeOK
<1>1. AllInv => TypeOK
  BY DEF AllInv, AccountsInv, Inv, FetchTypeOK, TypeOK
<1>. QED  BY <1>1, AllInvInductive, PTL

\* A connectedId stored for a bank or with an account is one CODEF has listed accounts of
\* this bank for, whichever connections fail halfway or overlap.
THEOREM StoredIdsAreListed == Spec => []IdsOfTheirBank
<1>1. AllInv => IdsOfTheirBank
  BY DEF AllInv, AccountsInv
<1>. QED  BY <1>1, AllInvInductive, PTL

\* Of the requests for one account only one is told it was created, and the row is its own.
THEOREM OneIsCreator == Spec => []OneCreator
<1>1. AllInv => OneCreator
  BY DEF AllInv, Created, OneCreator
<1>. QED  BY <1>1, AllInvInductive, PTL

\* The tenant's one window leaves out no day of an account that never goes without an
\* answer for more than the lookback.
THEOREM NoDayMissed == Spec => []NoDayIsMissed
<1>1. AllInv => NoDayIsMissed
  BY DEF AllInv, Inv
<1>. QED  BY <1>1, AllInvInductive, PTL
=============================================================================
