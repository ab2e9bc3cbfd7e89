----------------------------- MODULE FxBooksProofs -----------------------------
(***************************************************************************)
(* Theorems of FxBooks, for any rates, bookings, requests and bounds: its  *)
(* types, that the cache is ECOS's, that the newest rate is answered, that *)
(* a steady collector leaves no hole, when a revaluation succeeds and why  *)
(* it is refused.                                                          *)
(***************************************************************************)
EXTENDS FxBooks, TLAPS

\* What kind of request is at a label.
Kind(r) ==
  /\ pc[r] \in {"rate"} => input[r].op = "rate"
  /\ pc[r] = "walk" => input[r].op \in {"rate", "revalue"}
  /\ pc[r] \in {"range", "fetch"} => input[r].op = "range"
  /\ pc[r] = "collect" => input[r].op = "collect"
  /\ pc[r] = "save" => input[r].op \in {"rate", "range", "collect"}
  /\ pc[r] \in {"revalue", "post"} => input[r].op = "revalue"

\* Calls of ECOS have not been made, or not ended.
Asking == {"idle", "rate", "walk", "range", "fetch", "collect", "revalue"}

Ordered(r) ==
  pc[r] # "idle" =>
    /\ input[r] \in Orders /\ input[r].to <= today
    /\ input[r].op = "collect" =>
         input[r].from = IF input[r].to < Window THEN 0 ELSE input[r].to - Window

\* What a request knows, has asked for and got.
Fetched(r) ==
  /\ known[r] \subseteq published /\ got[r] \subseteq published
  /\ pc[r] \in Asking => got[r] = {}
  /\ pc[r] \in {"rate", "revalue", "walk"} => IsNewest(cursor[r], r)
  /\ input[r].op \in {"rate", "revalue"} => \A d \in got[r] : IsNewest(d, r)
  /\ pc[r] = "save" /\ input[r].op = "collect" =>
       \A d \in published : input[r].from <= d /\ d < input[r].to => d \in got[r]

\* AnswersTheNewest, RefusedForCause and NothingToPost, of one request.
Newest(r) ==
  pc[r] = "done" /\ input[r].op \in {"rate", "revalue"} =>
    \A d \in answer[r].days : d \in published /\ IsNewest(d, r)

Caused(r) ==
  pc[r] = "done" /\ input[r].op = "revalue" /\ answer[r].code = 500 =>
    \/ got[r] = {} /\ Open(read[r]) \cap OtherCurrency # {}
    \/ got[r] = {} /\ \A d \in known[r] : d > input[r].to \/ d < input[r].to - Back
    \/ \E d \in got[r] : \E a \in Open(read[r]) : Delta(read[r], d)[a] # 0

\* What a revaluation that goes on after its reading has read.
Single(r) ==
  pc[r] \in {"walk", "post"} /\ input[r].op = "revalue" => Open(read[r]) \cap OtherCurrency = {}

Quiet(r) ==
  pc[r] = "done" /\ input[r].op = "revalue" /\ answer[r].code = 200 =>
    \/ \A a \in Accounts : read[r][a].fcy = 0
    \/ \E d \in published :
         /\ IsNewest(d, r)
         /\ \A a \in Accounts : read[r][a].fcy # 0 =>
              a \notin OtherCurrency /\ read[r][a].fcy * Rate[d] = Parts * read[r][a].krw

Answered(r) == Newest(r) /\ Caused(r) /\ Single(r) /\ Quiet(r)

\* The inductive invariant of the rates: Publish only ever adds today's, at or after every
\* day asked for or collected.
Published == published \subseteq 0 .. today
Calls     == \A r \in Requests : Kind(r) /\ Ordered(r) /\ Fetched(r)
IInv      == Published /\ Calls
---------------------------------------------------------------------------
\* A difference of nothing is a balance booked at its closing value.
LEMMA NoDelta ==
  ASSUME NEW b \in Ledger, NEW d \in Days, NEW a \in Open(b)
  PROVE  /\ a \in Accounts
         /\ Delta(b, d)[a] = b[a].fcy * Rate[d] - Parts * b[a].krw
         /\ (Delta(b, d)[a] = 0 <=> b[a].fcy * Rate[d] = Parts * b[a].krw)
<1>1. a \in Accounts /\ b[a].fcy \in Int /\ b[a].krw \in Int /\ Rate[d] \in Nat /\ Parts \in Nat
  BY RatesAssumption DEF Ledger, Open
<1>2. Delta(b, d)[a] = b[a].fcy * Rate[d] - Parts * b[a].krw
  BY DEF Delta
<1>. DEFINE f == b[a].fcy * Rate[d]
            k == Parts * b[a].krw
<1>3. f \in Int /\ k \in Int /\ Delta(b, d)[a] = f - k
  BY <1>1, <1>2
<1>. HIDE DEF f, k
<1>4. Delta(b, d)[a] = 0 <=> f = k
  BY <1>3
<1>. QED  BY <1>1, <1>2, <1>4 DEF f, k
---------------------------------------------------------------------------
(* Types.                                                                  *)

LEMMA Within == \A i, j, d \in Int : i <= d /\ d <= j => d \in i .. j
OBVIOUS

LEMMA DaysAreInts == Days \subseteq Int /\ 0 \in Days
BY RatesAssumption DEF Days

LEMMA InputDays ==
  ASSUME TypeOK, NEW r \in Requests
  PROVE  input[r].from \in Days /\ input[r].to \in Days /\ Asked(r) \subseteq Days
<1>1. input[r].from \in Days /\ input[r].to \in Days
  BY DaysAreInts DEF TypeOK, Orders, NoOrder
<1>. QED  BY <1>1, RatesAssumption DEF Asked, Days

LEMMA TypeInit == Init => TypeOK
<1>. SUFFICES ASSUME Init PROVE TypeOK  OBVIOUS
<1>1. balance \in Ledger
  BY DEF Init, Zero, Ledger
<1>2. cursor \in [Requests -> (0 - Back) .. MaxDay] /\ bookings \in 0 .. MaxBookings
  BY RatesAssumption DEF Init
<1>. QED  BY <1>1, <1>2, DaysAreInts DEF Init, TypeOK, NoSweep, NoOrder, NoAnswer, Labels

LEMMA TypeNext == TypeOK /\ IInv /\ [Next]_vars => TypeOK'
<1>. SUFFICES ASSUME TypeOK, IInv, [Next]_vars PROVE TypeOK'  OBVIOUS
<1>. USE DEF rateVars, bookVars, callVars, Goto, Reply
<1>1. CASE \E r \in Requests : Arrive(r)
  <2>1. PICK r \in Requests, o \in Orders :
          /\ input' = [input EXCEPT ![r] = o]
          /\ cursor' = [cursor EXCEPT ![r] = o.to]
          /\ pc' = [pc EXCEPT ![r] = o.op]
          /\ known' = [known EXCEPT ![r] = published]
          /\ UNCHANGED <<rateVars, bookVars, got, read, answer>>
    BY <1>1 DEF Arrive
  <2>2. o.to \in (0 - Back) .. MaxDay /\ o.op \in Labels
    BY RatesAssumption DEF Orders, Labels, Days
  <2>. QED  BY <2>1, <2>2 DEF TypeOK
<1>2. CASE \E r \in Requests : LookUp(r) \/ ListRange(r) \/ FetchRange(r)
  <2>1. PICK r \in Requests : LookUp(r) \/ ListRange(r) \/ FetchRange(r)
    BY <1>2
  <2>2. input[r].to \in Days /\ Asked(r) \subseteq Days
    BY InputDays
  <2>3. PICK l \in {"done", "walk", "fetch", "save"} : pc' = [pc EXCEPT ![r] = l]
    BY <2>1, Zenon DEF LookUp, ListRange, FetchRange
  <2>4. \/ answer' = answer
        \/ \E c \in {200, 500}, days \in {{}, {input[r].to}, Cached(r)} :
             answer' = [answer EXCEPT ![r] = [code |-> c, days |-> days]]
    BY <2>1 DEF LookUp, ListRange, FetchRange
  <2>5. answer' \in [Requests -> [code : {0, 200, 500, 502}, days : SUBSET Days]]
    <3>1. Cached(r) \subseteq Days
      BY <2>2 DEF Cached
    <3>2. \A days \in {{}, {input[r].to}, Cached(r)} : days \in SUBSET Days
      BY <2>2, <3>1
    <3>. QED  BY <2>4, <3>2 DEF TypeOK
  <2>6. \/ got' = got
        \/ got' = [got EXCEPT ![r] = Asked(r) \cap published]
    BY <2>1 DEF LookUp, ListRange, FetchRange
  <2>7. got' \in [Requests -> SUBSET Days]
    BY <2>2, <2>6 DEF TypeOK
  <2>8. pc' \in [Requests -> Labels]
    BY <2>3 DEF TypeOK, Labels
  <2>9. UNCHANGED <<rateVars, bookVars, input, cursor, read, known>>
    BY <2>1 DEF LookUp, ListRange, FetchRange
  <2>. QED  BY <2>5, <2>7, <2>8, <2>9 DEF TypeOK
<1>3. CASE \E r \in Requests : Walk(r)
  <2>1. PICK r \in Requests : Walk(r)
    BY <1>3
  <2>2. pc' \in [Requests -> Labels]
    BY <2>1 DEF Walk, TypeOK, Labels
  <2>3. answer' \in [Requests -> [code : {0, 200, 500, 502}, days : SUBSET Days]]
    BY <2>1 DEF Walk, TypeOK
  <2>4. got' \in [Requests -> SUBSET Days]
    BY <2>1 DEF Walk, TypeOK
  <2>5. input[r].to \in Days
    BY DaysAreInts DEF TypeOK, Orders, NoOrder
  <2>6. cursor[r] \in (0 - Back) .. MaxDay /\ input[r].to - cursor[r] <= Back
    BY <2>1 DEF Walk, TypeOK, IInv, Calls, Fetched, IsNewest
  <2>7. GoesBack(r) => cursor[r] - 1 \in (0 - Back) .. MaxDay
    BY <2>5, <2>6, RatesAssumption DEF GoesBack, Days
  <2>8. cursor' \in [Requests -> (0 - Back) .. MaxDay]
    BY <2>1, <2>7 DEF Walk, TypeOK
  <2>. QED  BY <2>1, <2>2, <2>3, <2>4, <2>8 DEF Walk, TypeOK
<1>4. CASE \E r \in Requests : UpsertMany(r)
  <2>1. PICK r \in Requests : UpsertMany(r)
    BY <1>4
  <2>2. input[r].from \in Days /\ input[r].to \in Days /\ got[r] \subseteq Days
    BY DaysAreInts DEF TypeOK, Orders, NoOrder
  <2>3. obs' \in [Days -> Nat \cup {None}]
    BY <2>1, <2>2, RatesAssumption DEF UpsertMany, Stored, TypeOK
  <2>4. sweep' \in [first : Days \cup {None}, last : Days \cup {None}, steady : BOOLEAN]
    <3>1. sweep' = Swept(r)
      BY <2>1 DEF UpsertMany
    <3>2. /\ sweep.first \in Days \cup {None} /\ sweep.last \in Days \cup {None}
          /\ sweep.steady \in BOOLEAN
          /\ sweep \in [first : Days \cup {None}, last : Days \cup {None}, steady : BOOLEAN]
      BY DEF TypeOK
    <3>. QED  BY <2>2, <3>1, <3>2 DEF Swept
  <2>. QED  BY <2>1, <2>2, <2>3, <2>4 DEF UpsertMany, TypeOK, Labels
<1>5. CASE \E r \in Requests : ReadOpenBalances(r)
  <2>1. PICK r \in Requests : ReadOpenBalances(r)
    BY <1>5
  <2>2. /\ read' = [read EXCEPT ![r] = balance]
        /\ UNCHANGED <<rateVars, bookVars, input, cursor, got, known>>
        /\ \/ \E code \in {200, 500} : Reply(r, code, {})
           \/ Goto(r, "walk") /\ UNCHANGED answer
    BY <2>1 DEF ReadOpenBalances
  <2>3. pc' \in [Requests -> Labels]
    BY <2>2 DEF TypeOK, Labels
  <2>4. answer' \in [Requests -> [code : {0, 200, 500, 502}, days : SUBSET Days]]
    BY <2>2 DEF TypeOK
  <2>. QED  BY <2>2, <2>3, <2>4 DEF TypeOK
<1>6. CASE \E r \in Requests : Post(r)
  <2>0. PICK r \in Requests : Post(r)
    BY <1>6
  <2>1. PICK d \in got[r] : \E code \in {200, 500}, days \in {{}, {d}} : Reply(r, code, days)
    BY <2>0 DEF Post
  <2>2. d \in Days
    BY DEF TypeOK
  <2>3. pc' \in [Requests -> Labels]
          /\ answer' \in [Requests -> [code : {0, 200, 500, 502}, days : SUBSET Days]]
    BY <2>1, <2>2 DEF TypeOK, Labels
  <2>. QED  BY <2>0, <2>3 DEF Post, TypeOK
<1>7. CASE \E r \in Requests : Fail(r)
  BY <1>7 DEF Fail, TypeOK, Labels
<1>8. CASE Publish \/ NextDay
  <2>0. today \in Days /\ published \subseteq Days
    BY DEF TypeOK
  <2>1. today' \in Days /\ published' \subseteq Days
    <3>1. CASE Publish
      BY <2>0, <3>1 DEF Publish
    <3>2. CASE NextDay
      BY <2>0, <3>2, RatesAssumption DEF NextDay, Days
    <3>. QED  BY <1>8, <3>1, <3>2
  <2>. QED  BY <1>8, <2>1 DEF Publish, NextDay, TypeOK
<1>9. CASE \E a \in Accounts : Book(a)
  <2>1. PICK a \in Accounts, b \in Bookings :
          balance' = [balance EXCEPT ![a] = [fcy |-> @.fcy + b.fcy, krw |-> @.krw + b.krw]]
    BY <1>9 DEF Book
  <2>2. balance' \in Ledger
    BY <2>1, BooksAssumption DEF TypeOK, Ledger
  <2>3. bookings' \in 0 .. MaxBookings
    BY <1>9, RatesAssumption DEF Book, TypeOK
  <2>. QED  BY <1>9, <2>2, <2>3 DEF Book, TypeOK
<1>10. CASE UNCHANGED vars
  BY <1>10 DEF vars, TypeOK
<1>. QED
  BY <1>1, <1>2, <1>3, <1>4, <1>5, <1>6, <1>7, <1>8, <1>9, <1>10 DEF Next, Rates, Revalue
---------------------------------------------------------------------------
(* The invariant of the rates.                                             *)

\* A step of a request leaves the others and the days alone.
Kept(q) ==
  /\ pc'[q] = pc[q] /\ input'[q] = input[q] /\ cursor'[q] = cursor[q] /\ got'[q] = got[q]
  /\ read'[q] = read[q] /\ known'[q] = known[q] /\ answer'[q] = answer[q]

LEMMA OthersKept ==
  ASSUME TypeOK, NEW r \in Requests, Arrive(r) \/ Rates(r) \/ Revalue(r) \/ Fail(r)
  PROVE  /\ \A q \in Requests \ {r} : Kept(q)
         /\ today' = today /\ published' = published
<1>. USE DEF TypeOK, Goto, Reply, rateVars, bookVars, Kept
<1>1. CASE Arrive(r)
  BY <1>1 DEF Arrive
<1>2. CASE LookUp(r)
  BY <1>2 DEF LookUp
<1>3. CASE Walk(r)
  BY <1>3 DEF Walk
<1>4. CASE ListRange(r)
  BY <1>4 DEF ListRange
<1>5. CASE FetchRange(r)
  BY <1>5 DEF FetchRange
<1>6. CASE UpsertMany(r) \/ Fail(r)
  BY <1>6 DEF UpsertMany, Fail
<1>7. CASE ReadOpenBalances(r)
  BY <1>7 DEF ReadOpenBalances
<1>8. CASE Post(r)
  <2>1. \E l \in {"done"} : pc' = [pc EXCEPT ![r] = l]
    BY <1>8 DEF Post
  <2>2. \E x : answer' = [answer EXCEPT ![r] = x]
    BY <1>8 DEF Post
  <2>. QED  BY <1>8, <2>1, <2>2 DEF Post
<1>. QED
  BY <1>1, <1>2, <1>3, <1>4, <1>5, <1>6, <1>7, <1>8 DEF Rates, Revalue

\* What Call says of a request that does nothing stays true as days pass.
LEMMA CallKept ==
  ASSUME TypeOK, IInv, NEW q \in Requests, Kept(q),
         today' \in {today, today + 1}, published' \in {published, published \cup {today}}
  PROVE  (Kind(q) /\ Ordered(q) /\ Fetched(q))'
<1>. USE DEF Kept
<1>1. Kind(q) /\ Ordered(q) /\ Fetched(q) /\ (pc[q] # "idle" => input[q].to <= today)
  BY DEF IInv, Calls, Ordered
<1>2. today \in Int /\ input[q].to \in Int /\ input[q].from \in Int
  BY InputDays, DaysAreInts DEF TypeOK
<1>3. Kind(q)'
  BY <1>1 DEF Kind
<1>4. Ordered(q)'
  BY <1>1, <1>2 DEF Ordered
<1>5. \A d : IsNewest(d, q)' <=> IsNewest(d, q)
  BY DEF IsNewest
<1>6. Fetched(q)'
  BY <1>1, <1>2, <1>5 DEF Fetched
<1>. QED  BY <1>3, <1>4, <1>6

\* The steps of the request itself.
LEMMA CallNext ==
  ASSUME TypeOK, IInv, NEW r \in Requests, Arrive(r) \/ Rates(r) \/ Revalue(r) \/ Fail(r)
  PROVE  (Kind(r) /\ Ordered(r) /\ Fetched(r))'
<1>. USE DEF Goto, Reply, rateVars, bookVars
<1>1. /\ Kind(r) /\ Ordered(r) /\ Fetched(r) /\ Published
      /\ pc \in [Requests -> Labels] /\ input \in [Requests -> Orders \cup {NoOrder}]
      /\ cursor \in [Requests -> (0 - Back) .. MaxDay]
      /\ got \in [Requests -> SUBSET Days] /\ known \in [Requests -> SUBSET Days]
  BY DEF IInv, Calls, TypeOK
<1>2. /\ today \in Int /\ input[r].to \in Int /\ input[r].from \in Int /\ cursor[r] \in Int
      /\ Back \in Nat /\ published \subseteq Int
  <2>1. today \in Days /\ published \subseteq Days
    BY DEF TypeOK
  <2>2. cursor[r] \in Int /\ Back \in Nat
    BY <1>1, RatesAssumption
  <2>. QED  BY <2>1, <2>2, InputDays, DaysAreInts
<1>3. published' = published /\ today' = today
  BY OthersKept
<1>4. CASE Arrive(r)
  <2>1. PICK o \in Orders :
          /\ o.op = "collect" => o.to = today /\ o.from = IF today < Window THEN 0 ELSE today - Window
          /\ o.from <= o.to /\ o.to <= today
          /\ input'[r] = o /\ cursor'[r] = o.to /\ pc'[r] = o.op
          /\ known'[r] = published /\ got'[r] = got[r] /\ got[r] = {}
    BY <1>1, <1>4 DEF Arrive, Fetched, Asking
  <2>2. o.op \in {"rate", "revalue", "range", "collect"} /\ o.to \in Int
    BY DaysAreInts DEF Orders
  <2>3. IsNewest(o.to, r)'
    BY <1>2, <2>1, <2>2 DEF IsNewest
  <2>. QED  BY <1>1, <1>3, <2>1, <2>2, <2>3 DEF Kind, Ordered, Fetched
<1>5. pc[r] # "idle" /\ input'[r] = input[r] => Ordered(r)'
  BY <1>1, <1>3 DEF Ordered
<1>6. input'[r] = input[r] /\ known'[r] = known[r] =>
        \A d : IsNewest(d, r)' <=> IsNewest(d, r)
  BY DEF IsNewest
<1>8. CASE LookUp(r) \/ ListRange(r) \/ ReadOpenBalances(r) \/ Fail(r)
  <2>1. /\ input' = input /\ cursor' = cursor /\ got' = got /\ known' = known /\ pc[r] # "idle"
        /\ \/ pc'[r] = "done"
           \/ pc[r] \in {"rate", "revalue"} /\ pc'[r] = "walk"
           \/ pc[r] = "range" /\ pc'[r] = "fetch"
    BY <1>1, <1>8 DEF LookUp, ListRange, ReadOpenBalances, Fail
  <2>2. Kind(r)'
    BY <1>1, <2>1 DEF Kind
  <2>4. Fetched(r)'
    BY <1>1, <1>3, <1>6, <2>1 DEF Fetched, Asking
  <2>. QED  BY <1>5, <2>1, <2>2, <2>4
<1>9. CASE Walk(r)
  <2>1. /\ input' = input /\ known' = known /\ pc[r] = "walk" /\ got[r] = {}
        /\ IsNewest(cursor[r], r) /\ input[r].op \in {"rate", "revalue"}
    BY <1>1, <1>9 DEF Walk, Kind, Fetched, Asking
  <2>2. CASE cursor[r] \in published
    <3>1. got'[r] = {cursor[r]}
            /\ pc'[r] = IF input[r].op = "rate" THEN "save" ELSE "post"
      BY <1>1, <1>9, <2>2 DEF Walk
    <3>. QED  BY <1>1, <1>3, <1>5, <1>6, <2>1, <2>2, <3>1 DEF Kind, Fetched, Asking
  <2>3. CASE cursor[r] \notin published /\ GoesBack(r)
    <3>1. got'[r] = {} /\ pc'[r] = "walk" /\ cursor'[r] = cursor[r] - 1
      BY <1>1, <1>9, <2>1, <2>3 DEF Walk
    <3>2. IsNewest(cursor[r] - 1, r)
      <4>1. input[r].to - (cursor[r] - 1) <= Back /\ cursor[r] - 1 <= input[r].to
        BY <1>2, <2>1, <2>3 DEF IsNewest, GoesBack
      <4>2. cursor[r] \notin known[r]
        BY <1>1, <2>3 DEF Fetched
      <4>3. \A e \in (cursor[r] - 1 + 1) .. input[r].to :
              e = cursor[r] \/ e \in (cursor[r] + 1) .. input[r].to
        BY <1>2
      <4>. QED  BY <2>1, <4>1, <4>2, <4>3 DEF IsNewest
    <3>. QED  BY <1>1, <1>3, <1>5, <1>6, <2>1, <3>1, <3>2 DEF Kind, Fetched, Asking
  <2>4. CASE cursor[r] \notin published /\ ~GoesBack(r)
    <3>1. got'[r] = {} /\ pc'[r] = "done"
      BY <1>1, <1>9, <2>1, <2>4 DEF Walk
    <3>. QED  BY <1>1, <1>3, <1>5, <1>6, <2>1, <3>1 DEF Kind, Fetched, Asking
  <2>. QED  BY <2>2, <2>3, <2>4
<1>10. CASE FetchRange(r)
  <2>1. /\ input' = input /\ known' = known /\ pc[r] \in {"fetch", "collect"}
        /\ input[r].op \in {"range", "collect"}
        /\ got'[r] = Asked(r) \cap published /\ pc'[r] \in {"done", "save"}
    BY <1>1, <1>10 DEF FetchRange, Kind
  <2>2. \A d \in published : input[r].from <= d /\ d < input[r].to => d \in Asked(r)
    <3>. SUFFICES ASSUME NEW d \in published, input[r].from <= d, d < input[r].to
                  PROVE  d \in Asked(r)
      OBVIOUS
    <3>1. d \in Int /\ d <= input[r].to
      BY <1>2
    <3>. QED  BY <1>2, <3>1, Within DEF Asked
  <2>3. Kind(r)'
    BY <2>1 DEF Kind
  <2>4. Fetched(r)'
    BY <1>1, <1>3, <2>1, <2>2 DEF Fetched, Asking
  <2>. QED  BY <1>5, <2>1, <2>3, <2>4
<1>11. CASE UpsertMany(r) \/ Post(r)
  <2>1. /\ input' = input /\ known' = known /\ got' = got /\ pc[r] \in {"save", "post"}
        /\ pc'[r] = "done"
    BY <1>1, <1>11 DEF UpsertMany, Post
  <2>. QED  BY <1>1, <1>3, <1>5, <1>6, <2>1 DEF Kind, Fetched, Asking
<1>. QED
  BY <1>4, <1>8, <1>9, <1>10, <1>11 DEF Rates, Revalue

LEMMA IInvNext == TypeOK /\ IInv /\ [Next]_vars => IInv'
<1>. SUFFICES ASSUME TypeOK, IInv, [Next]_vars PROVE IInv'  OBVIOUS
<1>1. published \subseteq 0 .. today /\ today \in Nat /\ Days \subseteq Nat
  BY RatesAssumption DEF IInv, Published, TypeOK, Days
<1>2. CASE \E r \in Requests : Arrive(r) \/ Rates(r) \/ Revalue(r) \/ Fail(r)
  <2>1. PICK r \in Requests : Arrive(r) \/ Rates(r) \/ Revalue(r) \/ Fail(r)
    BY <1>2
  <2>2. today' = today /\ published' = published /\ \A q \in Requests \ {r} : Kept(q)
    BY <2>1, OthersKept
  <2>3. \A q \in Requests : (Kind(q) /\ Ordered(q) /\ Fetched(q))'
    BY <2>1, <2>2, CallNext, CallKept
  <2>. QED  BY <2>2, <2>3 DEF IInv, Calls, Published
<1>3. CASE Publish \/ NextDay \/ (\E a \in Accounts : Book(a)) \/ UNCHANGED vars
  <2>1. /\ UNCHANGED callVars
        /\ today' \in {today, today + 1} /\ published' \in {published, published \cup {today}}
    BY <1>3 DEF Publish, NextDay, Book, vars, rateVars
  <2>2. \A q \in Requests : Kept(q)
    BY <2>1 DEF Kept, callVars
  <2>3. \A q \in Requests : (Kind(q) /\ Ordered(q) /\ Fetched(q))'
    BY <2>1, <2>2, CallKept
  <2>4. published' \subseteq 0 .. today'
    BY <1>1, <2>1
  <2>. QED  BY <2>3, <2>4 DEF IInv, Calls, Published
<1>. QED  BY <1>2, <1>3 DEF Next

LEMMA IInvInit == Init => IInv
BY RatesAssumption DEF Init, IInv, Published, Calls, Kind, Ordered, Fetched, Asking, NoOrder

\* Every variable has its type, for any rates, bookings and bounds.
THEOREM TypeCorrect == Spec => [](TypeOK /\ IInv)
<1>. QED  BY TypeInit, TypeNext, IInvInit, IInvNext, PTL DEF Spec
---------------------------------------------------------------------------
(* The cache.                                                              *)

\* The cache holds what ECOS published, each rate for its own day.
THEOREM CacheIsEcos == Spec => []ObservationsAreEcos
<1>1. Init => ObservationsAreEcos
  BY DEF Init, ObservationsAreEcos
<1>2. TypeOK /\ IInv /\ ObservationsAreEcos /\ [Next]_vars => ObservationsAreEcos'
  <2>. SUFFICES ASSUME TypeOK, IInv, ObservationsAreEcos, [Next]_vars
                PROVE  ObservationsAreEcos'
    OBVIOUS
  <2>1. published \subseteq published' /\ UNCHANGED obs => ObservationsAreEcos'
    BY DEF ObservationsAreEcos
  <2>2. CASE \E r \in Requests : UpsertMany(r)
    <3>1. PICK r \in Requests : UpsertMany(r)
      BY <2>2
    <3>2. got[r] \subseteq published /\ published' = published
      BY <3>1 DEF IInv, Calls, Fetched, UpsertMany
    <3>. QED  BY <3>1, <3>2 DEF UpsertMany, Stored, ObservationsAreEcos
  <2>3. CASE \E r \in Requests : Arrive(r) \/ LookUp(r) \/ Walk(r) \/ ListRange(r)
                                   \/ FetchRange(r) \/ Revalue(r) \/ Fail(r)
    BY <2>1, <2>3 DEF Arrive, LookUp, Walk, ListRange, FetchRange, Revalue, ReadOpenBalances,
      Post, Fail, rateVars
  <2>4. CASE Publish \/ NextDay \/ (\E a \in Accounts : Book(a)) \/ UNCHANGED vars
    BY <2>1, <2>4 DEF Publish, NextDay, Book, vars, rateVars
  <2>. QED  BY <2>2, <2>3, <2>4 DEF Next, Rates
<1>. QED  BY <1>1, <1>2, TypeCorrect, PTL DEF Spec
---------------------------------------------------------------------------
(* Answers.                                                                *)

\* The end of a request for the rate of a day, or of a revaluation.
LEMMA NewestNext ==
  ASSUME TypeOK, IInv, ObservationsAreEcos, NEW r \in Requests,
         Arrive(r) \/ Rates(r) \/ Revalue(r) \/ Fail(r)
  PROVE  Newest(r)'
<1>. USE DEF Goto, Reply, rateVars, bookVars
<1>. SUFFICES ASSUME pc'[r] = "done", input'[r].op \in {"rate", "revalue"},
                     NEW d \in answer'[r].days
              PROVE  d \in published /\ IsNewest(d, r)
  <2>1. published' = published
    BY OthersKept
  <2>2. UNCHANGED <<input, known>> \/ pc'[r] # "done"
    BY DEF Arrive, Orders, Rates, LookUp, Walk, ListRange, FetchRange, UpsertMany, Revalue,
      ReadOpenBalances, Post, Fail, TypeOK
  <2>. QED  BY <2>1, <2>2 DEF Newest, IsNewest
<1>1. /\ pc \in [Requests -> Labels] /\ answer \in [Requests -> [code : {0, 200, 500, 502}, days : SUBSET Days]]
      /\ Kind(r) /\ Fetched(r) /\ cursor[r] \in Int
  BY DEF IInv, Calls, TypeOK
<1>2. Back \in Nat /\ input[r].to \in Int /\ input[r].to \in Days
  BY InputDays, DaysAreInts, RatesAssumption
<1>3. ~Arrive(r)
  BY <1>1 DEF Arrive, Orders, TypeOK
<1>4. input' = input
  BY <1>3 DEF Rates, LookUp, Walk, ListRange, FetchRange, UpsertMany, Revalue, ReadOpenBalances,
    Post, Fail
<1>5. CASE LookUp(r)
  <2>1. d = input[r].to /\ obs[d] # None
    BY <1>1, <1>5 DEF LookUp
  <2>. QED  BY <1>2, <2>1 DEF ObservationsAreEcos, IsNewest
<1>6. CASE Walk(r) \/ ListRange(r) \/ FetchRange(r) \/ ReadOpenBalances(r) \/ Fail(r)
  <2>1. ~ListRange(r) /\ ~FetchRange(r)
    <3>1. pc[r] \notin {"range", "fetch", "collect"}
      BY <1>1, <1>4 DEF Kind
    <3>. QED  BY <3>1 DEF ListRange, FetchRange
  <2>2. answer'[r].days = {}
    BY <1>1, <1>6, <2>1 DEF Walk, ReadOpenBalances, Fail
  <2>. QED  BY <2>2
<1>7. CASE UpsertMany(r) \/ Post(r)
  <2>1. d \in got[r]
    <3>1. CASE UpsertMany(r)
      BY <1>1, <3>1 DEF UpsertMany
    <3>2. CASE Post(r)
      <4>1. PICK e \in got[r] : \E c \in {200, 500}, days \in {{}, {e}} : Reply(r, c, days)
        BY <3>2 DEF Post
      <4>. QED  BY <1>1, <4>1
    <3>. QED  BY <1>7, <3>1, <3>2
  <2>. QED  BY <1>1, <1>4, <2>1 DEF Fetched
<1>. QED  BY <1>3, <1>5, <1>6, <1>7 DEF Rates, Revalue

\* The refusals of a revaluation.
LEMMA CausedNext ==
  ASSUME TypeOK, IInv, NEW r \in Requests, Arrive(r) \/ Rates(r) \/ Revalue(r) \/ Fail(r)
  PROVE  Caused(r)'
<1>. USE DEF Goto, Reply, rateVars, bookVars
<1>1. /\ pc \in [Requests -> Labels] /\ answer \in [Requests -> [code : {0, 200, 500, 502}, days : SUBSET Days]]
      /\ got \in [Requests -> SUBSET Days] /\ read \in [Requests -> Ledger]
      /\ Kind(r) /\ Fetched(r) /\ cursor[r] \in Int /\ published \subseteq Days
  BY DEF IInv, Calls, TypeOK
<1>2. Back \in Nat /\ input[r].to \in Int
  BY InputDays, DaysAreInts, RatesAssumption
<1>. SUFFICES ASSUME pc'[r] = "done", input'[r].op = "revalue", answer'[r].code = 500
              PROVE  Caused(r)'
  BY DEF Caused
<1>3. ReadOpenBalances(r) \/ Walk(r) \/ Post(r)
  <2>1. ~Arrive(r)
    BY <1>1 DEF Arrive, Orders, TypeOK
  <2>2. input' = input
    BY <2>1 DEF Rates, LookUp, Walk, ListRange, FetchRange, UpsertMany, Revalue,
      ReadOpenBalances, Post, Fail
  <2>3. pc[r] \notin {"rate", "range", "fetch", "collect", "save"} 
    BY <1>1, <2>2 DEF Kind
  <2>4. ~Fail(r)
    BY <1>1 DEF Fail
  <2>. QED
    BY <2>1, <2>3, <2>4 DEF Rates, LookUp, ListRange, FetchRange, UpsertMany, Revalue
<1>4. CASE ReadOpenBalances(r)
  <2>1. got'[r] = {}
    BY <1>1, <1>4 DEF ReadOpenBalances, Fetched, Asking
  <2>2. Open(balance) \cap OtherCurrency # {} /\ read'[r] = balance
    BY <1>1, <1>4 DEF ReadOpenBalances
  <2>. QED  BY <2>1, <2>2 DEF Caused
<1>5. CASE Walk(r)
  <2>1. /\ got'[r] = {} /\ known' = known /\ input' = input
        /\ cursor[r] \notin published /\ ~GoesBack(r) /\ IsNewest(cursor[r], r)
        /\ known[r] \subseteq published
    BY <1>1, <1>5 DEF Walk, Fetched, Asking
  <2>2. known[r] \subseteq Int
    BY <1>1, <2>1, DaysAreInts
  <2>3. \A d \in known[r] : d > input[r].to \/ d < input[r].to - Back
    <3>. SUFFICES ASSUME NEW d \in known[r], d <= input[r].to, input[r].to - Back <= d
                  PROVE  FALSE
      BY <1>2, <2>2
    <3>1. /\ cursor[r] \in Int /\ d \in Int
          /\ cursor[r] = input[r].to - Back
      <4>1. cursor[r] \in Int /\ d \in Int
        BY <1>1, <2>2
      <4>2. input[r].to - cursor[r] <= Back /\ ~(input[r].to - cursor[r] < Back)
        BY <2>1 DEF GoesBack, IsNewest
      <4>. QED  BY <1>2, <4>1, <4>2
    <3>2. d = cursor[r] \/ cursor[r] + 1 <= d
      BY <1>2, <3>1
    <3>3. d = cursor[r] \/ d \in (cursor[r] + 1) .. input[r].to
      BY <1>2, <3>1, <3>2, Within
    <3>. QED  BY <2>1, <3>3 DEF IsNewest
  <2>. QED  BY <2>1, <2>3 DEF Caused
<1>6. CASE Post(r)
  <2>1. PICK d \in got[r] : Moved(Delta(read[r], d)) # {}
    BY <1>1, <1>6 DEF Post
  <2>2. PICK a \in Open(read[r]) : Delta(read[r], d)[a] # 0
    BY <2>1 DEF Moved, Delta
  <2>3. got' = got /\ read' = read
    BY <1>6 DEF Post
  <2>. QED  BY <2>2, <2>3 DEF Caused
<1>. QED  BY <1>3, <1>4, <1>5, <1>6

\* The successes of a revaluation, and what it goes on with after its reading.
LEMMA QuietNext ==
  ASSUME TypeOK, IInv, NEW r \in Requests, Single(r),
         Arrive(r) \/ Rates(r) \/ Revalue(r) \/ Fail(r)
  PROVE  Single(r)' /\ Quiet(r)'
<1>. USE DEF Goto, Reply, rateVars, bookVars
<1>1. /\ pc \in [Requests -> Labels] /\ answer \in [Requests -> [code : {0, 200, 500, 502}, days : SUBSET Days]]
      /\ got \in [Requests -> SUBSET Days] /\ read \in [Requests -> Ledger]
      /\ input \in [Requests -> Orders \cup {NoOrder}] /\ balance \in Ledger
      /\ Kind(r) /\ Fetched(r)
  BY DEF IInv, Calls, TypeOK
<1>2. published' = published
  BY OthersKept
<1>3. CASE Arrive(r)
  <2>1. pc'[r] \in {"rate", "revalue", "range", "collect"}
    BY <1>1, <1>3 DEF Arrive, Orders
  <2>. QED  BY <2>1 DEF Single, Quiet
<1>4. CASE LookUp(r) \/ ListRange(r) \/ FetchRange(r) \/ UpsertMany(r)
  <2>1. input' = input /\ input[r].op # "revalue"
    BY <1>1, <1>4 DEF LookUp, ListRange, FetchRange, UpsertMany, Kind
  <2>. QED  BY <2>1 DEF Single, Quiet
<1>5. CASE Walk(r)
  <2>1. /\ input' = input /\ read' = read /\ pc[r] = "walk"
        /\ pc'[r] = "done" => answer'[r].code = 500
    BY <1>1, <1>5 DEF Walk
  <2>. QED  BY <2>1 DEF Single, Quiet
<1>6. CASE Fail(r)
  <2>1. pc'[r] = "done" /\ answer'[r].code = 502
    BY <1>1, <1>6 DEF Fail
  <2>. QED  BY <2>1 DEF Single, Quiet
<1>7. CASE ReadOpenBalances(r)
  <2>1. read'[r] = balance
    BY <1>1, <1>7 DEF ReadOpenBalances
  <2>2. pc'[r] # "done" => Open(balance) \cap OtherCurrency = {}
    BY <1>1, <1>7 DEF ReadOpenBalances
  <2>3. pc'[r] = "done" /\ answer'[r].code = 200 => Open(balance) = {}
    BY <1>1, <1>7 DEF ReadOpenBalances
  <2>. QED  BY <2>1, <2>2, <2>3 DEF Single, Quiet, Open
<1>8. CASE Post(r)
  <2>1. input' = input /\ read' = read /\ known' = known /\ pc'[r] = "done" /\ pc[r] = "post"
    BY <1>1, <1>8 DEF Post
  <2>2. SUFFICES ASSUME answer'[r].code = 200 PROVE Quiet(r)'
    BY <2>1 DEF Single, Quiet
  <2>3. PICK d \in got[r] : Moved(Delta(read[r], d)) = {}
    BY <1>1, <1>8, <2>2 DEF Post
  <2>4. /\ input[r].op = "revalue" /\ d \in published /\ d \in Days /\ IsNewest(d, r)
        /\ read[r] \in Ledger /\ Open(read[r]) \cap OtherCurrency = {}
    BY <1>1, <2>1 DEF Kind, Fetched, Single
  <2>5. ASSUME NEW a \in Accounts, read[r][a].fcy # 0
        PROVE  a \notin OtherCurrency /\ read[r][a].fcy * Rate[d] = Parts * read[r][a].krw
    <3>1. a \in Open(read[r])
      BY <2>5 DEF Open
    <3>2. Delta(read[r], d)[a] = 0
      BY <2>3, <3>1 DEF Moved, Delta
    <3>. QED  BY <2>4, <3>1, <3>2, NoDelta
  <2>6. IsNewest(d, r)'
    BY <2>1, <2>4 DEF IsNewest
  <2>. QED  BY <1>2, <2>1, <2>4, <2>5, <2>6 DEF Quiet
<1>. QED
  BY <1>3, <1>4, <1>5, <1>6, <1>7, <1>8 DEF Rates, Revalue

\* What is over, and what was answered, stays.
LEMMA AnswersKept ==
  ASSUME NEW q \in Requests, Kept(q), published \subseteq published'
  PROVE  Answered(q) => Answered(q)'
<1>1. \A d : IsNewest(d, q)' <=> IsNewest(d, q)
  BY DEF IsNewest, Kept
<1>2. Newest(q) => Newest(q)'
  BY <1>1 DEF Newest, Kept
<1>3. Caused(q) => Caused(q)'
  BY DEF Caused, Kept
<1>4. Single(q) => Single(q)'
  BY DEF Single, Kept
<1>5. Quiet(q) => Quiet(q)'
  BY <1>1 DEF Quiet, Kept
<1>. QED  BY <1>2, <1>3, <1>4, <1>5 DEF Answered

LEMMA AnswerInv ==
  Spec => [](TypeOK /\ IInv /\ ObservationsAreEcos /\ \A q \in Requests : Answered(q))
<1>. DEFINE Answers == \A q \in Requests : Answered(q)
<1>1. Init => Answers
  BY DEF Init, Answered, Newest, Caused, Single, Quiet
<1>2. TypeOK /\ IInv /\ ObservationsAreEcos /\ Answers /\ [Next]_vars => Answers'
  <2>. SUFFICES ASSUME TypeOK, IInv, ObservationsAreEcos, Answers, [Next]_vars
                PROVE  Answers'
    OBVIOUS
  <2>1. CASE \E r \in Requests : Arrive(r) \/ Rates(r) \/ Revalue(r) \/ Fail(r)
    <3>1. PICK r \in Requests : Arrive(r) \/ Rates(r) \/ Revalue(r) \/ Fail(r)
      BY <2>1
    <3>2. published' = published /\ \A q \in Requests \ {r} : Kept(q)
      BY <3>1, OthersKept
    <3>. QED  BY <3>1, <3>2, NewestNext, CausedNext, QuietNext, AnswersKept DEF Answered
  <2>2. CASE Publish \/ NextDay \/ (\E a \in Accounts : Book(a)) \/ UNCHANGED vars
    <3>1. UNCHANGED callVars /\ published \subseteq published'
      BY <2>2 DEF Publish, NextDay, Book, vars, rateVars
    <3>2. \A q \in Requests : Kept(q)
      BY <3>1 DEF Kept, callVars
    <3>. QED  BY <3>1, <3>2, AnswersKept
  <2>. QED  BY <2>1, <2>2 DEF Next
<1>. HIDE DEF Answers
<1>3. Spec => []Answers
  BY <1>1, <1>2, TypeCorrect, CacheIsEcos, PTL DEF Spec
<1>. QED  BY <1>3, TypeCorrect, CacheIsEcos, PTL DEF Answers

\* The rate answered for a day is the newest at or before it that was published when the
\* request came, at most Back days old, however requests and publications interleave.
THEOREM NewestAnswered == Spec => []AnswersTheNewest
<1>1. (\A q \in Requests : Answered(q)) => AnswersTheNewest
  BY DEF Answered, Newest, AnswersTheNewest
<1>. QED  BY <1>1, AnswerInv, PTL

\* A revaluation is refused only for want of a rate, for another currency, or because there
\* is a difference to post.
THEOREM RefusalsHaveCause == Spec => []RefusedForCause
<1>1. (\A q \in Requests : Answered(q)) => RefusedForCause
  BY DEF Answered, Caused, RefusedForCause
<1>. QED  BY <1>1, AnswerInv, PTL

\* A revaluation succeeds only where all that was open is booked at its value at the newest
\* rate, whatever is booked, published or collected while it runs.
THEOREM SuccessIsQuiet == Spec => []NothingToPost
<1>1. (\A q \in Requests : Answered(q)) => NothingToPost
  BY DEF Answered, Quiet, NothingToPost
<1>. QED  BY <1>1, AnswerInv, PTL
---------------------------------------------------------------------------
(* The collector.                                                          *)

Past == sweep.last # None => sweep.last <= today

\* A success of the collector joins the days it has covered: the new window begins at or
\* before the end of the last one, and the rates published in it are all there.
LEMMA HoleNext ==
  ASSUME TypeOK, IInv, Past, NoHole, NEW r \in Requests, UpsertMany(r), input[r].op = "collect"
  PROVE  NoHole'
<1>. DEFINE from == input[r].from
            to   == input[r].to
<1>1. /\ from \in Nat /\ to \in Nat /\ Window \in Nat /\ published \subseteq Days /\ Days \subseteq Nat
      /\ None \notin Nat /\ sweep.first \in Days \cup {None} /\ sweep.last \in Days \cup {None}
      /\ sweep.steady \in BOOLEAN
  <2>1. Days \subseteq Nat /\ Window \in Nat
    BY RatesAssumption DEF Days
  <2>2. /\ published \subseteq Days /\ sweep.steady \in BOOLEAN
        /\ sweep.first \in Days \cup {None} /\ sweep.last \in Days \cup {None}
    BY DEF TypeOK
  <2>. QED  BY <2>1, <2>2, InputDays, BooksAssumption
<1>2. from = IF to < Window THEN 0 ELSE to - Window
  BY DEF IInv, Calls, Ordered, UpsertMany
<1>3. \A d \in published : from <= d /\ d < to => d \in got[r]
  BY DEF IInv, Calls, Fetched, UpsertMany
<1>4. /\ published' = published
      /\ \A d \in Days : obs'[d] = IF d \in got[r] THEN Rate[d] ELSE obs[d]
      /\ \A d \in Days : Rate[d] # None
  BY <1>1, RatesAssumption DEF UpsertMany, Stored
<1>5. \A d \in published : obs[d] # None \/ (from <= d /\ d < to) => obs'[d] # None
  BY <1>1, <1>3, <1>4
<1>6. sweep' = Swept(r)
  BY DEF UpsertMany
<1>7. CASE sweep.last = None
  <2>1. sweep'.first = from /\ sweep'.last = to
    BY <1>6, <1>7 DEF Swept
  <2>. QED  BY <1>4, <1>5, <2>1 DEF NoHole
<1>8. CASE sweep.last # None
  <2>1. /\ sweep'.first = sweep.first
        /\ sweep'.last = IF to > sweep.last THEN to ELSE sweep.last
        /\ sweep'.steady = (sweep.steady /\ to - sweep.last <= Window)
    BY <1>6, <1>8 DEF Swept
  <2>. SUFFICES ASSUME sweep.steady, to - sweep.last <= Window,
                       NEW d \in published, sweep.first <= d, d < sweep'.last
                PROVE  obs'[d] # None
    BY <1>4, <2>1 DEF NoHole
  <2>2. CASE d < sweep.last
    BY <1>5, <1>8, <2>2 DEF NoHole
  <2>3. CASE ~(d < sweep.last)
    <3>1. d \in Nat /\ sweep.last \in Nat
      BY <1>1, <1>8
    <3>2. from <= d /\ d < to
      BY <1>1, <1>2, <2>1, <2>3, <3>1
    <3>. QED  BY <1>5, <3>2
  <2>. QED  BY <2>2, <2>3
<1>. QED  BY <1>7, <1>8

\* A collector that is never more than Window days without success leaves no published day
\* of its time out of the cache.
THEOREM NoHoleLeft == Spec => []NoHole
<1>. USE DEF Goto, Reply, rateVars, bookVars, callVars
<1>1. Init => Past /\ NoHole
  BY DEF Init, NoSweep, Past, NoHole
<1>2. TypeOK /\ IInv /\ Past /\ NoHole /\ [Next]_vars => (Past /\ NoHole)'
  <2>. SUFFICES ASSUME TypeOK, IInv, Past, NoHole, [Next]_vars PROVE (Past /\ NoHole)'
    OBVIOUS
  <2>1. CASE \E r \in Requests : UpsertMany(r)
    <3>1. PICK r \in Requests : UpsertMany(r)
      BY <2>1
    <3>2. /\ input[r].to <= today /\ today' = today /\ published' = published
          /\ sweep' = Swept(r) /\ obs' = Stored(r)
      BY <3>1 DEF UpsertMany, IInv, Calls, Ordered
    <3>3. Past'
      BY <3>2 DEF Past, Swept
    <3>4. CASE input[r].op # "collect"
      <4>1. sweep' = sweep
        BY <3>2, <3>4 DEF Swept
      <4>2. \A d \in Days : obs[d] # None => obs'[d] # None
        BY <3>2, RatesAssumption, BooksAssumption DEF Stored
      <4>3. published \subseteq Days
        BY DEF TypeOK
      <4>. QED  BY <3>2, <3>3, <4>1, <4>2, <4>3 DEF NoHole
    <3>. QED  BY <3>1, <3>3, <3>4, HoleNext
  <2>2. CASE \E r \in Requests : Arrive(r) \/ LookUp(r) \/ Walk(r) \/ ListRange(r)
                                   \/ FetchRange(r) \/ Revalue(r) \/ Fail(r)
    <3>1. UNCHANGED <<today, published, obs, sweep>>
      BY <2>2 DEF Arrive, LookUp, Walk, ListRange, FetchRange, Revalue, ReadOpenBalances,
        Post, Fail
    <3>. QED  BY <3>1 DEF Past, NoHole
  <2>3. CASE Publish \/ NextDay
    <3>1. /\ today \in Nat /\ today' \in {today, today + 1}
          /\ published' = published \/ published' = published \cup {today}
          /\ UNCHANGED <<obs, sweep>> /\ (sweep.last # None => sweep.last \in Nat)
      BY <2>3, RatesAssumption DEF Publish, NextDay, TypeOK, Days
    <3>2. Past'
      BY <3>1 DEF Past
    <3>3. NoHole'
      BY <3>1 DEF Past, NoHole
    <3>. QED  BY <3>2, <3>3
  <2>4. CASE (\E a \in Accounts : Book(a)) \/ UNCHANGED vars
    BY <2>4 DEF Book, vars, Past, NoHole
  <2>. QED  BY <2>1, <2>2, <2>3, <2>4 DEF Next, Rates
<1>. QED  BY <1>1, <1>2, TypeCorrect, PTL DEF Spec
=============================================================================
