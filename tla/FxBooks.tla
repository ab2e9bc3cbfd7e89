-------------------------------- MODULE FxBooks --------------------------------
(***************************************************************************)
(* Closing rates and the month-end revaluation (apps/fx, packages/fx-core). *)
(* The Bank of Korea (ECOS) publishes a day's rate in the course of the     *)
(* day, and none on a holiday.  fx_observations caches what was fetched: by *)
(* the scheduled collector over a window of days, by GET /fx/rates with a   *)
(* walk back over the days before.  POST /fx/revalue compares the foreign   *)
(* balances of the ledger with their closing value and means to post the    *)
(* difference: its INSERT names no posting_date, which journal_entries      *)
(* requires, so that it can succeed only where there is none.               *)
(*                                                                         *)
(* One quoted currency, USD, has rates.  Amounts: KRW in cents, a rate in   *)
(* parts of a cent per unit of currency.  No code of this repository posts  *)
(* a line with a foreign amount: such lines come from outside (Book).       *)
(***************************************************************************)
EXTENDS Integers, FiniteSets

CONSTANTS
  Requests,
  Rate,        \* the rate of a day, should one be published
  Parts,       \* parts of a cent
  Accounts,    \* account codes of balances in USD, and of balances in another currency
  OtherCurrency,
  Bookings,    \* what may be booked: a foreign amount and its KRW at that day's rate
  Back,        \* MAX_WALKBACK_DAYS
  Window,      \* WALKBACK_DAYS of the collector
  MaxDay,      \* bounds: the last day, the bookings
  MaxBookings,
  None

Days   == 0 .. MaxDay
Orders == [op : {"rate", "revalue"}, from : Days, to : Days]
          \cup [op : {"range", "collect"}, from : Days, to : Days]

ASSUME RatesAssumption ==
  /\ MaxDay \in Nat /\ Back \in Nat /\ Window \in Nat /\ MaxBookings \in Nat
  /\ Parts \in Nat \ {0} /\ Rate \in [Days -> Nat \ {0}]
ASSUME BooksAssumption ==
  /\ Bookings \subseteq [fcy : Int, krw : Int]
  /\ OtherCurrency \subseteq Accounts /\ None \notin Nat

VARIABLES
  today, published,
  obs,      \* fx_observations: a day to the rate stored for it
  sweep,    \* history: the collector's first and last success, and whether it was
            \* never more than Window days without one
  balance,  \* of the ledger: foreign amount and KRW of an account
  bookings, \* how many bookings there were
  pc, input,
  cursor,   \* the day a walk is at
  got,      \* days whose rates ECOS answered with
  read,     \* the balances a revaluation has read
  known,    \* history: the days published when a request arrived
  answer    \* status, and the days whose rates it gives or rests on

rateVars == <<today, published, obs, sweep>>
bookVars == <<balance, bookings>>
callVars == <<pc, input, cursor, got, read, known, answer>>
vars == <<rateVars, bookVars, callVars>>

NoAnswer == [code |-> 0, days |-> {}]
NoSweep  == [first |-> None, last |-> None, steady |-> TRUE]
NoOrder  == [op |-> "none", from |-> 0, to |-> 0]
Zero     == [fcy |-> 0, krw |-> 0]
---------------------------------------------------------------------------
Init ==
  /\ today = 0 /\ published = {}
  /\ obs = [d \in Days |-> None]
  /\ sweep = NoSweep
  /\ balance = [a \in Accounts |-> Zero]
  /\ bookings = 0
  /\ pc = [r \in Requests |-> "idle"]
  /\ input = [r \in Requests |-> NoOrder]
  /\ cursor = [r \in Requests |-> 0]
  /\ got = [r \in Requests |-> {}]
  /\ read = [r \in Requests |-> balance]
  /\ known = [r \in Requests |-> {}]
  /\ answer = [r \in Requests |-> NoAnswer]

Goto(r, l) == pc' = [pc EXCEPT ![r] = l]
Reply(r, c, days) ==
  /\ Goto(r, "done")
  /\ answer' = [answer EXCEPT ![r] = [code |-> c, days |-> days]]

\* A request names a day or a range; the collector's window ends today.
Arrive(r) ==
  /\ pc[r] = "idle"
  /\ \E o \in Orders :
       /\ o.op \in {"rate", "revalue"} => o.from = o.to
       /\ o.op = "collect" => o.to = today /\ o.from = IF today < Window THEN 0 ELSE today - Window
       /\ o.from <= o.to /\ o.to <= today
       /\ input' = [input EXCEPT ![r] = o]
       /\ cursor' = [cursor EXCEPT ![r] = o.to]
       /\ Goto(r, o.op)
  /\ known' = [known EXCEPT ![r] = published]
  /\ UNCHANGED <<rateVars, bookVars, got, read, answer>>
---------------------------------------------------------------------------
(* Rates.                                                                  *)

\* Deviation: only the last day of a range.
LastOnly(r) == {input[r].to}
Asked(r)  == input[r].from .. input[r].to
Cached(r) == {d \in Asked(r) : obs[d] # None}

\* Deviation: the newest observation at or before the day will do.
LookUpOlder(r) ==
  LET older == {d \in 0 .. input[r].to : obs[d] # None} IN
  /\ pc[r] = "rate"
  /\ IF older # {} THEN Reply(r, 200, {CHOOSE d \in older : \A e \in older : e <= d})
     ELSE Goto(r, "walk") /\ UNCHANGED answer
  /\ UNCHANGED <<rateVars, bookVars, input, cursor, got, read, known>>

\* The cache answers for the very day; an older observation does not.
LookUp(r) ==
  /\ pc[r] = "rate"
  /\ IF obs[input[r].to] # None THEN Reply(r, 200, {input[r].to})
     ELSE Goto(r, "walk") /\ UNCHANGED answer
  /\ UNCHANGED <<rateVars, bookVars, input, cursor, got, read, known>>

\* Deviation: a day less.
StopsEarly(r) == input[r].to - cursor[r] < Back - 1
GoesBack(r) == input[r].to - cursor[r] < Back

\* One call of ECOS for one day; with no rate the day before is asked for, at most
\* MAX_WALKBACK_DAYS times.
Walk(r) ==
  /\ pc[r] = "walk"
  /\ IF cursor[r] \in published
     THEN /\ got' = [got EXCEPT ![r] = {cursor[r]}]
          /\ Goto(r, IF input[r].op = "rate" THEN "save" ELSE "post")
          /\ UNCHANGED <<cursor, answer>>
     ELSE /\ IF GoesBack(r)
             THEN cursor' = [cursor EXCEPT ![r] = @ - 1] /\ UNCHANGED <<pc, answer>>
             ELSE Reply(r, 500, {}) /\ UNCHANGED cursor
          /\ UNCHANGED got
  /\ UNCHANGED <<rateVars, bookVars, input, read, known>>

\* A range is answered from the cache if it has any day of it.
ListRange(r) ==
  /\ pc[r] = "range"
  /\ IF Cached(r) # {} THEN Reply(r, 200, Cached(r)) ELSE Goto(r, "fetch") /\ UNCHANGED answer
  /\ UNCHANGED <<rateVars, bookVars, input, cursor, got, read, known>>

\* One call of ECOS for the range.  None published is an error for a reader.
FetchRange(r) ==
  /\ pc[r] \in {"fetch", "collect"}
  /\ LET days == Asked(r) \cap published IN
     /\ got' = [got EXCEPT ![r] = days]
     /\ IF days = {} /\ pc[r] = "fetch" THEN Reply(r, 500, {})
        ELSE Goto(r, "save") /\ UNCHANGED answer
  /\ UNCHANGED <<rateVars, bookVars, input, cursor, read, known>>

\* Each rate is stored for its effective day, over an earlier one.
Stored(r) == [d \in Days |-> IF d \in got[r] THEN Rate[d] ELSE obs[d]]

Swept(r) ==
  IF input[r].op # "collect" THEN sweep
  ELSE IF sweep.last = None THEN [first |-> input[r].from, last |-> input[r].to, steady |-> TRUE]
  ELSE [first |-> sweep.first,
        last |-> IF input[r].to > sweep.last THEN input[r].to ELSE sweep.last,
        steady |-> sweep.steady /\ input[r].to - sweep.last <= Window]

UpsertMany(r) ==
  /\ pc[r] = "save"
  /\ obs' = Stored(r)
  /\ sweep' = Swept(r)
  /\ Reply(r, 200, got[r])
  /\ UNCHANGED <<today, published, bookVars, input, cursor, got, read, known>>

Rates(r) == LookUp(r) \/ Walk(r) \/ ListRange(r) \/ FetchRange(r) \/ UpsertMany(r)
---------------------------------------------------------------------------
(* Revaluation: one transaction, with the calls of ECOS inside it.         *)

\* The balances other than zero.
Open(b) == {a \in Accounts : b[a].fcy # 0}

\* All lines there are, whatever their date.  A currency without an item code at ECOS is an
\* error.
ReadOpenBalances(r) ==
  /\ pc[r] = "revalue"
  /\ read' = [read EXCEPT ![r] = balance]
  /\ CASE Open(balance) = {}                   -> Reply(r, 200, {})
       [] Open(balance) \cap OtherCurrency # {} -> Reply(r, 500, {})
       [] OTHER                                -> Goto(r, "walk") /\ UNCHANGED answer
  /\ UNCHANGED <<rateVars, bookVars, input, cursor, got, known>>

\* Closing value less booked value, in parts of a cent.
Delta(b, d) == [a \in Open(b) |-> b[a].fcy * Rate[d] - Parts * b[a].krw]

\* Deviation: the lines of a loss are forgotten.
Gained(delta) == {a \in DOMAIN delta : delta[a] > 0}

\* The accounts that get a pair of lines.
Moved(delta) == {a \in DOMAIN delta : delta[a] # 0}

\* Without lines there is no entry, and the answer says so.  With lines the entry comes
\* first, its INSERT lacks the posting_date and is refused: the transaction is rolled back.
Post(r) ==
  /\ pc[r] = "post"
  /\ \E d \in got[r] :
       IF Moved(Delta(read[r], d)) = {} THEN Reply(r, 200, {d}) ELSE Reply(r, 500, {})
  /\ UNCHANGED <<rateVars, bookVars, input, cursor, got, read, known>>

Revalue(r) == ReadOpenBalances(r) \/ Post(r)
---------------------------------------------------------------------------
\* ECOS, the database or the Lambda fails: the transaction is rolled back.
Fail(r) ==
  /\ pc[r] \notin {"idle", "done"}
  /\ Reply(r, 502, {})
  /\ UNCHANGED <<rateVars, bookVars, input, cursor, got, read, known>>

Publish ==
  /\ today \notin published
  /\ published' = published \cup {today}
  /\ UNCHANGED <<today, obs, sweep, bookVars, callVars>>

NextDay ==
  /\ today < MaxDay
  /\ today' = today + 1
  /\ UNCHANGED <<published, obs, sweep, bookVars, callVars>>

Book(a) ==
  /\ bookings < MaxBookings
  /\ bookings' = bookings + 1
  /\ \E b \in Bookings :
       balance' = [balance EXCEPT ![a] = [fcy |-> @.fcy + b.fcy, krw |-> @.krw + b.krw]]
  /\ UNCHANGED <<rateVars, callVars>>

Next ==
  \/ \E r \in Requests : Arrive(r) \/ Rates(r) \/ Revalue(r) \/ Fail(r)
  \/ Publish \/ NextDay
  \/ \E a \in Accounts : Book(a)

Spec == Init /\ [][Next]_vars
---------------------------------------------------------------------------
(* Properties.                                                             *)

Labels == {"idle", "rate", "walk", "range", "fetch", "collect", "save", "revalue", "post", "done"}
Ledger == [Accounts -> [fcy : Int, krw : Int]]

\* Every variable has its type.
TypeOK ==
  /\ today \in Days /\ published \subseteq Days
  /\ obs \in [Days -> Nat \cup {None}]
  /\ sweep \in [first : Days \cup {None}, last : Days \cup {None}, steady : BOOLEAN]
  /\ balance \in Ledger /\ bookings \in 0 .. MaxBookings
  /\ pc \in [Requests -> Labels]
  /\ input \in [Requests -> Orders \cup {NoOrder}]
  /\ cursor \in [Requests -> (0 - Back) .. MaxDay]
  /\ got \in [Requests -> SUBSET Days] /\ known \in [Requests -> SUBSET Days]
  /\ read \in [Requests -> Ledger]
  /\ answer \in [Requests -> [code : {0, 200, 500, 502}, days : SUBSET Days]]

\* The cache holds what ECOS published, each rate for its own day: a walk back for a
\* holiday does not leave Friday's rate as Saturday's, where later reads would find it.
ObservationsAreEcos ==
  \A d \in Days : obs[d] # None => d \in published /\ obs[d] = Rate[d]

\* No day after d, up to the one asked for, was published when the request came.
IsNewest(d, r) ==
  d <= input[r].to /\ input[r].to - d <= Back /\ (d + 1) .. input[r].to \cap known[r] = {}

\* The rate answered for a day, or a revaluation rests on, is the newest at or before it:
\* every later one up to that day was published only after the request had come.
AnswersTheNewest ==
  \A r \in Requests :
    pc[r] = "done" /\ input[r].op \in {"rate", "revalue"} /\ answer[r].days # {} =>
      \A d \in answer[r].days : d \in published /\ IsNewest(d, r)

\* A day whose rate the collector could not fetch is made up for: if it is never more
\* than Window days without success, no published day of its time is missing.
NoHole ==
  sweep.last # None /\ sweep.steady =>
    \A d \in published : sweep.first <= d /\ d < sweep.last => obs[d] # None

\* A revaluation answered 200, which is always one without an entry, has overlooked no
\* difference, gain or loss, however small: all that was open when it read the ledger is
\* in USD and booked at its value at the newest rate, whatever is booked or published
\* while it runs.
NothingToPost ==
  \A r \in Requests :
    pc[r] = "done" /\ input[r].op = "revalue" /\ answer[r].code = 200 =>
      \/ \A a \in Accounts : read[r][a].fcy = 0
      \/ \E d \in published :
           /\ IsNewest(d, r)
           /\ \A a \in Accounts : read[r][a].fcy # 0 =>
                a \notin OtherCurrency /\ read[r][a].fcy * Rate[d] = Parts * read[r][a].krw

\* A revaluation is refused only for a cause: another currency, no rate within Back days of
\* those published when it came, or any difference at all from the closing value.
RefusedForCause ==
  \A r \in Requests :
    pc[r] = "done" /\ input[r].op = "revalue" /\ answer[r].code = 500 =>
      \/ got[r] = {} /\ Open(read[r]) \cap OtherCurrency # {}
      \/ got[r] = {} /\ \A d \in known[r] : d > input[r].to \/ d < input[r].to - Back
      \/ \E d \in got[r] : \E a \in Open(read[r]) : Delta(read[r], d)[a] # 0

\* Once the rates have been found, a revaluation is not refused.  The code does refuse it:
\* no entry of a revaluation can be inserted.
RatesSuffice ==
  \A r \in Requests :
    pc[r] = "done" /\ input[r].op = "revalue" /\ answer[r].code = 500 => got[r] = {}
=============================================================================
