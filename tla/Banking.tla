-------------------------------- MODULE Banking --------------------------------
(***************************************************************************)
(* What is fetched from a tenant's accounts, and for which days.  A job     *)
(* (the scheduled codef-fetch, or a run of fs-sync) asks CODEF for the      *)
(* transactions of every active account in a window of days that starts     *)
(* DEFAULT_LOOKBACK_DAYS before the newest row of the tenant, whichever     *)
(* account that row is of.  Accounts come and go as in BankAccounts.        *)
(*                                                                         *)
(* Days are numbered from 0; those before are the past.                     *)
(***************************************************************************)
EXTENDS BankAccounts

CONSTANTS
  Jobs,
  Lookback, Initial,  \* DEFAULT_LOOKBACK_DAYS, INITIAL_LOOKBACK_DAYS
  MaxDay              \* bound: the last day

ASSUME WindowAssumption ==
  /\ Lookback \in Nat /\ Initial \in Nat /\ MaxDay \in Nat
  /\ Lookback <= Initial

VARIABLES
  today,
  latest,   \* the day of MAX(fetched_at) over the rows of source codef_bank, if any
  job,      \* a job's stage, its window and the accounts it has left, with their ids
  covered,  \* for an account, the days all of whose transactions are stored
  track     \* history: an account's first and newest day fetched in default windows,
            \* and whether it never went without for more than Lookback days

fetchVars == <<today, latest, job, covered, track>>
vars == <<accountVars, fetchVars>>

Days   == 0 .. MaxDay
Past   == (0 - Initial - Lookback) .. MaxDay
Never  == MaxDay + Lookback + 1
Idle   == [stage |-> "idle", from |-> 0, to |-> 0, explicit |-> FALSE, left |-> {}]
Untracked == [first |-> Never, last |-> Never, steady |-> TRUE]
---------------------------------------------------------------------------
Init ==
  /\ AccountsInit
  /\ today = 0
  /\ latest = Never
  /\ job = [j \in Jobs |-> Idle]
  /\ covered = [k \in BankKeys |-> {}]
  /\ track = [k \in BankKeys |-> Untracked]

\* Deviation: the window starts on the day of the newest row.
FromNewest == IF latest = Never THEN today - Initial ELSE latest

DefaultFrom == IF latest = Never THEN today - Initial ELSE latest - Lookback

\* The active accounts that are not entered by hand; the request may bring a date range, in
\* whole days up to today.
LoadAccounts(j) ==
  /\ job[j].stage = "idle"
  /\ \E e \in BOOLEAN, a, b \in 0 .. today :
       /\ a <= b /\ (~e => a = b /\ a = today)
       /\ job' = [job EXCEPT ![j] =
            [stage |-> "range", explicit |-> e, from |-> a, to |-> b,
             left |-> {<<k, rows[k].id>> : k \in {q \in BankKeys : Exists(q) /\ rows[q].active}}]]
  /\ UNCHANGED <<accountVars, today, latest, covered, track>>

\* A date range in the request overrides the window.
ResolveDateRange(j) ==
  /\ job[j].stage = "range"
  /\ job' = [job EXCEPT ![j].stage = "fetch",
                        ![j].from = IF job[j].explicit THEN @ ELSE DefaultFrom,
                        ![j].to   = IF job[j].explicit THEN @ ELSE today]
  /\ UNCHANGED <<accountVars, today, latest, covered, track>>

Asked(j, k) == job[j].from .. job[j].to
\* A day that is not over is stored in part.
Over(days) == {d \in days : d < today}

\* Upserted rows keep their fetched_at; a day with new rows moves the newest.  Rows of a
\* foreign account are of source codef_fx.
NewRows(k) == rows[k].kind = "krw_demand"

Tracked(j, k) ==
  LET t == track[k] IN
  IF job[j].explicit THEN t
  ELSE IF t.last = Never THEN [first |-> job[j].from, last |-> job[j].to, steady |-> TRUE]
  ELSE [first |-> t.first,
        last |-> IF job[j].to > t.last THEN job[j].to ELSE t.last,
        steady |-> t.steady /\ job[j].to - t.last <= Lookback]

\* CODEF answers with the transactions of the window, of which some may be new.
Fetched(j, k, id) ==
  /\ Accepts(id)
  /\ covered' = [covered EXCEPT ![k] = @ \cup Over(Asked(j, k))]
  /\ track' = [track EXCEPT ![k] = Tracked(j, k)]
  /\ \/ UNCHANGED latest
     \/ NewRows(k) /\ latest' = today

\* CODEF answers with an error, or not at all: the account is reported and passed over.
PassedOver == UNCHANGED <<latest, covered, track>>

FetchAccount(j) ==
  /\ job[j].stage = "fetch"
  /\ \E a \in job[j].left :
       /\ job' = [job EXCEPT ![j].left = @ \ {a}]
       /\ Fetched(j, a[1], a[2]) \/ PassedOver
  /\ UNCHANGED <<accountVars, today>>

\* It is through, or it is killed.
EndJob(j) ==
  /\ job[j].stage # "idle"
  /\ job' = [job EXCEPT ![j] = Idle]
  /\ UNCHANGED <<accountVars, today, latest, covered, track>>

NextDay ==
  /\ today < MaxDay
  /\ today' = today + 1
  /\ UNCHANGED <<accountVars, latest, job, covered, track>>

Next ==
  \/ AccountsNext /\ UNCHANGED fetchVars
  \/ \E j \in Jobs : LoadAccounts(j) \/ ResolveDateRange(j) \/ FetchAccount(j) \/ EndJob(j)
  \/ NextDay

Spec == Init /\ [][Next]_vars
---------------------------------------------------------------------------
(* Properties.                                                             *)

\* Every variable has its type.
TypeOK ==
  /\ AccountsTypeOK
  /\ today \in Days
  /\ latest \in Days \cup {Never}
  /\ job \in [Jobs -> [stage : {"idle", "range", "fetch"}, from : Past, to : Days,
                       explicit : BOOLEAN, left : SUBSET (BankKeys \X ConnectedIds)]]
  /\ covered \in [BankKeys -> SUBSET Past]
  /\ track \in [BankKeys -> [first : Past \cup {Never}, last : Days \cup {Never},
                              steady : BOOLEAN]]

\* The tenant's one window serves each of its accounts: of an account that never goes
\* without an answer for more than the lookback, every transaction since its first fetch
\* is stored up to its last, whichever other accounts failed, were added or were fetched
\* for other dates in between, and with other jobs at the same time.
NoDayIsMissed ==
  \A k \in BankKeys :
    track[k].last # Never /\ track[k].steady =>
      track[k].first .. (track[k].last - 1) \subseteq covered[k]
=============================================================================
