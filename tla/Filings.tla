------------------------------- MODULE Filings -------------------------------
(***************************************************************************)
(* The tax-filing calendar of one tenant (apps/tax): once a month, and     *)
(* once when the tenant is created, the FilingObligationGenerator inserts  *)
(* the filings the tenant's profile calls for; the holiday sync feeds      *)
(* holiday_cache; the profile may be edited, and a draft recomputed, at    *)
(* any time.                                                               *)
(*                                                                         *)
(* A month is 12 * year + (month - 1), so that addMonths is addition, and  *)
(* a day is a day number of the proleptic Gregorian calendar.  Every       *)
(* period runs from the first day of a month to the last day of a month    *)
(* and is kept as these two months.                                        *)
(***************************************************************************)
EXTENDS Integers, Sequences

CONSTANTS
  Profiles,     \* tenant profiles that occur
  Holidays,     \* days KASI announces as holidays, sooner or later
  Generators,   \* invocations of the generator that may overlap
  StartMonths,  \* when the tenant is created
  Horizon,      \* bound: months the clock runs on
  DraftKinds,   \* bound: kinds of filings whose draft is recomputed
  None

Businesses == {"corporate", "sole_proprietor", "personal"}
Profile == [business : Businesses,
            tax      : {"general", "simplified", "tax_exempt"},
            cadence  : {"MONTHLY", "SEMIANNUAL"},
            prepay   : BOOLEAN,
            fiscal   : 1 .. 12]       \* fiscal_year_start_month

VatKinds == {"VAT_PRELIM", "VAT_FINAL", "VAT_PREPAYMENT_NOTICE"}
WhKinds  == {"WH_MONTHLY", "WH_SEMIANNUAL"}
Kinds    == VatKinds \cup WhKinds \cup {"CORP_FINAL", "COMPREHENSIVE_INCOME"}
---------------------------------------------------------------------------
(* The calendar.                                                           *)

Month(y, m) == 12 * y + (m - 1)
Year(i)     == i \div 12
Leap(y)     == y % 4 = 0 /\ (y % 100 # 0 \/ y % 400 = 0)

\* The day number of the first of month i, counted from 0000-01-01.
FirstDay(i) ==
  LET y == Year(i)  m == (i % 12) + 1 IN
    365 * y + (y + 3) \div 4 - (y + 99) \div 100 + (y + 399) \div 400
    + <<0, 31, 59, 90, 120, 151, 181, 212, 243, 273, 304, 334>>[m]
    + (IF m > 2 /\ Leap(y) THEN 1 ELSE 0)
LastDay(i) == FirstDay(i + 1) - 1
Day(i, d)  == FirstDay(i) + d - 1

\* The month a day lies in.
MonthOf(n) == CHOOSE i \in (12 * (n \div 366)) .. (12 * (n \div 365) + 11) :
                FirstDay(i) <= n /\ n <= LastDay(i)

\* 0000-01-01 was a Saturday.
Weekend(n) == n % 7 \in {0, 1}

MaxRollDays == 30
BusinessDay(n, cal) == ~Weekend(n) /\ n \notin cal

\* rollForwardToBusinessDay: the first business day, at most 29 days later.
RollForward(n, cal) ==
  CHOOSE d \in n .. n + MaxRollDays - 1 :
    BusinessDay(d, cal) /\ \A e \in n .. d - 1 : ~BusinessDay(e, cal)

ASSUME ProfilesAssumption == Profiles \subseteq Profile /\ None \notin Profiles
ASSUME NoneAssumption == None \notin [from : Nat, profile : Profiles \cup {None}, cal : SUBSET Holidays]
ASSUME ClockAssumption ==   \* the generator looks two years back
  /\ \A m \in StartMonths : m \in Nat /\ m >= 24
  /\ Horizon \in Nat
\* No holidays in a row are so long that the roll-forward would give up.
ASSUME HolidaysAssumption ==
  /\ Holidays \subseteq Nat
  /\ \A h \in Holidays : \E d \in h .. h + 20 : BusinessDay(d, Holidays)
---------------------------------------------------------------------------
(* What a generator computes from its month, the profile and the holidays. *)

Filing(kind, start, end, due, cal) ==
  [kind |-> kind, start |-> start, end |-> end, statutory |-> due,
   business |-> RollForward(due, cal), status |-> "pending"]

HorizonMonths == 12

\* Deviation: filings of the calendar year only.
SameYear(from, i) == Year(i) = Year(from)
\* Due from the month of the run on, within HORIZON_MONTHS.
WithinHorizon(from, i) == i \in from .. from + HorizonMonths - 1

\* The four quarters of this year and of the next one.
VatFilings(from, p, cal) ==
  {f \in {Filing(IF s % 6 # 0 THEN "VAT_FINAL"
                 ELSE IF p.prepay THEN "VAT_PREPAYMENT_NOTICE" ELSE "VAT_PRELIM",
                 s, s + 2, Day(s + 3, 25), cal)
            : s \in {Month(Year(from), 1) + 3 * q : q \in 0 .. 7}}
     : p.tax # "tax_exempt" /\ WithinHorizon(from, MonthOf(f.business))}

WithholdingFilings(from, p, cal) ==
  LET months == from .. from + HorizonMonths - 1 IN
    IF p.cadence = "MONTHLY"
    THEN {Filing("WH_MONTHLY", i, i, Day(i + 1, 10), cal) : i \in months}
    ELSE {Filing("WH_SEMIANNUAL", i - 5, i, Day(i + 1, 10), cal)
            : i \in {j \in months : j % 6 = 5}}

IncomeFilings(from, cal) ==
  {Filing("COMPREHENSIVE_INCOME", Month(y, 1), Month(y, 12), Day(Month(y + 1, 5), 31), cal)
     : y \in Year(from) - 1 .. Year(from) + 1}

\* The month before e; in January the month becomes 12 and the year stays.
FiscalYearEnd(e) == IF e % 12 = 0 THEN e + 11 ELSE e - 1

\* Deviation: a due date two months after the year end.
EarlyCorpFilings(from, p, cal) ==
  {Filing("CORP_FINAL", s, FiscalYearEnd(s + 12), LastDay(s + 13), cal)
     : s \in {Month(Year(from) - 1 + k, p.fiscal) : k \in 0 .. 1}}
CorpFilings(from, p, cal) ==
  {Filing("CORP_FINAL", s, FiscalYearEnd(s + 12), LastDay(s + 14), cal)
     : s \in {Month(Year(from) - 1 + k, p.fiscal) : k \in 0 .. 1}}

FilingsFor(from, p, cal) ==
  IF p.business = "personal" THEN IncomeFilings(from, cal)
  ELSE VatFilings(from, p, cal) \cup WithholdingFilings(from, p, cal)
         \cup (IF p.business = "corporate" THEN CorpFilings(from, p, cal) ELSE {})
---------------------------------------------------------------------------
VARIABLES
  now,       \* the present month
  profile,   \* the tenant's row
  cache,     \* days that holiday_cache marks as holidays
  filings,   \* filing_obligation
  job,       \* each generator's month, loaded holidays and tenant row
  runs       \* history: month and profile of the runs that were committed

vars == <<now, profile, cache, filings, job, runs>>

Init ==
  /\ now \in StartMonths
  /\ profile \in Profiles
  /\ cache \in SUBSET Holidays
  /\ filings = {} /\ runs = {}
  /\ job = [g \in Generators |-> None]

NextMonth ==
  /\ \E m \in StartMonths : m <= now /\ now < m + Horizon   \* bound
  /\ now' = now + 1
  /\ UNCHANGED <<profile, cache, filings, job, runs>>

\* The cron rule, the creation of the tenant, or a manual invocation starts a run;
\* it loads the holidays of last year, this year and next year.
LoadHolidays(g) ==
  /\ job[g] = None
  /\ job' = [job EXCEPT ![g] =
       [from |-> now, profile |-> None,
        cal |-> {h \in cache : Year(MonthOf(h)) \in Year(now) - 1 .. Year(now) + 1}]]
  /\ UNCHANGED <<now, profile, cache, filings, runs>>

\* listAllTenants.
ReadTenant(g) ==
  /\ job[g] # None /\ job[g].profile = None
  /\ job' = [job EXCEPT ![g].profile = profile]
  /\ UNCHANGED <<now, profile, cache, filings, runs>>

SamePeriod(f, h) == f.kind = h.kind /\ f.start = h.start /\ f.end = h.end

\* Deviation: ON CONFLICT DO UPDATE with the new row.
Replacing(F) == {f \in filings : \A h \in F : ~SamePeriod(f, h)} \cup F
\* INSERT ... ON CONFLICT DO NOTHING.
Inserting(F) == filings \cup {h \in F : \A f \in filings : ~SamePeriod(f, h)}

\* insertObligations, in one transaction.
InsertFilings(g) ==
  LET j == job[g] IN
  /\ j # None /\ j.profile # None
  /\ filings' = Inserting(FilingsFor(j.from, j.profile, j.cal))
  /\ runs' = runs \cup {[from |-> j.from, profile |-> j.profile]}
  /\ job' = [job EXCEPT ![g] = None]
  /\ UNCHANGED <<now, profile, cache>>

\* A query fails, an earlier tenant of the loop throws, or the Lambda times out.
Abort(g) ==
  /\ job[g] # None
  /\ job' = [job EXCEPT ![g] = None]
  /\ UNCHANGED <<now, profile, cache, filings, runs>>

\* The holiday sync upserts what KASI says of this year and the next, each day as a
\* holiday or not; it may stop after either year.
SyncHolidays ==
  /\ \E said \in SUBSET {h \in Holidays : Year(MonthOf(h)) \in Year(now) .. Year(now) + 1} :
       \E no \in SUBSET said : cache' = (cache \ no) \cup (said \ no)
  /\ UNCHANGED <<now, profile, filings, job, runs>>

\* POST corporation-profile: the kind of business and its tax type are not among
\* the fields it sets.
UpdateProfile ==
  /\ profile' \in {p \in Profiles : p.business = profile.business /\ p.tax = profile.tax}
  /\ UNCHANGED <<now, cache, filings, job, runs>>

\* POST recompute: a draft of a filing, whatever its status.
Recompute(f) ==
  /\ f.kind \in DraftKinds   \* bound
  /\ filings' = (filings \ {f}) \cup {[f EXCEPT !.status = "drafted"]}
  /\ UNCHANGED <<now, profile, cache, job, runs>>

GeneratorStep(g) == LoadHolidays(g) \/ ReadTenant(g) \/ InsertFilings(g) \/ Abort(g)

Next ==
  \/ NextMonth \/ SyncHolidays \/ UpdateProfile
  \/ \E g \in Generators : GeneratorStep(g)
  \/ \E f \in filings : Recompute(f)

Spec == Init /\ [][Next]_vars
---------------------------------------------------------------------------
(* Properties.                                                             *)

FilingRecord ==
  [kind : Kinds, start : Nat, end : Nat, statutory : Nat, business : Nat,
   status : {"pending", "drafted"}]
Job == [from : Nat, profile : Profiles \cup {None}, cal : SUBSET Holidays]

\* Every variable has its type, and the table its unique key.
TypeOK ==
  /\ now \in Nat
  /\ profile \in Profiles
  /\ cache \subseteq Holidays
  /\ filings \subseteq FilingRecord
  /\ job \in [Generators -> Job \cup {None}]
  /\ runs \subseteq [from : Nat, profile : Profiles]
  /\ \A f, h \in filings : SamePeriod(f, h) => f = h

\* What the statutes say of a filing: its period, and its due date from the month
\* the period ends in.
Statutory(f) ==
  \/ f.kind \in VatKinds /\ f.start % 3 = 0 /\ f.end = f.start + 2 /\ f.statutory = Day(f.end + 1, 25)
  \/ f.kind = "WH_MONTHLY" /\ f.end = f.start /\ f.statutory = Day(f.end + 1, 10)
  \/ f.kind = "WH_SEMIANNUAL" /\ f.start % 6 = 0 /\ f.end = f.start + 5 /\ f.statutory = Day(f.end + 1, 10)
  \/ f.kind = "CORP_FINAL" /\ f.end = f.start + 11 /\ f.statutory = LastDay(f.end + 3)
  \/ /\ f.kind = "COMPREHENSIVE_INCOME" /\ f.start % 12 = 0 /\ f.end = f.start + 11
     /\ f.statutory = Day(f.end + 5, 31)

\* A corporation whose fiscal year starts in January, the default of the schema, gets a
\* filing for two years, due when it should be, three months after the first of them.
LongYear(f) ==
  /\ f.kind = "CORP_FINAL" /\ f.start % 12 = 0
  /\ f.end = f.start + 23 /\ f.statutory = LastDay(f.start + 14)

\* Every filing in the table covers the statutory period and is due when the statute
\* says, corporate tax three months after the fiscal year ends, but for the two years of
\* a corporation's fiscal year from January.
OnlyStatutoryFilings == \A f \in filings : Statutory(f) \/ LongYear(f)

\* The same of every filing, which the fiscal year from January violates; no run checks it.
AllStatutory == \A f \in filings : Statutory(f)

\* Some filing of the kinds K covers the months s .. e.
Covered(K, s, e) == \E f \in filings : f.kind \in K /\ f.start <= s /\ e <= f.end

\* Some corporate filing starts with month s and reaches month e.
FiledFrom(s, e) == \E f \in filings : f.kind = "CORP_FINAL" /\ f.start = s /\ e <= f.end

\* A fiscal year from December is due in February, and January's run looks back to the
\* fiscal years that began last year only.
Overlooked(r, i) == r.from % 12 = 0 /\ i = r.from + 1

\* After a run, and whatever runs are lost and profiles are edited later, nothing is
\* missing that falls due in the eleven months after the month of the run, but for
\* the corporate filing above.
NoGap ==
  \A r \in runs :
    LET p == r.profile
        due == r.from + 1 .. r.from + HorizonMonths - 1
    IN /\ p.business = "personal" =>
            \A i \in due : i % 12 = 4 => Covered({"COMPREHENSIVE_INCOME"}, i - 16, i - 5)
       /\ p.business # "personal" =>
            /\ p.cadence = "MONTHLY" => \A i \in due : Covered(WhKinds, i - 1, i - 1)
            /\ p.cadence = "SEMIANNUAL" => \A i \in due : i % 6 = 0 => Covered(WhKinds, i - 6, i - 1)
            /\ p.tax # "tax_exempt" => \A i \in due : i % 3 = 0 => Covered(VatKinds, i - 3, i - 1)
       /\ p.business = "corporate" =>
            \A i \in due : (i - 2) % 12 = (p.fiscal - 1) /\ ~Overlooked(r, i)
                           => FiledFrom(i - 14, i - 3)

\* A run changes no filing that is already in the table: neither its draft nor its dates.
RerunsAreHarmless ==
  [][\A f \in filings : \E h \in filings' :
       h = f \/ h = [f EXCEPT !.status = "drafted"]]_vars
=============================================================================
