---------------------------- MODULE FilingsProofs ----------------------------
(* Proofs about Filings, for any profiles, holidays and generators.        *)
EXTENDS Filings, WellFoundedInduction, TLAPS

\* The calendar counts days with natural numbers.
LEMMA FirstDayNat == \A i \in Nat : FirstDay(i) \in Nat
<1> SUFFICES ASSUME NEW i \in Nat PROVE FirstDay(i) \in Nat
  OBVIOUS
<1> DEFINE y == Year(i)
           m == (i % 12) + 1
           before == <<0, 31, 59, 90, 120, 151, 181, 212, 243, 273, 304, 334>>
<1>1. y \in Nat /\ m \in 1 .. 12
  BY DEF Year
<1>2. before[m] \in Nat
  BY <1>1
<1> HIDE DEF y, m, before
<1>3. 365 * y + (y + 3) \div 4 - (y + 99) \div 100 + (y + 399) \div 400 \in Nat
  BY <1>1
<1>4. (IF m > 2 /\ Leap(y) THEN 1 ELSE 0) \in Nat
  OBVIOUS
<1> QED
  BY <1>2, <1>3, <1>4 DEF FirstDay, y, m, before

\* So are the last day of a month and any later day.
LEMMA DaysNat ==
  ASSUME NEW i \in Nat
  PROVE  LastDay(i) \in Nat /\ \A d \in Nat \ {0} : Day(i, d) \in Nat
<1>1. FirstDay(i) \in Nat /\ FirstDay(i + 1) \in Nat
  BY FirstDayNat
<1>2. FirstDay(i + 1) > 0
  <2>1. Year(i + 1) > 0 \/ ((i + 1) % 12) + 1 > 1
    BY DEF Year
  <2> QED
    BY <2>1 DEF FirstDay, Year, Leap
<1> QED
  BY <1>1, <1>2 DEF LastDay, Day

\* Within 30 days of any day there is a business day, and rollForwardToBusinessDay
\* finds the first one.
LEMMA RollForwardWorks ==
  ASSUME NEW n \in Nat, NEW c \in SUBSET Holidays
  PROVE  /\ RollForward(n, c) \in n .. n + MaxRollDays - 1
         /\ BusinessDay(RollForward(n, c), c)
         /\ \A e \in n .. RollForward(n, c) - 1 : ~BusinessDay(e, c)
<1>1. \E d \in n .. n + 29 : BusinessDay(d, c)
  <2>1. \E d \in n .. n + 2 : ~Weekend(d)
    BY DEF Weekend
  <2>2. PICK d \in n .. n + 2 : ~Weekend(d)
    BY <2>1
  <2>3. CASE d \notin c
    BY <2>2, <2>3 DEF BusinessDay
  <2>4. CASE d \in c
    <3>1. PICK e \in d .. d + 20 : BusinessDay(e, Holidays)
      BY <2>4, HolidaysAssumption
    <3> QED
      BY <2>2, <3>1 DEF BusinessDay
  <2> QED
    BY <2>3, <2>4
<1> DEFINE Good(d) == BusinessDay(d, c) /\ \A e \in n .. d - 1 : ~BusinessDay(e, c)
<1>2. \E d \in n .. n + 29 : Good(d)
  <2> DEFINE T == {d \in n .. n + 29 : BusinessDay(d, c)}
             Less == OpToRel(<, Nat)
  <2>1. T \subseteq Nat /\ T # {}
    BY <1>1
  <2>2. Less = {ss \in Nat \X Nat : ss[1] < ss[2]}
    BY Zenon DEF OpToRel
  <2>3. IsWellFoundedOn(Less, Nat)
    BY NatLessThanWellFounded, Zenon
  <2> HIDE DEF T, Less
  <2>4. PICK d \in T : \A e \in T : <<e, d>> \notin Less
    BY <2>1, <2>3, WFMin
  <2>5. \A e \in T : ~(e < d)
    BY <2>1, <2>2, <2>4
  <2>6. d \in n .. n + 29 /\ BusinessDay(d, c)
    BY <2>4 DEF T
  <2>7. \A e \in n .. d - 1 : ~BusinessDay(e, c)
    BY <2>5, <2>6 DEF T
  <2> QED
    BY <2>6, <2>7
<1> QED
  BY <1>2 DEF RollForward, MaxRollDays

\* A filing with a period and a due date in Nat is a record of the table.
LEMMA FilingType ==
  ASSUME NEW kind \in Kinds, NEW s \in Nat, NEW e \in Nat, NEW due \in Nat,
         NEW c \in SUBSET Holidays
  PROVE  Filing(kind, s, e, due, c) \in FilingRecord
<1>1. RollForward(due, c) \in Nat
  BY RollForwardWorks DEF MaxRollDays
<1> QED
  BY <1>1 DEF Filing, FilingRecord

\* What a run computes: records of statutory filings (two years long if the fiscal year
\* starts in January), no two of them for one period.
LEMMA VatSound ==
  ASSUME NEW i \in Nat, i >= 24, NEW p \in Profile, NEW c \in SUBSET Holidays
  PROVE  /\ VatFilings(i, p, c) \subseteq FilingRecord
         /\ \A f \in VatFilings(i, p, c) : f.kind \in VatKinds /\ Statutory(f)
         /\ \A f, h \in VatFilings(i, p, c) : SamePeriod(f, h) => f = h
<1> DEFINE kind(s) == IF s % 6 # 0 THEN "VAT_FINAL"
                      ELSE IF p.prepay THEN "VAT_PREPAYMENT_NOTICE" ELSE "VAT_PRELIM"
           Q(s) == Filing(kind(s), s, s + 2, Day(s + 3, 25), c)
           starts == {Month(Year(i), 1) + 3 * q : q \in 0 .. 7}
<1>1. \A f \in VatFilings(i, p, c) : \E s \in starts : f = Q(s)
  BY DEF VatFilings
<1>2. \A s \in starts : s \in Nat /\ s % 3 = 0
  BY DEF Month, Year
<1> HIDE DEF starts
<1>3. \A s : kind(s) \in VatKinds /\ kind(s) \in Kinds
  BY DEF VatKinds, Kinds
<1>4. \A s \in starts : Q(s) \in FilingRecord
  <2> SUFFICES ASSUME NEW s \in starts PROVE Q(s) \in FilingRecord
    OBVIOUS
  <2>1. s \in Nat /\ s + 2 \in Nat /\ Day(s + 3, 25) \in Nat
    BY <1>2, DaysNat
  <2> HIDE DEF kind
  <2> QED
    BY <1>3, <2>1, FilingType
<1>5. \A s \in starts : Statutory(Q(s))
  BY <1>2, <1>3 DEF Statutory, Filing
<1>6. \A s \in starts : Q(s).kind = kind(s) /\ Q(s).start = s
  BY DEF Filing
<1> HIDE DEF kind, Q
<1> QED
  BY <1>1, <1>3, <1>4, <1>5, <1>6 DEF SamePeriod

LEMMA WithholdingSound ==
  ASSUME NEW i \in Nat, i >= 24, NEW p \in Profile, NEW c \in SUBSET Holidays
  PROVE  /\ WithholdingFilings(i, p, c) \subseteq FilingRecord
         /\ \A f \in WithholdingFilings(i, p, c) : f.kind \in WhKinds /\ Statutory(f)
         /\ \A f, h \in WithholdingFilings(i, p, c) : SamePeriod(f, h) => f = h
<1> DEFINE M(j) == Filing("WH_MONTHLY", j, j, Day(j + 1, 10), c)
           S(j) == Filing("WH_SEMIANNUAL", j - 5, j, Day(j + 1, 10), c)
           months == i .. i + HorizonMonths - 1
<1>1. \/ WithholdingFilings(i, p, c) = {M(j) : j \in months}
      \/ WithholdingFilings(i, p, c) = {S(j) : j \in {k \in months : k % 6 = 5}}
  BY DEF WithholdingFilings
<1>2. \A j \in months : j \in Nat /\ j - 5 \in Nat
  BY DEF HorizonMonths
<1>3. {"WH_MONTHLY", "WH_SEMIANNUAL"} \subseteq WhKinds /\ WhKinds \subseteq Kinds
  BY DEF WhKinds, Kinds
<1>4. \A j \in months : M(j) \in FilingRecord /\ S(j) \in FilingRecord
  <2> SUFFICES ASSUME NEW j \in months PROVE M(j) \in FilingRecord /\ S(j) \in FilingRecord
    OBVIOUS
  <2>1. j \in Nat /\ j - 5 \in Nat /\ Day(j + 1, 10) \in Nat
    BY <1>2, DaysNat
  <2> QED
    BY <1>3, <2>1, FilingType
<1>5. \A j \in months : M(j).kind \in WhKinds /\ S(j).kind \in WhKinds
  BY <1>3 DEF Filing
<1>6. \A j \in months : Statutory(M(j))
  BY <1>2 DEF Statutory, Filing
<1>7. \A j \in months : j % 6 = 5 => Statutory(S(j))
  BY <1>2 DEF Statutory, Filing
<1>8. \A j \in months : M(j).end = j /\ S(j).end = j
  BY DEF Filing
<1> HIDE DEF M, S, months
<1> QED
  BY <1>1, <1>4, <1>5, <1>6, <1>7, <1>8 DEF SamePeriod

LEMMA IncomeSound ==
  ASSUME NEW i \in Nat, i >= 24, NEW c \in SUBSET Holidays
  PROVE  /\ IncomeFilings(i, c) \subseteq FilingRecord
         /\ \A f \in IncomeFilings(i, c) : f.kind = "COMPREHENSIVE_INCOME" /\ Statutory(f)
         /\ \A f, h \in IncomeFilings(i, c) : SamePeriod(f, h) => f = h
<1> DEFINE Y(y) == Filing("COMPREHENSIVE_INCOME", Month(y, 1), Month(y, 12), Day(Month(y + 1, 5), 31), c)
           years == Year(i) - 1 .. Year(i) + 1
<1>1. IncomeFilings(i, c) = {Y(y) : y \in years}
  BY DEF IncomeFilings
<1>2. \A y \in years : y \in Nat
  BY DEF Year
<1>3. \A y \in Nat : /\ Month(y, 1) \in Nat /\ Month(y, 12) \in Nat /\ Month(y + 1, 5) \in Nat
                     /\ Month(y, 1) % 12 = 0 /\ Month(y, 12) = Month(y, 1) + 11
                     /\ Month(y + 1, 5) = Month(y, 12) + 5
  BY DEF Month
<1>4. \A y \in years : Y(y) \in FilingRecord
  <2> SUFFICES ASSUME NEW y \in years PROVE Y(y) \in FilingRecord
    OBVIOUS
  <2>1. Month(y, 1) \in Nat /\ Month(y, 12) \in Nat /\ Month(y + 1, 5) \in Nat
    BY <1>2, <1>3
  <2> DEFINE may == Month(y + 1, 5)
  <2>2. Day(may, 31) \in Nat
    <3> HIDE DEF may
    <3>1. may \in Nat /\ 31 \in Nat \ {0}
      BY <2>1 DEF may
    <3> QED
      BY <3>1, DaysNat
  <2>3. "COMPREHENSIVE_INCOME" \in Kinds
    BY DEF Kinds
  <2> QED
    BY <2>1, <2>2, <2>3, FilingType
<1>5. \A y \in years : Y(y).kind = "COMPREHENSIVE_INCOME" /\ Statutory(Y(y))
  BY <1>2, <1>3 DEF Statutory, Filing
<1>6. \A y, z \in years : Y(y).start = Y(z).start => y = z
  BY <1>2 DEF Filing, Month
<1> HIDE DEF Y, years
<1> QED
  BY <1>1, <1>4, <1>5, <1>6 DEF SamePeriod

LEMMA CorpSound ==
  ASSUME NEW i \in Nat, i >= 24, NEW p \in Profile, NEW c \in SUBSET Holidays
  PROVE  /\ CorpFilings(i, p, c) \subseteq FilingRecord
         /\ \A f \in CorpFilings(i, p, c) : f.kind = "CORP_FINAL" /\ (Statutory(f) \/ LongYear(f))
         /\ \A f, h \in CorpFilings(i, p, c) : SamePeriod(f, h) => f = h
<1> DEFINE C(s) == Filing("CORP_FINAL", s, FiscalYearEnd(s + 12), LastDay(s + 14), c)
           starts == {Month(Year(i) - 1 + k, p.fiscal) : k \in 0 .. 1}
<1>1. CorpFilings(i, p, c) = {C(s) : s \in starts}
  BY DEF CorpFilings
<1>2. p.fiscal \in 1 .. 12
  BY DEF Profile
<1>3. \A s \in starts : s \in Nat /\ s % 12 = p.fiscal - 1
  BY <1>2 DEF Month, Year
<1> HIDE DEF starts
<1>4. \A s \in starts : /\ FiscalYearEnd(s + 12) \in Nat
                        /\ FiscalYearEnd(s + 12) = IF s % 12 = 0 THEN s + 23 ELSE s + 11
  <2> SUFFICES ASSUME NEW s \in starts
               PROVE  /\ FiscalYearEnd(s + 12) \in Nat
                      /\ FiscalYearEnd(s + 12) = IF s % 12 = 0 THEN s + 23 ELSE s + 11
    OBVIOUS
  <2>1. s \in Nat /\ s % 12 = p.fiscal - 1
    BY <1>3
  <2>2. (s + 12) % 12 = s % 12
    BY <2>1
  <2> QED
    BY <1>2, <2>1, <2>2 DEF FiscalYearEnd
<1>5. \A s \in starts : C(s) \in FilingRecord
  <2> SUFFICES ASSUME NEW s \in starts PROVE C(s) \in FilingRecord
    OBVIOUS
  <2>1. s \in Nat /\ FiscalYearEnd(s + 12) \in Nat /\ LastDay(s + 14) \in Nat
    BY <1>3, <1>4, DaysNat
  <2> QED
    BY <2>1, FilingType DEF Kinds
<1>6. \A s \in starts : C(s).kind = "CORP_FINAL" /\ C(s).start = s
  BY DEF Filing
<1>7. \A s \in starts : Statutory(C(s)) \/ LongYear(C(s))
  <2> SUFFICES ASSUME NEW s \in starts PROVE Statutory(C(s)) \/ LongYear(C(s))
    OBVIOUS
  <2>1. s \in Nat /\ FiscalYearEnd(s + 12) = IF s % 12 = 0 THEN s + 23 ELSE s + 11
    BY <1>3, <1>4
  <2>2. /\ C(s).kind = "CORP_FINAL" /\ C(s).start = s
        /\ C(s).end = FiscalYearEnd(s + 12) /\ C(s).statutory = LastDay(s + 14)
    BY DEF Filing
  <2> HIDE DEF C
  <2>3. CASE s % 12 = 0
    BY <2>1, <2>2, <2>3 DEF LongYear
  <2>4. CASE s % 12 # 0
    <3>1. (s + 11) + 3 = s + 14
      BY <2>1
    <3> QED
      BY <2>1, <2>2, <2>4, <3>1 DEF Statutory
  <2> QED
    BY <2>3, <2>4
<1> HIDE DEF C
<1> QED
  BY <1>1, <1>5, <1>6, <1>7 DEF SamePeriod

LEMMA FilingsForSound ==
  ASSUME NEW i \in Nat, i >= 24, NEW p \in Profile, NEW c \in SUBSET Holidays
  PROVE  /\ FilingsFor(i, p, c) \subseteq FilingRecord
         /\ \A f \in FilingsFor(i, p, c) : Statutory(f) \/ LongYear(f)
         /\ \A f, h \in FilingsFor(i, p, c) : SamePeriod(f, h) => f = h
<1>1. CASE p.business = "personal"
  BY <1>1, IncomeSound DEF FilingsFor
<1>2. CASE p.business # "personal"
  <2> DEFINE V == VatFilings(i, p, c)
             W == WithholdingFilings(i, p, c)
             C == IF p.business = "corporate" THEN CorpFilings(i, p, c) ELSE {}
  <2>1. FilingsFor(i, p, c) = V \cup W \cup C
    BY <1>2 DEF FilingsFor
  <2>2. /\ V \subseteq FilingRecord /\ \A f \in V : f.kind \in VatKinds /\ Statutory(f)
        /\ \A f, h \in V : SamePeriod(f, h) => f = h
    BY VatSound
  <2>3. /\ W \subseteq FilingRecord /\ \A f \in W : f.kind \in WhKinds /\ Statutory(f)
        /\ \A f, h \in W : SamePeriod(f, h) => f = h
    BY WithholdingSound
  <2>4. /\ C \subseteq FilingRecord
        /\ \A f \in C : f.kind = "CORP_FINAL" /\ (Statutory(f) \/ LongYear(f))
        /\ \A f, h \in C : SamePeriod(f, h) => f = h
    BY CorpSound
  <2>5. VatKinds \cap WhKinds = {} /\ "CORP_FINAL" \notin VatKinds \cup WhKinds
    BY DEF VatKinds, WhKinds
  <2> HIDE DEF V, W, C
  <2>6. \A f, h \in V \cup W \cup C : SamePeriod(f, h) => f = h
    BY <2>2, <2>3, <2>4, <2>5 DEF SamePeriod
  <2> QED
    BY <2>1, <2>2, <2>3, <2>4, <2>6
<1> QED
  BY <1>1, <1>2

\* The clock and the months generators started in are past the second year; tables
\* and jobs are well-formed.
Clocks == /\ now >= 24
          /\ \A g \in Generators : job[g] # None => job[g].from >= 24

LEMMA Initially == Init => TypeOK /\ Clocks
<1> SUFFICES ASSUME Init PROVE TypeOK /\ Clocks
  OBVIOUS
<1> QED
  BY ClockAssumption DEF Init, TypeOK, Clocks

LEMMA TypeStep ==
  ASSUME TypeOK, Clocks, [Next]_vars
  PROVE  TypeOK' /\ Clocks'
<1> USE DEF TypeOK, Clocks
<1>1. CASE NextMonth
  BY <1>1 DEF NextMonth
<1>2. CASE SyncHolidays
  BY <1>2 DEF SyncHolidays
<1>3. CASE UpdateProfile
  BY <1>3 DEF UpdateProfile
<1>4. ASSUME NEW g \in Generators, LoadHolidays(g) PROVE TypeOK' /\ Clocks'
  <2>1. PICK c \in SUBSET Holidays : job' = [job EXCEPT ![g] = [from |-> now, profile |-> None, cal |-> c]]
    BY <1>4 DEF LoadHolidays
  <2> DEFINE j == [from |-> now, profile |-> None, cal |-> c]
  <2>2. j \in Job /\ j.from = now
    BY DEF Job
  <2>3. UNCHANGED <<now, profile, cache, filings, runs>>
    BY <1>4 DEF LoadHolidays
  <2> HIDE DEF j
  <2>4. job' \in [Generators -> Job \cup {None}]
    BY <2>1, <2>2 DEF j
  <2>5. Clocks'
    BY <2>1, <2>2, <2>3 DEF j
  <2> QED
    BY <2>3, <2>4, <2>5 DEF SamePeriod
<1>5. ASSUME NEW g \in Generators, ReadTenant(g) PROVE TypeOK' /\ Clocks'
  <2>1. job[g] \in Job /\ job' = [job EXCEPT ![g] = [@ EXCEPT !.profile = profile]]
    BY <1>5 DEF ReadTenant
  <2>2. [job[g] EXCEPT !.profile = profile] \in Job /\ [job[g] EXCEPT !.profile = profile].from = job[g].from
    BY <2>1 DEF Job
  <2> QED
    BY <1>5, <2>1, <2>2 DEF ReadTenant
<1>6. ASSUME NEW g \in Generators, InsertFilings(g) PROVE TypeOK' /\ Clocks'
  <2> DEFINE F == FilingsFor(job[g].from, job[g].profile, job[g].cal)
  <2>1. /\ job[g].from \in Nat /\ job[g].from >= 24
        /\ job[g].profile \in Profiles /\ job[g].cal \in SUBSET Holidays
    BY <1>6 DEF InsertFilings, Job
  <2>2. F \subseteq FilingRecord /\ \A f, h \in F : SamePeriod(f, h) => f = h
    BY <2>1, ProfilesAssumption, FilingsForSound
  <2>3. filings' = Inserting(F) /\ runs' = runs \cup {[from |-> job[g].from, profile |-> job[g].profile]}
    BY <1>6 DEF InsertFilings
  <2> HIDE DEF F
  <2>4. \A f, h \in filings' : SamePeriod(f, h) => f = h
    BY <2>2, <2>3 DEF Inserting, SamePeriod
  <2>5. job' = [job EXCEPT ![g] = None] /\ UNCHANGED <<now, profile, cache>>
    BY <1>6 DEF InsertFilings
  <2>6. filings' \subseteq FilingRecord /\ runs' \subseteq [from : Nat, profile : Profiles]
    BY <2>1, <2>2, <2>3 DEF Inserting
  <2> QED
    BY <2>4, <2>5, <2>6 DEF SamePeriod
<1>7. ASSUME NEW g \in Generators, Abort(g) PROVE TypeOK' /\ Clocks'
  BY <1>7 DEF Abort
<1>8. ASSUME NEW f \in filings, Recompute(f) PROVE TypeOK' /\ Clocks'
  <2>1. [f EXCEPT !.status = "drafted"] \in FilingRecord
    BY DEF FilingRecord
  <2>2. \A h : SamePeriod([f EXCEPT !.status = "drafted"], h) <=> SamePeriod(f, h)
    BY DEF SamePeriod, FilingRecord
  <2>3. \A h : SamePeriod(h, [f EXCEPT !.status = "drafted"]) <=> SamePeriod(h, f)
    BY DEF SamePeriod, FilingRecord
  <2> QED
    BY <1>8, <2>1, <2>2, <2>3 DEF Recompute
<1>9. CASE UNCHANGED vars
  BY <1>9 DEF vars
<1> HIDE DEF TypeOK, Clocks
<1> QED
  BY <1>1, <1>2, <1>3, <1>4, <1>5, <1>6, <1>7, <1>8, <1>9 DEF Next, GeneratorStep

\* The calendar keeps its shape: months, days, holidays and profiles, one filing for
\* a kind and period, also when generators overlap.
THEOREM TypeCorrect == Spec => []TypeOK
<1>1. Spec => [](TypeOK /\ Clocks)
  BY Initially, TypeStep, PTL DEF Spec
<1> QED
  BY <1>1, PTL

\* Every filing ever inserted, for whatever profile, has its statutory period and due date,
\* but for the two years of a corporation whose fiscal year starts in January.
THEOREM FilingsAreStatutory == Spec => []OnlyStatutoryFilings
<1>1. Init => OnlyStatutoryFilings
  BY DEF Init, OnlyStatutoryFilings
<1>2. ASSUME TypeOK, Clocks, OnlyStatutoryFilings, [Next]_vars PROVE OnlyStatutoryFilings'
  <2>1. ASSUME NEW g \in Generators, InsertFilings(g) PROVE OnlyStatutoryFilings'
    <3> DEFINE F == FilingsFor(job[g].from, job[g].profile, job[g].cal)
    <3>1. /\ job[g].from \in Nat /\ job[g].from >= 24
          /\ job[g].profile \in Profiles /\ job[g].cal \in SUBSET Holidays
      BY <1>2, <2>1 DEF InsertFilings, Job, TypeOK, Clocks
    <3>2. \A f \in F : Statutory(f) \/ LongYear(f)
      BY <3>1, ProfilesAssumption, FilingsForSound
    <3>3. filings' = Inserting(F)
      BY <2>1 DEF InsertFilings
    <3> HIDE DEF F
    <3> QED
      BY <1>2, <3>2, <3>3 DEF OnlyStatutoryFilings, Inserting, Statutory, LongYear
  <2>2. ASSUME NEW f \in filings, Recompute(f) PROVE OnlyStatutoryFilings'
    <3>1. (Statutory(f) \/ LongYear(f)) /\ f \in FilingRecord
      BY <1>2 DEF OnlyStatutoryFilings, TypeOK
    <3>2. Statutory([f EXCEPT !.status = "drafted"]) \/ LongYear([f EXCEPT !.status = "drafted"])
      BY <3>1 DEF Statutory, LongYear, FilingRecord
    <3>3. filings' = (filings \ {f}) \cup {[f EXCEPT !.status = "drafted"]}
      BY <2>2 DEF Recompute
    <3>4. \A g \in filings : Statutory(g) \/ LongYear(g)
      BY <1>2 DEF OnlyStatutoryFilings
    <3>5. \A g \in filings' : Statutory(g) \/ LongYear(g)
      BY <3>2, <3>3, <3>4
    <3> QED
      BY <3>5 DEF OnlyStatutoryFilings, Statutory, LongYear
  <2>3. filings' = filings \/ (\E g \in Generators : InsertFilings(g)) \/ \E f \in filings : Recompute(f)
    BY <1>2 DEF Next, GeneratorStep, vars, NextMonth, SyncHolidays, UpdateProfile, LoadHolidays,
                ReadTenant, Abort
  <2> QED
    BY <1>2, <2>1, <2>2, <2>3 DEF OnlyStatutoryFilings, Statutory, LongYear
<1>3. Spec => [](TypeOK /\ Clocks)
  BY Initially, TypeStep, PTL DEF Spec
<1> QED
  BY <1>1, <1>2, <1>3, PTL DEF Spec

\* A run of the generator leaves every filing of the table, and its draft, alone.
THEOREM RerunsKeepFilings == Spec => RerunsAreHarmless
<1> DEFINE Kept == \A f \in filings : \E h \in filings' : h = f \/ h = [f EXCEPT !.status = "drafted"]
<1>1. ASSUME [Next]_vars PROVE Kept
  <2>1. ASSUME NEW g \in Generators, InsertFilings(g) PROVE Kept
    BY <2>1 DEF InsertFilings, Inserting
  <2>2. ASSUME NEW f \in filings, Recompute(f) PROVE Kept
    BY <2>2 DEF Recompute
  <2>3. filings' = filings \/ (\E g \in Generators : InsertFilings(g)) \/ \E f \in filings : Recompute(f)
    BY <1>1 DEF Next, GeneratorStep, vars, NextMonth, SyncHolidays, UpdateProfile, LoadHolidays,
                ReadTenant, Abort
  <2> QED
    BY <2>1, <2>2, <2>3
<1> QED
  BY <1>1, PTL DEF Spec, RerunsAreHarmless
---------------------------------------------------------------------------
(* The month of a day.                                                     *)

YearStart(y) == 365 * y + (y + 3) \div 4 - (y + 99) \div 100 + (y + 399) \div 400
Before(m)    == <<0, 31, 59, 90, 120, 151, 181, 212, 243, 273, 304, 334>>[m]
LeapDay(y)   == IF Leap(y) THEN 1 ELSE 0

Passed(y, m) == Before(m) + (IF m > 2 THEN LeapDay(y) ELSE 0)

LEMMA BeforeGrows ==
  /\ Before(1) = 0
  /\ \A m \in 1 .. 12 : Before(m) \in 0 .. 334
  /\ \A k, m \in 1 .. 12 : k < m => Before(k) + 28 <= Before(m)
BY DEF Before

LEMMA PassedIs ==
  ASSUME NEW y, NEW m \in 1 .. 12
  PROVE  Passed(y, m) = IF m > 2 /\ Leap(y) THEN Before(m) + 1 ELSE Before(m)
<1>1. Before(m) \in 0 .. 334
  BY BeforeGrows
<1>2. CASE m > 2 /\ Leap(y)
  BY <1>1, <1>2 DEF Passed, LeapDay
<1>3. CASE ~(m > 2 /\ Leap(y))
  <2>1. Passed(y, m) = Before(m) + 0
    BY <1>3, Zenon DEF Passed, LeapDay
  <2> QED
    BY <1>1, <1>3, <2>1
<1> QED
  BY <1>2, <1>3

LEMMA FirstDayIs ==
  ASSUME NEW i \in Nat
  PROVE  FirstDay(i) = YearStart(Year(i)) + Passed(Year(i), (i % 12) + 1)
<1>1. PICK y \in Nat, m \in 1 .. 12 : y = Year(i) /\ m = (i % 12) + 1
  BY DEF Year
<1>2. YearStart(y) \in Nat
  BY DEF YearStart
<1>3. FirstDay(i) = YearStart(y) + Before(m) + (IF m > 2 /\ Leap(y) THEN 1 ELSE 0)
  BY <1>1 DEF FirstDay, YearStart, Before, Year
<1>4. Before(m) \in 0 .. 334
  BY BeforeGrows
<1>5. Passed(y, m) = IF m > 2 /\ Leap(y) THEN Before(m) + 1 ELSE Before(m)
  BY PassedIs
<1>6. FirstDay(i) = YearStart(y) + Passed(y, m)
  BY <1>2, <1>3, <1>4, <1>5
<1> QED
  BY <1>1, <1>6

\* No month is shorter than 28 days.
LEMMA PassedGrows ==
  ASSUME NEW y
  PROVE  /\ Passed(y, 1) = 0
         /\ \A m \in 1 .. 12 : Passed(y, m) \in 0 .. 334 + LeapDay(y)
         /\ \A k, m \in 1 .. 12 : k < m => Passed(y, k) + 28 <= Passed(y, m)
<1>1. Passed(y, 1) = 0
  BY BeforeGrows, PassedIs
<1>2. ASSUME NEW m \in 1 .. 12 PROVE Passed(y, m) \in 0 .. 334 + LeapDay(y)
  <2>1. Before(m) \in 0 .. 334
    BY BeforeGrows
  <2>2. Passed(y, m) = IF m > 2 /\ Leap(y) THEN Before(m) + 1 ELSE Before(m)
    BY PassedIs
  <2>3. CASE Leap(y)
    BY <2>1, <2>2, <2>3 DEF LeapDay
  <2>4. CASE ~Leap(y)
    <3>1. LeapDay(y) = 0 /\ Passed(y, m) = Before(m)
      BY <2>2, <2>4, Zenon DEF LeapDay
    <3> QED
      BY <2>1, <3>1
  <2> QED
    BY <2>3, <2>4
<1>3. ASSUME NEW k \in 1 .. 12, NEW m \in 1 .. 12, k < m PROVE Passed(y, k) + 28 <= Passed(y, m)
  <2>1. PICK a \in 0 .. 334, b \in 0 .. 334 : a = Before(k) /\ b = Before(m) /\ a + 28 <= b
    BY <1>3, BeforeGrows
  <2>2. /\ Passed(y, m) = IF m > 2 /\ Leap(y) THEN b + 1 ELSE b
        /\ Passed(y, k) = IF k > 2 /\ Leap(y) THEN a + 1 ELSE a
    BY <2>1, PassedIs
  <2>3. CASE k > 2 /\ Leap(y)
    <3>1. Passed(y, k) = a + 1 /\ Passed(y, m) = b + 1
      BY <1>3, <2>2, <2>3
    <3> QED
      BY <2>1, <3>1
  <2>4. CASE ~(k > 2 /\ Leap(y))
    <3>1. Passed(y, k) = a /\ Passed(y, m) \in {b, b + 1}
      BY <2>2, <2>4
    <3> QED
      BY <2>1, <3>1
  <2> QED
    BY <2>3, <2>4
<1> QED
  BY <1>1, <1>2, <1>3

LEMMA YearsGrow ==
  ASSUME NEW y \in Nat
  PROVE  /\ YearStart(y) \in Nat /\ YearStart(y + 1) \in Nat
         /\ YearStart(y + 1) >= YearStart(y) + 365 + LeapDay(y)
         /\ 365 * y <= YearStart(y) /\ YearStart(y + 1) <= 366 * (y + 1)
         /\ \A z \in Nat : y < z => YearStart(y + 1) <= YearStart(z)
<1>1. /\ YearStart(y) \in Nat /\ YearStart(y + 1) \in Nat
      /\ 365 * y <= YearStart(y) /\ YearStart(y + 1) <= 366 * (y + 1)
  BY DEF YearStart
<1>2. YearStart(y + 1) >= YearStart(y) + 365 + LeapDay(y)
  BY DEF YearStart, LeapDay, Leap
<1>3. \A z \in Nat : y < z => YearStart(y + 1) <= YearStart(z)
  BY DEF YearStart
<1> QED
  BY <1>1, <1>2, <1>3

\* A month lies in its year.
LEMMA MonthInYear ==
  ASSUME NEW i \in Nat
  PROVE  /\ YearStart(Year(i)) <= FirstDay(i)
         /\ FirstDay(i + 1) <= YearStart(Year(i) + 1)
         /\ FirstDay(i) + 28 <= FirstDay(i + 1)
<1>1. PICK y \in Nat, m \in 1 .. 12 : y = Year(i) /\ m = (i % 12) + 1
  BY DEF Year
<1>2. \/ m < 12 /\ Year(i + 1) = y /\ ((i + 1) % 12) + 1 = m + 1
      \/ m = 12 /\ Year(i + 1) = y + 1 /\ ((i + 1) % 12) + 1 = 1
  BY <1>1 DEF Year
<1>3. FirstDay(i) = YearStart(y) + Passed(y, m)
  BY <1>1, FirstDayIs
<1>4. FirstDay(i + 1) = YearStart(Year(i + 1)) + Passed(Year(i + 1), ((i + 1) % 12) + 1)
  BY FirstDayIs
<1>5. /\ YearStart(y) \in Nat /\ YearStart(y + 1) \in Nat
      /\ YearStart(y + 1) >= YearStart(y) + 365 + LeapDay(y)
  BY YearsGrow
<1>6. LeapDay(y) \in 0 .. 1 /\ Passed(y, m) \in 0 .. 334 + LeapDay(y)
  BY PassedGrows DEF LeapDay
<1>7. CASE m < 12
  <2>1. /\ Passed(y, m + 1) \in 0 .. 334 + LeapDay(y)
        /\ Passed(y, m) + 28 <= Passed(y, m + 1)
    BY <1>7, PassedGrows
  <2>2. FirstDay(i + 1) = YearStart(y) + Passed(y, m + 1)
    BY <1>2, <1>4, <1>7
  <2> QED
    BY <1>1, <1>3, <1>5, <1>6, <2>1, <2>2
<1>8. CASE m = 12
  <2>1. FirstDay(i + 1) = YearStart(y + 1)
    BY <1>2, <1>4, <1>5, <1>8, PassedGrows
  <2> QED
    BY <1>1, <1>3, <1>5, <1>6, <2>1
<1> QED
  BY <1>7, <1>8

LEMMA MonthsOrdered ==
  ASSUME NEW i \in Nat, NEW j \in Nat, i <= j
  PROVE  FirstDay(i) <= FirstDay(j)
<1>1. FirstDay(i) \in Nat /\ FirstDay(j) \in Nat /\ FirstDay(i + 1) \in Nat
  BY FirstDayNat
<1>2. PICK y \in Nat, z \in Nat : y = Year(i) /\ z = Year(j) /\ y <= z
  BY DEF Year
<1>3. CASE y < z
  <2>1. /\ YearStart(y + 1) <= YearStart(z)
        /\ YearStart(y + 1) \in Nat /\ YearStart(z) \in Nat
    BY <1>3, YearsGrow
  <2>2. /\ YearStart(z) <= FirstDay(j) /\ FirstDay(i + 1) <= YearStart(y + 1)
        /\ FirstDay(i) + 28 <= FirstDay(i + 1)
    BY <1>2, MonthInYear
  <2> QED
    BY <1>1, <2>1, <2>2
<1>4. CASE y = z
  <2>1. PICK k \in 1 .. 12, m \in 1 .. 12 : k = (i % 12) + 1 /\ m = (j % 12) + 1 /\ (k < m \/ k = m)
    BY <1>2, <1>4 DEF Year
  <2>2. FirstDay(i) = YearStart(y) + Passed(y, k) /\ FirstDay(j) = YearStart(y) + Passed(y, m)
    BY <1>2, <1>4, <2>1, FirstDayIs
  <2>3. YearStart(y) \in Nat /\ LeapDay(y) \in 0 .. 1
    BY YearsGrow DEF LeapDay
  <2>4. /\ Passed(y, k) \in 0 .. 334 + LeapDay(y) /\ Passed(y, m) \in 0 .. 334 + LeapDay(y)
        /\ k < m => Passed(y, k) + 28 <= Passed(y, m)
    BY PassedGrows
  <2> QED
    BY <2>1, <2>2, <2>3, <2>4
<1> QED
  BY <1>2, <1>3, <1>4

\* The month of a day is the one it lies in.
LEMMA MonthOfWorks ==
  ASSUME NEW i \in Nat, NEW n \in FirstDay(i) .. LastDay(i)
  PROVE  MonthOf(n) = i
<1>1. FirstDay(i) \in Nat /\ FirstDay(i + 1) \in Nat /\ n \in Nat /\ n < FirstDay(i + 1)
  BY FirstDayNat DEF LastDay
<1> DEFINE range == (12 * (n \div 366)) .. (12 * (n \div 365) + 11)
<1>2. i \in range
  <2>1. Year(i) \in Nat /\ 12 * Year(i) <= i /\ i <= 12 * Year(i) + 11
    BY DEF Year
  <2>2. /\ 365 * Year(i) <= YearStart(Year(i)) /\ YearStart(Year(i)) \in Nat
        /\ YearStart(Year(i) + 1) <= 366 * (Year(i) + 1) /\ YearStart(Year(i) + 1) \in Nat
    BY <2>1, YearsGrow
  <2>3. 365 * Year(i) <= n /\ n < 366 * (Year(i) + 1)
    BY <1>1, <2>1, <2>2, MonthInYear
  <2>4. Year(i) <= n \div 365 /\ n \div 366 <= Year(i)
    BY <1>1, <2>1, <2>3
  <2> QED
    BY <1>1, <2>1, <2>4
<1>3. ASSUME NEW j \in range, FirstDay(j) <= n, n <= LastDay(j) PROVE j = i
  <2>1. j \in Nat
    BY <1>1
  <2>2. FirstDay(j) \in Nat /\ FirstDay(j + 1) \in Nat /\ n < FirstDay(j + 1)
    BY <1>1, <1>3, <2>1, FirstDayNat DEF LastDay
  <2>3. ~(j + 1 <= i)
    BY <1>1, <2>1, <2>2, MonthsOrdered
  <2>4. ~(i + 1 <= j)
    BY <1>1, <1>3, <2>1, <2>2, MonthsOrdered
  <2> QED
    BY <2>1, <2>3, <2>4
<1>4. FirstDay(i) <= n /\ n <= LastDay(i)
  BY <1>1 DEF LastDay
<1> QED
  BY <1>2, <1>3, <1>4 DEF MonthOf
---------------------------------------------------------------------------
(* A run covers what falls due in the eleven months after it.              *)

\* In the months in which VAT is due there is a business day from the 25th on.
QuarterEndsOpen ==
  \A i \in Nat : i % 3 = 0 => \E d \in Day(i, 25) .. LastDay(i) : BusinessDay(d, Holidays)

\* What NoGap says of a run, of any set of filings.
CoveredBy(F, K, s, e) == \E f \in F : f.kind \in K /\ f.start <= s /\ e <= f.end
FiledBy(F, s, e) == \E f \in F : f.kind = "CORP_FINAL" /\ f.start = s /\ e <= f.end
Owed(r, F) ==
  LET p == r.profile
      due == r.from + 1 .. r.from + HorizonMonths - 1
  IN /\ p.business = "personal" =>
          \A i \in due : i % 12 = 4 => CoveredBy(F, {"COMPREHENSIVE_INCOME"}, i - 16, i - 5)
     /\ p.business # "personal" =>
          /\ p.cadence = "MONTHLY" => \A i \in due : CoveredBy(F, WhKinds, i - 1, i - 1)
          /\ p.cadence = "SEMIANNUAL" => \A i \in due : i % 6 = 0 => CoveredBy(F, WhKinds, i - 6, i - 1)
          /\ p.tax # "tax_exempt" => \A i \in due : i % 3 = 0 => CoveredBy(F, VatKinds, i - 3, i - 1)
     /\ p.business = "corporate" =>
          \A i \in due : (i - 2) % 12 = (p.fiscal - 1) /\ ~Overlooked(r, i)
                         => FiledBy(F, i - 14, i - 3)

LEMMA NoGapIsOwed == NoGap <=> \A r \in runs : Owed(r, filings)
BY Zenon DEF NoGap, Owed, Covered, CoveredBy, FiledFrom, FiledBy

\* Filings of the same periods cover the same.
LEMMA OwedKept ==
  ASSUME NEW r, NEW F, NEW G, Owed(r, F), \A f \in F : \E h \in G : SamePeriod(f, h)
  PROVE  Owed(r, G)
<1>1. ASSUME NEW K, NEW s, NEW e, CoveredBy(F, K, s, e) PROVE CoveredBy(G, K, s, e)
  BY <1>1, Zenon DEF CoveredBy, SamePeriod
<1>2. ASSUME NEW s, NEW e, FiledBy(F, s, e) PROVE FiledBy(G, s, e)
  BY <1>2, Zenon DEF FiledBy, SamePeriod
<1> QED
  BY <1>1, <1>2, Zenon DEF Owed

LEMMA IncomeCovers ==
  ASSUME NEW from \in Nat, from >= 24, NEW c \in SUBSET Holidays,
         NEW i \in from + 1 .. from + 11, i % 12 = 4
  PROVE  CoveredBy(IncomeFilings(from, c), {"COMPREHENSIVE_INCOME"}, i - 16, i - 5)
<1> DEFINE y == Year(i) - 1
           f == Filing("COMPREHENSIVE_INCOME", Month(y, 1), Month(y, 12), Day(Month(y + 1, 5), 31), c)
<1>1. y \in Year(from) - 1 .. Year(from) + 1
  BY DEF Year
<1>2. f \in IncomeFilings(from, c)
  BY <1>1 DEF IncomeFilings
<1>3. Month(y, 1) = i - 16 /\ Month(y, 12) = i - 5
  BY DEF Year, Month
<1>4. f.kind = "COMPREHENSIVE_INCOME" /\ f.start = Month(y, 1) /\ f.end = Month(y, 12)
  BY DEF Filing
<1> HIDE DEF y, f
<1> QED
  BY <1>2, <1>3, <1>4 DEF CoveredBy

LEMMA WithholdingCovers ==
  ASSUME NEW from \in Nat, from >= 24, NEW p \in Profile, NEW c \in SUBSET Holidays,
         NEW i \in from + 1 .. from + 11
  PROVE  /\ p.cadence = "MONTHLY" => CoveredBy(WithholdingFilings(from, p, c), WhKinds, i - 1, i - 1)
         /\ p.cadence = "SEMIANNUAL" /\ i % 6 = 0
              => CoveredBy(WithholdingFilings(from, p, c), WhKinds, i - 6, i - 1)
<1> DEFINE M(j) == Filing("WH_MONTHLY", j, j, Day(j + 1, 10), c)
           S(j) == Filing("WH_SEMIANNUAL", j - 5, j, Day(j + 1, 10), c)
           months == from .. from + HorizonMonths - 1
<1>1. i - 1 \in months /\ (i % 6 = 0 => (i - 1) % 6 = 5)
  BY DEF HorizonMonths
<1>2. \A j : /\ M(j).kind \in WhKinds /\ M(j).start = j /\ M(j).end = j
             /\ S(j).kind \in WhKinds /\ S(j).start = j - 5 /\ S(j).end = j
  BY DEF Filing, WhKinds
<1>3. CASE p.cadence = "MONTHLY"
  <2>1. WithholdingFilings(from, p, c) = {M(j) : j \in months}
    BY <1>3 DEF WithholdingFilings
  <2> HIDE DEF M, S, months
  <2> QED
    BY <1>1, <1>2, <1>3, <2>1 DEF CoveredBy
<1>4. CASE p.cadence # "MONTHLY" /\ i % 6 = 0
  <2>1. WithholdingFilings(from, p, c) = {S(j) : j \in {l \in months : l % 6 = 5}}
    BY <1>4 DEF WithholdingFilings
  <2>2. (i - 1) - 5 = i - 6
    OBVIOUS
  <2> HIDE DEF M, S, months
  <2>3. S(i - 1) \in WithholdingFilings(from, p, c)
    BY <1>1, <1>4, <2>1
  <2>4. S(i - 1).kind \in WhKinds /\ S(i - 1).start = i - 6 /\ S(i - 1).end = i - 1
    BY <1>2, <2>2
  <2> QED
    BY <1>4, <2>3, <2>4 DEF CoveredBy
<1> QED
  BY <1>3, <1>4

LEMMA CorpCovers ==
  ASSUME NEW from \in Nat, from >= 24, NEW p \in Profile, NEW c \in SUBSET Holidays,
         NEW i \in from + 1 .. from + 11, (i - 2) % 12 = p.fiscal - 1,
         ~(from % 12 = 0 /\ i = from + 1)
  PROVE  FiledBy(CorpFilings(from, p, c), i - 14, i - 3)
<1> DEFINE k == Year(i - 14) - (Year(from) - 1)
           C(s) == Filing("CORP_FINAL", s, FiscalYearEnd(s + 12), LastDay(s + 14), c)
<1>1. p.fiscal \in 1 .. 12
  BY DEF Profile
<1>2. k \in 0 .. 1
  BY DEF Year
<1>3. Month(Year(from) - 1 + k, p.fiscal) = i - 14
  BY <1>1 DEF Year, Month
<1>4. C(i - 14) \in CorpFilings(from, p, c)
  BY <1>2, <1>3 DEF CorpFilings
<1>5. FiscalYearEnd((i - 14) + 12) >= i - 3
  BY DEF FiscalYearEnd
<1>6. C(i - 14).kind = "CORP_FINAL" /\ C(i - 14).start = i - 14
      /\ C(i - 14).end = FiscalYearEnd((i - 14) + 12)
  BY DEF Filing
<1> HIDE DEF C
<1> QED
  BY <1>4, <1>5, <1>6 DEF FiledBy

\* A quarter's VAT is due, after the roll, in the month after the quarter.
LEMMA VatMonth ==
  ASSUME QuarterEndsOpen, NEW i \in Nat, i % 3 = 0, NEW c \in SUBSET Holidays
  PROVE  MonthOf(RollForward(Day(i, 25), c)) = i
<1>1. FirstDay(i) \in Nat /\ FirstDay(i + 1) \in Nat /\ FirstDay(i) + 28 <= FirstDay(i + 1)
  BY FirstDayNat, MonthInYear
<1>2. Day(i, 25) = FirstDay(i) + 24 /\ LastDay(i) = FirstDay(i + 1) - 1
  BY <1>1 DEF Day, LastDay
<1>3. PICK d \in Day(i, 25) .. LastDay(i) : BusinessDay(d, Holidays)
  BY DEF QuarterEndsOpen
<1>4. BusinessDay(d, c)
  BY <1>3 DEF BusinessDay
<1> DEFINE n == RollForward(Day(i, 25), c)
<1>5. Day(i, 25) \in Nat
  BY <1>1, <1>2
<1>6. /\ n \in Day(i, 25) .. Day(i, 25) + MaxRollDays - 1
      /\ \A e \in Day(i, 25) .. n - 1 : ~BusinessDay(e, c)
  BY <1>5, RollForwardWorks
<1> HIDE DEF n
<1>7. n \in Nat /\ Day(i, 25) <= n
  BY <1>5, <1>6 DEF MaxRollDays
<1>8. d \in Nat /\ Day(i, 25) <= d /\ d <= LastDay(i)
  BY <1>1, <1>2, <1>3
<1>9. n <= d
  BY <1>4, <1>5, <1>6, <1>7, <1>8
<1>10. n \in FirstDay(i) .. LastDay(i)
  BY <1>1, <1>2, <1>7, <1>8, <1>9
<1> QED
  BY <1>10, MonthOfWorks DEF n

LEMMA VatCovers ==
  ASSUME QuarterEndsOpen, NEW from \in Nat, from >= 24, NEW p \in Profile, NEW c \in SUBSET Holidays,
         p.tax # "tax_exempt", NEW i \in from + 1 .. from + 11, i % 3 = 0
  PROVE  CoveredBy(VatFilings(from, p, c), VatKinds, i - 3, i - 1)
<1> DEFINE kind(s) == IF s % 6 # 0 THEN "VAT_FINAL"
                      ELSE IF p.prepay THEN "VAT_PREPAYMENT_NOTICE" ELSE "VAT_PRELIM"
           Q(s) == Filing(kind(s), s, s + 2, Day(s + 3, 25), c)
           starts == {Month(Year(from), 1) + 3 * q : q \in 0 .. 7}
<1>1. i - 3 \in starts
  <2> DEFINE q == (i - 3 - 12 * Year(from)) \div 3
  <2>1. q \in 0 .. 7 /\ i - 3 = 12 * Year(from) + 3 * q
    BY DEF Year
  <2>2. i - 3 = Month(Year(from), 1) + 3 * q
    BY <2>1 DEF Month, Year
  <2> HIDE DEF q
  <2> QED
    BY <2>1, <2>2
<1>2. Q(i - 3).kind = kind(i - 3) /\ Q(i - 3).start = i - 3 /\ Q(i - 3).end = i - 1
      /\ Q(i - 3).business = RollForward(Day(i, 25), c)
  BY DEF Filing
<1>3. kind(i - 3) \in VatKinds
  BY DEF VatKinds
<1> HIDE DEF kind
<1>4. WithinHorizon(from, MonthOf(Q(i - 3).business))
  BY <1>2, VatMonth DEF WithinHorizon, HorizonMonths
<1>5. Q(i - 3) \in VatFilings(from, p, c)
  BY <1>1, <1>4 DEF VatFilings, kind
<1> HIDE DEF Q
<1> QED
  BY <1>2, <1>3, <1>5 DEF CoveredBy

LEMMA RunCovers ==
  ASSUME QuarterEndsOpen, NEW r \in [from : Nat, profile : Profile], r.from >= 24,
         NEW c \in SUBSET Holidays
  PROVE  Owed(r, FilingsFor(r.from, r.profile, c))
<1> DEFINE from == r.from
           p == r.profile
           due == from + 1 .. from + HorizonMonths - 1
           F == FilingsFor(from, p, c)
<1>1. from \in Nat /\ p \in Profile /\ due = from + 1 .. from + 11
  BY DEF HorizonMonths
<1>2. ASSUME NEW G, NEW H, G \subseteq H, NEW K, NEW s, NEW e, CoveredBy(G, K, s, e)
      PROVE  CoveredBy(H, K, s, e)
  BY <1>2, Zenon DEF CoveredBy
<1>3. ASSUME p.business = "personal", NEW i \in due, i % 12 = 4
      PROVE  CoveredBy(F, {"COMPREHENSIVE_INCOME"}, i - 16, i - 5)
  BY <1>1, <1>3, IncomeCovers DEF FilingsFor
<1>4. p.business # "personal" =>
        VatFilings(from, p, c) \subseteq F /\ WithholdingFilings(from, p, c) \subseteq F
  BY DEF FilingsFor
<1>5. p.business = "corporate" => CorpFilings(from, p, c) \subseteq F
  BY DEF FilingsFor
<1> HIDE DEF F, due
<1>6. ASSUME p.business # "personal", NEW i \in due
      PROVE  /\ p.cadence = "MONTHLY" => CoveredBy(F, WhKinds, i - 1, i - 1)
             /\ p.cadence = "SEMIANNUAL" /\ i % 6 = 0 => CoveredBy(F, WhKinds, i - 6, i - 1)
  <2> DEFINE W == WithholdingFilings(from, p, c)
  <2>1. /\ p.cadence = "MONTHLY" => CoveredBy(W, WhKinds, i - 1, i - 1)
        /\ p.cadence = "SEMIANNUAL" /\ i % 6 = 0 => CoveredBy(W, WhKinds, i - 6, i - 1)
    BY <1>1, <1>6, WithholdingCovers
  <2>2. W \subseteq F
    BY <1>4, <1>6
  <2> HIDE DEF W
  <2> QED
    BY <1>2, <2>1, <2>2, Zenon
<1>7. ASSUME p.business # "personal", p.tax # "tax_exempt", NEW i \in due, i % 3 = 0
      PROVE  CoveredBy(F, VatKinds, i - 3, i - 1)
  <2> DEFINE V == VatFilings(from, p, c)
  <2>1. CoveredBy(V, VatKinds, i - 3, i - 1)
    BY <1>1, <1>7, VatCovers
  <2>2. V \subseteq F
    BY <1>4, <1>7
  <2> HIDE DEF V
  <2> QED
    BY <1>2, <2>1, <2>2, Zenon
<1>8. ASSUME p.business = "corporate", NEW i \in due, (i - 2) % 12 = p.fiscal - 1, ~Overlooked(r, i)
      PROVE  FiledBy(F, i - 14, i - 3)
  <2>1. ~(from % 12 = 0 /\ i = from + 1)
    BY <1>8 DEF Overlooked
  <2> DEFINE C == CorpFilings(from, p, c)
  <2>2. FiledBy(C, i - 14, i - 3)
    BY <1>1, <1>8, <2>1, CorpCovers
  <2>3. C \subseteq F
    BY <1>5, <1>8
  <2> HIDE DEF C
  <2> QED
    BY <2>2, <2>3, Zenon DEF FiledBy
<1> QED
  BY <1>3, <1>6, <1>7, <1>8 DEF Owed, F, due

\* If the month a quarter's VAT is due in has a business day from the 25th on: after a run,
\* and whatever runs are lost, repeated or overlap and profiles are edited, nothing is missing
\* that falls due in the next eleven months, but for the corporate filing of a fiscal year from
\* December.
THEOREM NothingIsMissing == ASSUME QuarterEndsOpen PROVE Spec => []NoGap
<1>1. Init => NoGap
  BY DEF Init, NoGap
<1>2. ASSUME TypeOK, Clocks, NoGap, [Next]_vars PROVE NoGap'
  <2>1. \A r \in runs : Owed(r, filings)
    BY <1>2, NoGapIsOwed
  <2>2. ASSUME NEW g \in Generators, InsertFilings(g) PROVE \A r \in runs' : Owed(r, filings')
    <3> DEFINE F == FilingsFor(job[g].from, job[g].profile, job[g].cal)
               new == [from |-> job[g].from, profile |-> job[g].profile]
    <3>1. /\ job[g].from \in Nat /\ job[g].from >= 24
          /\ job[g].profile \in Profiles /\ job[g].cal \in SUBSET Holidays
      BY <1>2, <2>2 DEF InsertFilings, Job, TypeOK, Clocks
    <3>2. new \in [from : Nat, profile : Profile] /\ new.from = job[g].from /\ new.profile = job[g].profile
      BY <3>1, ProfilesAssumption
    <3>3. filings' = Inserting(F) /\ runs' = runs \cup {new}
      BY <2>2 DEF InsertFilings
    <3>4. Owed(new, F)
      BY <3>1, <3>2, RunCovers
    <3> HIDE DEF F, new
    <3>5. \A f \in F : \E h \in filings' : SamePeriod(f, h)
      BY <3>3 DEF Inserting, SamePeriod
    <3>6. \A f \in filings : \E h \in filings' : SamePeriod(f, h)
      BY <3>3 DEF Inserting, SamePeriod
    <3>7. Owed(new, filings')
      BY <3>4, <3>5, OwedKept
    <3>8. \A r \in runs : Owed(r, filings')
      BY <2>1, <3>6, OwedKept
    <3> QED
      BY <3>3, <3>7, <3>8
  <2>3. ASSUME NEW f \in filings, Recompute(f) PROVE \A r \in runs' : Owed(r, filings')
    <3>1. filings' = (filings \ {f}) \cup {[f EXCEPT !.status = "drafted"]} /\ runs' = runs
      BY <2>3 DEF Recompute
    <3>2. SamePeriod(f, [f EXCEPT !.status = "drafted"])
      BY <1>2 DEF SamePeriod, TypeOK, FilingRecord
    <3>3. \A h \in filings : \E k \in filings' : SamePeriod(h, k)
      BY <3>1, <3>2 DEF SamePeriod
    <3> QED
      BY <2>1, <3>1, <3>3, OwedKept
  <2>4. \/ filings' = filings /\ runs' = runs
        \/ \E g \in Generators : InsertFilings(g)
        \/ \E f \in filings : Recompute(f)
    BY <1>2 DEF Next, GeneratorStep, vars, NextMonth, SyncHolidays, UpdateProfile, LoadHolidays,
                ReadTenant, Abort
  <2>5. \A r \in runs' : Owed(r, filings')
    BY <2>1, <2>2, <2>3, <2>4, Zenon
  <2>6. NoGap' <=> \A r \in runs' : Owed(r, filings')
    BY Zenon DEF NoGap, Owed, Covered, CoveredBy, FiledFrom, FiledBy
  <2> QED
    BY <2>5, <2>6
<1>3. Spec => [](TypeOK /\ Clocks)
  BY Initially, TypeStep, PTL DEF Spec
<1> QED
  BY <1>1, <1>2, <1>3, PTL DEF Spec
=============================================================================
