--------------------------------- MODULE Books ---------------------------------
(***************************************************************************)
(* What is made of a tenant's journal: the statements and views of the       *)
(* journal API (Statements), the financial statement the strategy agent      *)
(* gets as its context, the draft of a filing, and the penalties and         *)
(* benefits that are told from these (TaxRules).                             *)
(***************************************************************************)
EXTENDS Statements, TaxRules

CONSTANTS
  FilingPeriod,  \* first and last day of the filing drafted
  Today,         \* the day the agent is asked
  LateDays,      \* bound: days and months a penalty is computed for
  Profiles       \* companies whose benefits are asked for

\* A filing is of whole months; here they are among those of the trend.
ASSUME BooksAssumption ==
  /\ Today \in Nat
  /\ \E i, j \in Month(Today) - 11 .. Month(Today) : FilingPeriod = <<FirstOf(i), LastOf(j)>>
  /\ LateDays \subseteq Nat
  /\ Profiles \subseteq
       [industry : Nat, years : Nat, youth : BOOLEAN, region : STRING,
        revenue : Nat,   \* of the year before
        rnd : Nat]       \* R&D expense the agent tells the tool

booksVars == <<ledger, ask, parts, told>>
---------------------------------------------------------------------------
(* loadFinancialStatement.  Revenue and the like are amounts of one side.   *)

\* Accounts that were used, with the amounts of the entries B.
StatementRow(B, C) ==
  [c \in {c \in C : Debit(B, {c}) + Credit(B, {c}) > 0} |-> Natural(B, c)]

\* Lines are joined first and entries, with their period and status, only to the right of
\* them: lines of every day and status are summed.
loadIncomeStatement(from, to) == StatementRow(Saved, OfType({"revenue", "expense"}))
loadBalanceSheet(asOf) == StatementRow(Saved, OfType({"asset", "liability", "equity"}))

InRange(lo, hi) == Codes \cap (lo .. hi)

\* Deviation: the costs of sales end at 5000.
OneCostOfSales == InRange(5000, 5000)
CostsOfSales == InRange(5000, 5099)

\* Net income of a month, by code ranges and posted entries.
TrendRow(m) ==
  LET B == Posted(FirstOf(m), LastOf(m))
      Earned(C) == Credit(B, C) - Debit(B, C)
  IN Earned(InRange(4000, 4999)) + Earned(CostsOfSales) + Earned(InRange(5100, 5999))

loadMonthlyTrend(asOf) == [m \in Month(asOf) - 11 .. Month(asOf) |-> TrendRow(m)]

\* VAT of the two last quarters, by accounts the default chart does not have.
VatQuarter(q) ==
  LET B == Posted(FirstOf(3 * q), LastOf(3 * q + 2))
  IN Credit(B, InRange(2551, 2551)) - Debit(B, InRange(2551, 2551))
       - (Debit(B, InRange(1351, 1351)) - Credit(B, InRange(1351, 1351)))
loadVatQuarters(asOf) == [q \in {Month(asOf) \div 3 - 1, Month(asOf) \div 3} |-> VatQuarter(q)]

loadFinancialStatement(asOf) ==
  LET first == FirstOf(12 * Year(asOf)) IN
  [ytd      |-> loadIncomeStatement(first, asOf),
   lastYear |-> loadIncomeStatement(FirstOf(12 * (Year(asOf) - 1)), first - 1),
   sheet    |-> loadBalanceSheet(asOf),
   trend    |-> loadMonthlyTrend(asOf),
   vat      |-> loadVatQuarters(asOf)]
---------------------------------------------------------------------------
(* Drafts of filings.  Their sums ask for no status of an entry.            *)

ByPrefix(P) == {c \in Codes : c \div 100 \in P}

\* Credit less debit.
Yield(B, C) == Credit(B, C) - Debit(B, C)

buildVatBoxes(B) ==
  LET outputVat == Round(Max({0, Yield(B, ByPrefix({41, 42}))}), 10)
      inputVat  == Round(Max({0, -Yield(B, ByPrefix(51 .. 56))}), 10)
  IN Max({0, outputVat - inputVat})

buildCorpFinalBoxes(B) == Max({0, Yield(B, ByPrefix(40 .. 49)) + Yield(B, ByPrefix(50 .. 59))})

\* What a recompute stores in the filing (Filings!Recompute) and what asking for the draft
\* shows without storing it.
Boxes ==
  LET B == Between(FilingPeriod[1], FilingPeriod[2])
  IN [taxable |-> buildCorpFinalBoxes(B), vatPayable |-> buildVatBoxes(B)]

---------------------------------------------------------------------------
BooksInit == InitLedger /\ InitStatements

Journal == (\E b \in Bookings : Save(b) \/ Review(b)) /\ UNCHANGED <<ask, parts, told>>
Statement ==
  (Ask \/ RunQuery \/ Build) /\ UNCHANGED ledger

BooksNext == Journal \/ Statement
BooksSpec == BooksInit /\ [][BooksNext]_booksVars
---------------------------------------------------------------------------
(* Properties.                                                             *)

\* The books are looked at while no statement is being built.
Idle == ask = Nothing /\ told = Nothing

\* What a query of a statement may return.
Returned(kind, p) ==
  LET Amount == [Split -> Int] IN
  CASE p = "count"                -> Nat
    [] p \in {"opening", "closing"} -> Amount
    [] p = "rows"                 ->
         CASE kind \in {"pnl", "cash_flow"} -> [OfType({"revenue", "expense"}) -> Amount]
           [] kind = "balance_sheet" -> [OfType({"asset", "liability", "equity"}) -> Amount]
           [] kind = "trial_balance" -> [Codes -> [debit : Amount, credit : Amount]]

\* Every variable has its type, and a statement the answers of its first queries.
BooksTypeOK ==
  /\ ledger \in [Bookings -> Status]
  /\ ask = Nothing => parts = NoParts
  /\ ask # Nothing =>
       /\ ask \in [kind : Kinds, from : {p[1] : p \in Periods}, to : {p[2] : p \in Periods}]
       /\ Len(parts) \in 0 .. Len(Parts(ask.kind))
       /\ parts = [i \in 1 .. Len(parts) |-> parts[i]]
       /\ \A i \in 1 .. Len(parts) : parts[i] \in Returned(ask.kind, Parts(ask.kind)[i])
  /\ told = Nothing \/ told \in [kind : Kinds, refused : BOOLEAN, confirmed : BOOLEAN]

\* What a trial balance has seen of the books, at whatever moment, is of whole entries.
SeenWhole ==
  ask # Nothing /\ ask.kind = "trial_balance" /\ parts # NoParts => TrialGap(parts[1])["certain"] = 0

\* However entries are saved and reviewed between the queries of a statement, its builder
\* never throws: both sides of a trial balance are one query over whole entries, and a cash
\* flow puts down to the working capital whatever its queries saw.
NeverRefused == told # Nothing /\ told.refused => told.kind = "balance_sheet"

\* Nothing is booked on an account whose normal side is not that of its kind, nor as a
\* loss outside the operation.
Plain == \A b \in Saved : \A l \in b.lines : l.account \notin {1402, 2103, 5701}

\* The balance sheet has no line for the income of the period: what it is short of is just
\* the net income of the income statement since the first entry, so that books with a
\* certain profit or loss get no balance sheet.
SheetLacksIncome ==
  Idle /\ Plain => \A p \in Periods :
             Gap(BalanceSheetAggregates(p[2])) = buildIncomeStatement(PnlAggregates(0, p[2]))

\* Profits are the same, however they are computed: by account types for the dashboard, by
\* code ranges for the trend, by balances for the gallery if nothing was posted before the
\* trend, and by prefixes for the corporate filing once no entry is uncertain or discarded.
ProfitsAgree ==
  Idle =>
    LET trend  == loadMonthlyTrend(Today)
        Over(M) == SumFunctionOnSet(trend, M)
        Sums(C) == SumFunction([c \in C |-> AccountBalances[c]["certain"]])
        Filed  == {m \in DOMAIN trend : FirstOf(m) >= FilingPeriod[1] /\ LastOf(m) <= FilingPeriod[2]}
    IN /\ \A m \in DOMAIN trend :
            trend[m] = MonthlySummary(m).income["certain"] - MonthlySummary(m).expense["certain"]
       /\ (\A b \in Saved : Month(b.day) \in DOMAIN trend) =>
            Over(DOMAIN trend) = Sums(OfType({"revenue"})) - Sums(OfType({"expense"}))
       /\ (\A b \in Saved : ledger[b] = "certain") => Boxes.taxable = Max({0, Over(Filed)})

\* What the agent's tool tells of an amount declared n months late, of 30 days each.
ScenarioAfter(n, type, amount) == ComputePenaltyScenario(type, amount, 30 * n, n)
PenaltyTypes == {"non_filing", "under_report", "under_report_fraud"}

\* To wait longer never makes a penalty smaller: neither by the simulation, which tells it
\* from the filing's draft, whatever the days, nor by the agent's tool, over all its steps of
\* reduction and past the last one.  One case is left out: the tool reduces nothing while no
\* month has gone by, and so tells more after none than after 1 to 24 months.
LaterCostsMore ==
  Idle =>
    LET draft == Boxes IN
    \A d, e \in LateDays : d <= e =>
      /\ PenaltySimulation(draft.vatPayable, d) <= PenaltySimulation(draft.vatPayable, e)
      /\ d > 0 \/ e > 24 =>
           \A type \in PenaltyTypes :
             ScenarioAfter(d, type, draft.taxable) <= ScenarioAfter(e, type, draft.taxable)

\* The same of the tool without the case left out, which violates it; no run checks it.
WaitingNeverPays ==
  Idle =>
    \A d, e \in LateDays : d <= e =>
      \A type \in PenaltyTypes :
        ScenarioAfter(d, type, Boxes.taxable) <= ScenarioAfter(e, type, Boxes.taxable)

\* The revenue of the year, as the agent reads it in the financial statement.
RevenueRead ==
  LET ytd == loadFinancialStatement(Today).ytd
  IN SumFunctionOnSet(ytd, DOMAIN ytd \cap OfType({"revenue"}))

\* A company as the agent tells its tool of it.
AsTold(p) ==
  [youth |-> p.youth, years |-> p.years, revenue |-> RevenueRead, rnd |-> p.rnd, hired |-> 0,
   tier |-> IF p.region = "NON_METRO" THEN "non_capital" ELSE "capital"]

\* The rule engine and the agent's tool, which share no line, give one company different
\* verdicts on one benefit for these reasons only.  The tool grants what the rules refuse
\* since it asks neither the region nor the trade, nor the revenue of the year before; it
\* refuses what the rules grant when the revenue has grown past its own, higher limit, or when
\* there is no R&D expense, which the rules do not ask.
VerdictsDifferForCause ==
  Idle => \A p \in Profiles :
    LET ctx == AsTold(p)
        Tool(code) == CheckBenefit(code, ctx).eligible
        youth == evaluateYouthFounderBenefit(p).eligible
        sme   == evaluateSmeSpecialDeduction(p).eligible
        rnd   == evaluateRndTaxCredit(p).eligible
    IN /\ youth => Tool("youth_founder_5y")
       /\ Tool("youth_founder_5y") /\ ~youth => p.region \notin NonMetro \/ p.industry \notin Technology
       /\ sme /\ ~Tool("sme_special_reduction") => ctx.revenue > SME_REVENUE_CAP
       /\ Tool("sme_special_reduction") /\ ~sme => ~Small(p) \/ p.industry \notin Trades
       /\ rnd /\ ~Tool("rnd_credit") => p.rnd = 0
       /\ Tool("rnd_credit") /\ ~rnd => ~Small(p) \/ p.industry \notin Technology \cup {21}

\* The income statement of the year to date is that of the entries posted in it.
YearToDate ==
  loadFinancialStatement(Today).ytd
    = StatementRow(Posted(FirstOf(12 * Year(Today)), Today), OfType({"revenue", "expense"}))
=============================================================================
