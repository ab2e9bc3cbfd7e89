------------------------------ MODULE Statements ------------------------------
(***************************************************************************)
(* The reports and views of the journal API (apps/journal build-reports,     *)
(* pg-reports.repository.ts, pg-views.repository.ts, packages/reports-core). *)
(*                                                                         *)
(* A statement is built from several queries, each a transaction of its own. *)
(* They are started together (Promise.all), but the pool has one connection  *)
(* and serves them in turn: entries may be saved and reviewed between them.  *)
(* Every amount is split into what is certain and what is not; the third     *)
(* column, their sum, is left out, as are the lists of line items, of which  *)
(* only the subtotals matter here.                                           *)
(***************************************************************************)
EXTENDS Ledger, Sequences

CONSTANTS
  Periods,   \* pairs of days a statement is asked for
  Nothing

VARIABLES
  ask,       \* the statement being built: [kind, from, to] or Nothing
  parts,     \* what its queries have returned
  told       \* the last one answered: [kind, refused, confirmed] or Nothing

Split == {"certain", "uncertain"}

Plus(x, y)  == [k \in Split |-> x[k] + y[k]]
Minus(x, y) == [k \in Split |-> x[k] - y[k]]

\* Amounts of the accounts C by rows.
Totals(rows, C) == [k \in Split |-> SumFunction([c \in C |-> rows[c][k]])]

Amounts(C, a, z) == [c \in C |-> [k \in Split |-> Natural(Held(k, a, z), c)]]
---------------------------------------------------------------------------
(* Queries.                                                                *)

PnlAggregates(from, to) == Amounts(OfType({"revenue", "expense"}), from, to)

BalanceSheetAggregates(asOf) == Amounts(OfType({"asset", "liability", "equity"}), 0, asOf)

\* Deviation: the accounts of the balance sheet only.
TrialOfBalances(asOf) ==
  [c \in OfType({"asset", "liability", "equity"}) |->
     [debit  |-> [k \in Split |-> Debit(Held(k, 0, asOf), {c})],
      credit |-> [k \in Split |-> Credit(Held(k, 0, asOf), {c})]]]

TrialBalanceAggregates(asOf) ==
  [c \in Codes |->
     [debit  |-> [k \in Split |-> Debit(Held(k, 0, asOf), {c})],
      credit |-> [k \in Split |-> Credit(Held(k, 0, asOf), {c})]]]

CashAccounts == 1001 .. 1004

CashSnapshot(asOf) ==
  LET C == CashAccounts \cap Codes IN Totals(Amounts(C, 0, asOf), C)

CountUncertain == Cardinality({b \in Saved : ledger[b] = "uncertain"})
---------------------------------------------------------------------------
(* Builders.                                                               *)

EPSILON == 1
Off(n)  == n > EPSILON \/ n < -EPSILON

classifyPnlRow(c) ==
  IF Chart[c].type = "revenue" THEN "revenue"
  ELSE CASE c = 5601 -> "income_tax"
         [] c = 5001 -> "cogs"
         [] c \div 100 \in {41, 42, 43, 57, 58} -> "non_operating"
         [] OTHER -> "operating_expense"

OfKind(rows, kinds) == Totals(rows, {c \in DOMAIN rows : classifyPnlRow(c) \in kinds})

\* Deviation: the income tax is not taken off.
BeforeTax(rows) ==
  LET costs == OfKind(rows, {"cogs", "operating_expense"})
  IN Plus(Minus(OfKind(rows, {"revenue"}), costs), OfKind(rows, {"non_operating"}))

buildIncomeStatement(rows) ==
  LET grossProfit     == Minus(OfKind(rows, {"revenue"}), OfKind(rows, {"cogs"}))
      operatingIncome == Minus(grossProfit, OfKind(rows, {"operating_expense"}))
      beforeTax       == Plus(operatingIncome, OfKind(rows, {"non_operating"}))
  IN Minus(beforeTax, OfKind(rows, {"income_tax"}))

Section(rows, type, current) ==
  Totals(rows, {c \in DOMAIN rows : Chart[c].type = type /\ Chart[c].current \in current})

\* By how much assets exceed liabilities and equity.
Gap(rows) ==
  LET assets == Plus(Section(rows, "asset", {"yes"}), Section(rows, "asset", {"no"}))
      debts  == Plus(Section(rows, "liability", {"yes"}), Section(rows, "liability", {"no"}))
      equity == Section(rows, "equity", {"yes", "no", "none"})
  IN Minus(assets, Plus(debts, equity))

TrialGap(rows) ==
  [k \in Split |-> SumFunction([c \in DOMAIN rows |-> rows[c].debit[k] - rows[c].credit[k]])]

\* What the change of cash has beside the income is the change of the working capital.
WcDelta(opening, closing, netIncome) == Minus(Minus(closing, opening), netIncome)

\* There are no flows of investment and financing.
CashGap(opening, closing, netIncome) ==
  LET netChange == Plus(netIncome, WcDelta(opening, closing, netIncome))
  IN Minus(Plus(opening, netChange), closing)
---------------------------------------------------------------------------
(* A statement is asked for.                                               *)

\* Its queries, in turn.
Parts(kind) == IF kind = "cash_flow" THEN <<"rows", "opening", "closing", "count">> ELSE <<"rows", "count">>
Kinds == {"pnl", "balance_sheet", "trial_balance", "cash_flow"}
NoParts == << >>

InitStatements == ask = Nothing /\ parts = NoParts /\ told = Nothing

Ask ==
  /\ ask = Nothing
  /\ \E kind \in Kinds, p \in Periods : ask' = [kind |-> kind, from |-> p[1], to |-> p[2]]
  /\ told' = Nothing
  /\ UNCHANGED parts

Query(p) ==
  CASE p = "count"   -> CountUncertain
    [] p = "opening" -> CashSnapshot(ask.from - 1)
    [] p = "closing" -> CashSnapshot(ask.to)
    [] p = "rows"    -> CASE ask.kind \in {"pnl", "cash_flow"} -> PnlAggregates(ask.from, ask.to)
                          [] ask.kind = "balance_sheet" -> BalanceSheetAggregates(ask.to)
                          [] OTHER -> TrialBalanceAggregates(ask.to)

RunQuery ==
  /\ ask # Nothing /\ Len(parts) < Len(Parts(ask.kind))
  /\ parts' = Append(parts, Query(Parts(ask.kind)[Len(parts) + 1]))
  /\ UNCHANGED <<ask, told>>

\* What a query has returned.
Part(p) == parts[CHOOSE i \in DOMAIN parts : Parts(ask.kind)[i] = p]

Difference ==
  CASE ask.kind = "pnl" -> 0
    [] ask.kind = "balance_sheet" -> Gap(Part("rows"))["certain"]
    [] ask.kind = "trial_balance" -> TrialGap(Part("rows"))["certain"]
    [] OTHER -> CashGap(Part("opening"), Part("closing"), buildIncomeStatement(Part("rows")))["certain"]

\* A builder that finds the certain amounts apart throws.
Build ==
  /\ ask # Nothing /\ Len(parts) = Len(Parts(ask.kind))
  /\ told' = [kind |-> ask.kind, refused |-> Off(Difference), confirmed |-> Part("count") = 0]
  /\ ask' = Nothing /\ parts' = NoParts
---------------------------------------------------------------------------
(* Views of the dashboard, each one query.                                 *)

\* Accounts that make the income of a month.
Earning(m) == OfType({"revenue"})

MonthlySummary(m) ==
  LET C    == Earning(m)
      E    == OfType({"expense"})
      Cash == (1001 .. 1003) \cap Codes
      Past(k) == Held(k, FirstOf(m - 3), FirstOf(m) - 1)
      On(k)   == Held(k, FirstOf(m), LastOf(m))
  IN [income   |-> [k \in Split |-> Credit(On(k), C) - Debit(On(k), C)],
      expense  |-> [k \in Split |-> Debit(On(k), E) - Credit(On(k), E)],
      cash     |-> Totals(Amounts(Cash, 0, LastOf(m)), Cash),
      \* three times the forecast of the next month
      forecast |-> [k \in Split |-> Max({0, Credit(Past(k), OfType({"revenue"})) - Debit(Past(k), OfType({"revenue"}))})]]

\* The gallery of accounts: everything ever booked.
AccountBalances == [c \in Codes |-> [k \in Split |-> Natural({b \in Saved : ledger[b] = k}, c)]]
=============================================================================
