------------------------------- MODULE TaxRules -------------------------------
(***************************************************************************)
(* Penalties and benefits as they are computed: by packages/tax-core and by  *)
(* the tools of the strategy agent (apps/tax/src/application/tools), two     *)
(* implementations that do not share a line.  Pure operators.                *)
(*                                                                         *)
(* Rates are whole percents or hundred-thousandths, ages whole years, and an *)
(* industry is the first two digits of its code.  Floating-point error is    *)
(* left out.  The reasons, texts and laws in the results are left out, too.  *)
(* What is missing is 0, and an unknown age above all others: each rule takes *)
(* them for the same.                                                       *)
(***************************************************************************)
EXTENDS Integers, FiniteSets, FiniteSetsExt

\* Math.round of n / d: halves go up.
Round(n, d) == (2 * n + d) \div (2 * d)

\* Deviation: the limit compared the wrong way round.
StepReached(table, n) == LET past == {s \in table : n >= s.within} IN
  IF past = {} THEN 0 ELSE (CHOOSE s \in past : \A t \in past : s.within <= t.within).rate
\* A table of steps, looked up from the top: the first whose limit is not exceeded, or 0.
FirstStep(table, n) == LET open == {s \in table : n <= s.within} IN
  IF open = {} THEN 0 ELSE (CHOOSE s \in open : \A t \in open : s.within <= t.within).rate

Step(within, rate) == [within |-> within, rate |-> rate]
---------------------------------------------------------------------------
(* compute_penalty_scenario.                                               *)

baseFilingRate(type) ==
  CASE type = "non_filing" -> 20 [] type = "under_report_fraud" -> 40 [] OTHER -> 10

VOLUNTARY_AMENDMENT_DISCOUNT == {Step(1, 90), Step(3, 75), Step(6, 50), Step(12, 30), Step(24, 20)}

lookupVoluntaryDiscount(months) ==
  IF months <= 0 THEN 0 ELSE FirstStep(VOLUNTARY_AMENDMENT_DISCOUNT, months)

ComputePenaltyScenario(type, underpaid, daysLate, months) ==
  Round(underpaid * baseFilingRate(type) * (100 - lookupVoluntaryDiscount(months)), 10000)
    + Round(underpaid * 22 * daysLate, 100000)
---------------------------------------------------------------------------
(* computePenalty, and the simulation of GET /filings/{id}/penalty.         *)

resolveReduction(amendment, daysLate) ==
  CASE amendment = "LATE_FILING"    -> FirstStep({Step(30, 50), Step(90, 30), Step(180, 20)}, daysLate)
    [] amendment = "AMENDED_FILING" -> FirstStep({Step(180, 90), Step(365, 75)}, daysLate)
    [] OTHER -> 0

\* What is owed.
computePenalty(kind, base, rate, daysLate, amendment) ==
  LET gross == IF kind \in {"LATE_PAYMENT", "WITHHOLDING_LATE_PAYMENT"} THEN base * rate * daysLate
                                                                       ELSE base * rate
  IN Round(gross * (100 - resolveReduction(amendment, daysLate)), 10000000)

\* With the rates of tax_rule as seeded, which are also the defaults.
PenaltySimulation(base, daysLate) ==
  IF daysLate = 0 \/ base <= 0 THEN 0
  ELSE computePenalty("LATE_PAYMENT", base, 22, daysLate, "none")
         + computePenalty("UNREPORTED", base, 20000, daysLate, "LATE_FILING")
---------------------------------------------------------------------------
(* check_benefit_eligibility.  A reduction is in ten-thousandths of the unit *)
(* of amounts (100,000 won).                                                *)

Ruled(eligible, reduction) ==
  [eligible |-> eligible, reduction |-> IF eligible THEN reduction ELSE 0]

SME_REVENUE_CAP == 800000

\* Deviation: the window is over in its fifth year.
WindowClosed(years) == years >= 5
WindowOver(years)   == years > 5

checkYouthFounder(ctx) ==
  Ruled(ctx.youth /\ ~WindowOver(ctx.years),
        Max({0, ctx.revenue}) * (IF ctx.tier \in {"non_capital", "special"} THEN 100 ELSE 50))

CheckBenefit(code, ctx) ==
  CASE code = "youth_founder_5y"      -> checkYouthFounder(ctx)
    [] code = "sme_special_reduction" -> Ruled(ctx.revenue <= SME_REVENUE_CAP, 0)
    [] code = "rnd_credit"            -> Ruled(ctx.rnd > 0, ctx.rnd * 2500)
    [] code = "integrated_investment_credit" -> Ruled(ctx.revenue > 0, 0)
    [] code = "employment_increase_credit"   -> Ruled(ctx.hired > 0, ctx.hired * 1300000)
    [] code = "social_insurance_subsidy"     -> Ruled(ctx.hired > 0, ctx.hired * 120000)
---------------------------------------------------------------------------
(* The rules of packages/tax-core/src/benefits, which no handler calls yet.  *)

REVENUE_CEILING == 50000
NonMetro   == {"NON_METRO", "METRO_NON_OVERCROWDED"}
Technology == 26 .. 30 \cup 58 .. 63 \cup 70 .. 72
Trades     == 10 .. 33 \cup 49 .. 52 \cup 58 .. 63 \cup 70 .. 74

Candidate(eligible, rate, years) == [eligible |-> eligible, rate |-> rate, years |-> years]

Small(p) == p.revenue > 0 /\ p.revenue <= REVENUE_CEILING

evaluateYouthFounderBenefit(p) ==
  Candidate(/\ p.years <= 5
            /\ p.youth
            /\ p.region \in NonMetro
            /\ p.industry \in Technology,
            IF p.region \in NonMetro THEN 100 ELSE 50, 5)

\* For the income tax of sole proprietors, by the same conditions.
evaluateIntegratedIncomeYouthFounder(p) == evaluateYouthFounderBenefit(p)

evaluateSmeSpecialDeduction(p) ==
  LET manufacturing == p.industry \in 10 .. 33
      away          == p.region \in NonMetro
  IN Candidate(Small(p) /\ p.industry \in Trades,
               IF away /\ manufacturing THEN 30 ELSE IF away \/ manufacturing THEN 20 ELSE 10, 999)

evaluateRndTaxCredit(p) == Candidate(Small(p) /\ p.industry \in Technology \cup {21}, 25, 999)

Candidates(personal, p) ==
  IF personal THEN {evaluateIntegratedIncomeYouthFounder(p)}
  ELSE {evaluateYouthFounderBenefit(p), evaluateSmeSpecialDeduction(p), evaluateRndTaxCredit(p)}

estimateAnnualSavings(priorTax, c) ==
  IF c.eligible /\ priorTax > 0 THEN Round(priorTax * c.rate, 100) ELSE 0

\* Over the years of the benefit, five when it has no end.
EstimatedSavings(priorTax, c) ==
  estimateAnnualSavings(priorTax, c) * (IF c.years >= 100 THEN 5 ELSE c.years)
=============================================================================
