----------------------------- MODULE MCFilings -----------------------------
(* Instances of Filings for TLC.                                           *)
EXTENDS Filings, TLC

Tenant(business, tax, cadence, prepay, fiscal) ==
  [business |-> business, tax |-> tax, cadence |-> cadence, prepay |-> prepay, fiscal |-> fiscal]

\* One of each kind.  The corporation whose fiscal year starts in January, by default, may
\* change it, its cadence and its VAT regime.
MCProfiles ==
  {Tenant("personal", "general", "MONTHLY", FALSE, 1),
   Tenant("sole_proprietor", "tax_exempt", "SEMIANNUAL", FALSE, 1),
   Tenant("corporate", "tax_exempt", "SEMIANNUAL", FALSE, 4),
   Tenant("corporate", "general", "SEMIANNUAL", FALSE, 1),
   Tenant("corporate", "general", "MONTHLY", TRUE, 12)}

MCSymmetry == Permutations(Generators)

\* A run of December 2025 and one of January 2026.
MCStart == {Month(2025, 12)}

\* The first quarter's VAT is due on a Saturday; the Monday is a holiday, announced or not.
MCAdHoc == {Day(Month(2026, 4), 27)}
=============================================================================
