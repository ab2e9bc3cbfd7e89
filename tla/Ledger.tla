-------------------------------- MODULE Ledger --------------------------------
(***************************************************************************)
(* The journal as its readers see it: entries with balanced lines on the     *)
(* accounts of the default chart (packages/journal-core seed-accounts.ts),   *)
(* each uncertain, certain or discarded, and the sums over them from which   *)
(* every statement, view and tax draft is made.                              *)
(*                                                                         *)
(* How entries come about is the matter of TxIngestion and EntryReview; here *)
(* they are saved, confirmed and discarded.  A certain entry is posted       *)
(* (EntryReview!PostedIffCertain).  Account codes are numbers, so that the   *)
(* first two digits are a division.  A month has DaysPerMonth days.          *)
(***************************************************************************)
EXTENDS Integers, FiniteSets, FiniteSetsExt, Functions

CONSTANTS
  Bookings,       \* entries that may be saved, records of day and lines
  DaysPerMonth

VARIABLE ledger   \* what has become of each

Status == {"absent", "uncertain", "certain", "discarded"}

Account(type, normal, current) == [type |-> type, normal |-> normal, current |-> current]

\* Of the accounts that no query tells apart the chart has one.
Codes == {1002, 1003, 1004, 1402, 2103, 2601, 3001, 4001, 4101, 4301, 5001, 5101, 5601, 5701}

Chart == [c \in Codes |->
  CASE c \in 1002 .. 1004 -> Account("asset", "debit", "yes")
    [] c = 1402           -> Account("asset", "credit", "no")
    [] c = 2103           -> Account("liability", "debit", "yes")
    [] c = 2601           -> Account("liability", "credit", "no")
    [] c = 3001           -> Account("equity", "credit", "none")
    [] c \in 4001 .. 4301 -> Account("revenue", "credit", "none")
    [] c \in 5001 .. 5701 -> Account("expense", "debit", "none")]

OfType(T) == {c \in Codes : Chart[c].type \in T}

\* The entries B joined with their lines at the accounts C, and the sums over them.
Joined(B, C) == {x \in B \X UNION {b.lines : b \in B} : x[2] \in x[1].lines /\ x[2].account \in C}
Debit(B, C)  == SumFunction([x \in Joined(B, C) |-> x[2].debit])
Credit(B, C) == SumFunction([x \in Joined(B, C) |-> x[2].credit])

\* Lines have one side, and the trigger at COMMIT keeps an entry balanced.
ASSUME BookingsAssumption ==
  /\ DaysPerMonth \in Nat \ {0}
  /\ IsFiniteSet(Bookings)
  /\ \A b \in Bookings :
       /\ b.day \in Nat
       /\ IsFiniteSet(b.lines)
       /\ \A l \in b.lines : l.account \in Codes /\ l.debit \in Nat /\ l.credit \in Nat /\ 0 \in {l.debit, l.credit}
       /\ Debit({b}, Codes) = Credit({b}, Codes)

Month(d) == d \div DaysPerMonth
FirstOf(m) == m * DaysPerMonth
LastOf(m)  == (m + 1) * DaysPerMonth - 1
Year(d)  == Month(d) \div 12

Saved          == {b \in Bookings : ledger[b] # "absent"}
Between(a, z)  == {b \in Saved : b.day \in a .. z}
Held(k, a, z)  == {b \in Between(a, z) : ledger[b] = k}
Posted(a, z)   == Held("certain", a, z)

\* An amount on the side where an account grows.
Natural(B, c) ==
  IF Chart[c].normal = "debit" THEN Debit(B, {c}) - Credit(B, {c}) ELSE Credit(B, {c}) - Debit(B, {c})

InitLedger == ledger = [b \in Bookings |-> "absent"]

Save(b) ==
  /\ ledger[b] = "absent"
  /\ \E k \in {"uncertain", "certain"} : ledger' = [ledger EXCEPT ![b] = k]

Review(b) ==
  /\ ledger[b] = "uncertain"
  /\ \E k \in {"certain", "discarded"} : ledger' = [ledger EXCEPT ![b] = k]
=============================================================================
