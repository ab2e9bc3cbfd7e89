--------------------------- MODULE MCEntryReview ---------------------------
(* Instances of EntryReview for TLC.                                       *)
EXTENDS EntryReview, TLC

Debit(n, a)  == [no |-> n, side |-> "debit", amt |-> a]
Credit(n, a) == [no |-> n, side |-> "credit", amt |-> a]

MCOriginal == Stored({Debit(1, 2), Credit(2, 2)}, None)

MCBodies == {
  {Debit(1, 4), Credit(2, 4)},                \* the numbers of the original lines
  {Debit(3, 6), Credit(4, 6)},                \* other numbers
  {Debit(1, 1), Debit(2, 1), Credit(3, 2)},   \* unbalanced once rounded
  {Debit(1, 2), Credit(2, 4)}}                \* unbalanced

MCSymmetry == Permutations(Requests)
=============================================================================
