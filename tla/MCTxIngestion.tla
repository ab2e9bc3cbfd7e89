--------------------------- MODULE MCTxIngestion ---------------------------
(* Instances of TxIngestion for TLC.                                       *)
EXTENDS TxIngestion, TLC

CONSTANTS krw, krw2, fx, k1, k2, x1

\* Two KRW rows, without and with an FX row.
MCKrwRows == {<<krw, k1>>, <<krw, k2>>}
MCRows    == {<<krw, k1>>, <<krw, k2>>, <<fx, x1>>}
\* Two KRW accounts of one tenant whose statements hold rows with equal
\* date, time, amounts and balance: codef-bank.client gives them one external_id.
MCTwins   == {<<krw, k1>>, <<krw2, k1>>}

MCSymmetry == Permutations(Workers) \cup Permutations({k1, k2})
=============================================================================
