-------------------------- MODULE JournalContract --------------------------
(***************************************************************************)
(* What the ingestion pipeline promises about the rows of one tenant,      *)
(* whoever fetches and classifies them: a row is stored once, is settled   *)
(* (dispatched_at) at most once, and a KRW row gets at most one journal    *)
(* entry, together with which it is settled.  FX rows get none.            *)
(***************************************************************************)
EXTENDS Naturals

CONSTANTS Keys, Krw   \* every row, and those of KRW accounts

VARIABLES stored, settled, journal

cvars == <<stored, settled, journal>>

Init == stored = {} /\ settled = {} /\ journal = [k \in Keys |-> 0]

\* One account's new rows appear together.
Store == /\ \E S \in SUBSET (Keys \ stored) : stored' = stored \cup S
         /\ UNCHANGED <<settled, journal>>

\* A run hands rows over, to the queue or to nobody (FX).
Settle == /\ \E S \in SUBSET stored : settled' = settled \cup S
          /\ UNCHANGED <<stored, journal>>

Journal(k) == /\ k \in stored /\ journal[k] = 0
              /\ journal' = [journal EXCEPT ![k] = 1]
              /\ settled' = settled \cup {k}
              /\ UNCHANGED stored

Next == Store \/ Settle \/ \E k \in Krw : Journal(k)

Spec == Init /\ [][Next]_cvars
=============================================================================
