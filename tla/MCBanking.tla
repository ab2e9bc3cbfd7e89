------------------------------- MODULE MCBanking -------------------------------
(* An instance of Banking for TLC.                                         *)
EXTENDS Banking, TLC

Deposit == <<"0088", 1>>
Dollars  == <<"0088", 3>>
Euros    == <<"0081", 3>>

MCAtBank == Deposit :> "deposit" @@ Dollars :> "usd" @@ Euros :> "other"
MCBefore == {{}, {Deposit, Dollars}}

Order(op, key) == [op |-> op, key |-> key]
MCOrders ==
  {Order("connect", Deposit), Order("connect", Euros), Order("add", Deposit), Order("add", Euros),
   Order("register", Dollars), Order("discover", Dollars), Order("link", Dollars),
   Order("link", Euros), Order("link", Deposit), Order("deactivate", Dollars)}
  \cup {Order(op, <<Manual, r>>) : op \in {"balance", "deactivate"}, r \in Requests}

\* Two requests race on the first day, before anything is fetched; one may come while a
\* job runs, also over midnight; two jobs race when no request comes and no login expires.
\* A date range in a job's request is one day, and then no other job runs.
Stage ==
  LET arrived == {r \in Requests : pc[r] # "idle"}
      running == {j \in Jobs : job[j] # Idle} IN
  /\ Cardinality(arrived) > 1 => today = 0 /\ latest = Never /\ running = {}
  /\ Cardinality(running) > 1 => arrived = {} /\ expired = {} /\ today <= 1
  /\ (\E j \in Jobs : job[j].explicit) =>
       arrived = {} /\ Cardinality(running) = 1 /\ \A j \in running : job[j].from = job[j].to
  /\ arrived # {} => today = 0 \/ (running # {} /\ today = 1)

MCSymmetry == Permutations(Requests) \cup Permutations(Jobs)
=============================================================================
