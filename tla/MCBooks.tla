------------------------------- MODULE MCBooks -------------------------------
EXTENDS Books

Line(account, debit, credit) == [account |-> account, debit |-> debit, credit |-> credit]
Moved(day, to, from, amount) == [day |-> day, lines |-> {Line(to, amount, 0), Line(from, 0, amount)}]

\* Two days a month; December is the twelfth month of year 0: days 22 and 23.  What is booked
\* in December takes the revenue past the tool's limit, and the amounts of January are such
\* that no step of a penalty is rounded away.
MCBookings ==
  {Moved(22, 1002, 4001, 900000),
   [day |-> 24, lines |-> {Line(1004, 4500, 0), Line(5601, 500, 0), Line(4101, 0, 5000)}],
   Moved(25, 5001, 2601, 7),
   Moved(25, 5701, 1402, 5)}

MCPeriods == {<<22, 23>>, <<24, 25>>}
MCFilingPeriod == <<24, 25>>
MCLateDays == {0, 1, 2, 3, 4, 6, 7, 12, 13, 24, 25, 30, 31, 90, 91, 180, 181}

MCProfiles ==
  [industry : {15, 62, 99}, years : {0, 5, 6}, youth : BOOLEAN,
   region : {"NON_METRO", "METRO_NON_OVERCROWDED", "METRO"},
   revenue : {0, 50000, 50001}, rnd : {0, 1}]
==============================================================================
