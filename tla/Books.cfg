SPECIFICATION BooksSpec
CONSTANTS
  Bookings <- MCBookings
  DaysPerMonth = 2
  Periods <- MCPeriods
  FilingPeriod <- MCFilingPeriod
  Today = 25
  LateDays <- MCLateDays
  Profiles <- MCProfiles
  Nothing = Nothing
INVARIANTS NeverRefused SheetLacksIncome ProfitsAgree LaterCostsMore 
