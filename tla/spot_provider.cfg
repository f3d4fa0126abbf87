SPECIFICATION FairSpec
CONSTANTS
  HoursPerDay = 3
  DaysPerWeek = 2
  Dates = 4
  Specs <- ModelSpecs
  Horizon = 5
  Fallback = 2
  MaxEvents = 2
INVARIANTS PublishedInTime NextIsFirst
PROPERTY ComesToRest
