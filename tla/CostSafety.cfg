SPECIFICATION CostSpec
CONSTANTS
  Agents = {a1, a2, a3}
  DayLimit = 3
  HourLimit = 2
  MaxCost = 2
  LastDay = 2
INVARIANTS
  DailyOverrun
  FlagTrue
