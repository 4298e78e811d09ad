SPECIFICATION Spec
CONSTANTS
  Small = Small
  Large = Large
  Battery = {Small, Large}
  ChargeRate <- Rates
  DischargeRate <- Rates
  Baselines <- Days
  TInc = 2
  ManageEvery = 2
  Err = 1
  MaxVBload = 3
  MaxPower = 9
  MaxTime = 5
INVARIANTS
  TypeOK
  RatesKept
  RecordAgrees
  BalancedOrStuck
  PlanIsAhead
  PlanBalances
