SPECIFICATION FairSpec
CONSTANTS
  m1 = m1
  z1 = z1
  h1 = h1
  h2 = h2
  r1 = r1
  Payments <- MCPayments
  MoMo <- MCMoMo
  Handlers <- MCHandlers
  Readers <- MCReaders
  Nobody = Nobody
  Days <- MCDays
  MaxFaults = 1
  MaxClock = 2
INVARIANTS CreditedOnce PlanFollowsSubscription
PROPERTIES PaidStays ActivationExtends PaymentActivates
CHECK_DEADLOCK FALSE
