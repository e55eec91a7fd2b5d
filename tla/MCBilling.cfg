\* A subscription paid twice and a one-time purchase, one plan on sale; one late answer, stop or new year.
\* With everything bought and handled, nothing is left to do.
SPECIFICATION FairSpec
CONSTANTS
  u1 = u1  u2 = u2  monthly = monthly  once = once
  c1 = c1  c2 = c2  p1 = p1  p2 = p2
  Users = {u1, u2}
  Plans = {monthly, once}
  OneTimePlans = {once}
  Checkouts = {c1, c2}
  BuyerOf <- MCBuyerOf
  PlanOf <- MCPlanOf
  Payments = {p1, p2}
  CheckoutOf <- MCCheckoutOf
  Tries = {1, 2}
  MaxPlans = 1
  MaxFaults = 1
INVARIANTS BillingInv BilledOnce
PROPERTIES PaidHonoured
CHECK_DEADLOCK FALSE
