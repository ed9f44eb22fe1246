SPECIFICATION FairSpec
CONSTANTS
  r1 = r1
  r2 = r2
  Requests = {r1, r2}
  Wraps = 1
  Raised = {"notFound"}
  Written = {201}
  Partial = {1, 2}
  Chains <- AllChains
  Arrivals <- AllArrivals
CHECK_DEADLOCK FALSE
INVARIANTS
  TypeOK
  InflightExact
  CountedOnce
  AnswersAgree
  ErrorsAnswered
PROPERTIES
  Finishes
