\* Three warehouses are what the seed creates; quantities up to 4 cover a
\* line served by one, two and three of them, exactly and with some left.
CONSTANTS
  Warehouses = {1, 2, 3}
  Products = {1, 2}
  MaxAvailable = 3
  MaxQty = 4
  MaxLines = 3
  MaxBase = 40
  Values <- RuleValues
  Rates <- SomeRates
  MaxRules = 3
\* Windows of two seconds, time in quarters of one.
  Limit = 2
  Window = 2
  Second = 4
  MaxRequests = 5
  Horizon = 12
\* Two runners that overlap or follow each other; a service that waits for
\* another, one of them with a job and the other with a deadline.
  Runners = {migrator, byhand}
  Seeders = {migrator}
  Migrator = migrator
  Files = 2
  Tables = {products, customers}
  MaxRuns = 2
  MaxFaults = 1
  Services = {"catalog", "orders"}
  MaxInFlight = 1
\* Two calls at once and room for one that was left behind.
  Slots = {s1, s2, s3}
  Retries = 2
  MaxTrouble = 2
  Parallel = 2
  ClientTries = 2
  MaxFires = 2
\* One reader, whose loader a change may overtake, and two writers.
  ReadHandlers = {r1}
  MaxMissed = 1
  MaxOwed = 2
SPECIFICATION Spec
INVARIANTS
  AllocationIsRight
  PricingIsRight
  LimiterBounds
  DatabaseIsWhole
  NothingStartsTooEarly
  AnswersAreHonest
  LeftoverRulesAreAlerted
  CallsBelongToTheirRun
  ReadsAreExcused
PROPERTIES
  TransitionsComplete
  ScenariosEnd
\* A function returns once, a deployment stands when it is up, and the timers
\* of the instance go off a bounded number of times.
CHECK_DEADLOCK FALSE
