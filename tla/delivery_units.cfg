SPECIFICATION FairSpec
CONSTANTS
  Units <- TwoUnits
  linearComments = TRUE
  Faults = {"lost-reply", "rejected", "denied", "abort"}
  MaxFaults = 1
  Interventions = {"merge", "rewrite"}
  MaxInterventions = 2
  MaxRetries = 0
  Policies <- OnePolicy
  Reports <- SomeReports
INVARIANTS CompletedIsDelivered
PROPERTIES DeliverySettles
CHECK_DEADLOCK FALSE
