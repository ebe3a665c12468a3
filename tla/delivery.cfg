SPECIFICATION Spec
CONSTANTS
  Units <- OneUnit
  linearComments = TRUE
  Faults = {"unavailable", "lost-reply", "crash"}
  MaxFaults = 2
  Interventions = {"advance", "rewrite", "restore", "delete", "open", "close", "reopen", "retarget", "merge"}
  MaxInterventions = 2
  MaxRetries = 1
  Policies <- SomePolicies
  Reports <- SomeReports
INVARIANTS TypeOK OnePullRequest OneComment WaitingIsAnnounced
PROPERTIES ImplementsPromise
CHECK_DEADLOCK FALSE
