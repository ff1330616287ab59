SPECIFICATION FairSpec
CONSTANTS
  Kinds = {"trigger", "platform", "founder"}
  MaxAttempts = 2
  MaxClaims = 6
  MaxFaults = 2
  MaxRetries = 1
CHECK_DEADLOCK FALSE
INVARIANTS
  TypeOK
  AuthoredOnce
  TriggerTaskOnce
  PlatformTaskOnce
  DeliveredMeansHandled
  AttemptsBounded
PROPERTIES
  DeliveredFinal
  EventSettles
