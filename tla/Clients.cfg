SPECIFICATION Spec
CONSTANTS
  Clients = {c1, c2}
  LocalClients = {c1}
  JsonClients = {c1}
  HelloInputs <- SomeHellos
  CommandInputs <- SomeCommands
  Nobody = Nobody
  MaxMessages = 4
INVARIANTS
  OneUiClient
  RegistryFollowsClients
  SubscribersBacked
  BroadcastComplete
CHECK_DEADLOCK FALSE
