SPECIFICATION Spec
CONSTANT
  Clients <- MCClients
INVARIANTS ChainsAreRight DestsExist PurgesAreExact MergesAreSound RandomizeIsSound
