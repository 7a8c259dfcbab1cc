SPECIFICATION Spec
CONSTANT
  Clients <- MCClients
INVARIANTS RandomizeStatesIsSound
