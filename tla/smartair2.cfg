SPECIFICATION FairSpec
CONSTANTS
  Files <- MCFiles
  Commands <- MCCommands
  Rates = {1, 2}
  Elapsed = {1, 3}
  MaxElapsed = 2
  MinTarget = 2
  MaxTarget = 7
  PairingTarget = 6
  FirstRoom = 2
  FirstTarget = 6
  FirstDrift = 7
  MaxRoom = 8
INVARIANTS
  StatusAgrees
PROPERTIES
  NoShortCycle
  CoolingCycles
  RoomMovesGradually
