SPECIFICATION BootSpec
CONSTANTS
  MaxWaits = 2
  MaxSetbacks = 2
  EventQueue = 3
INVARIANTS
  BootTypeOK
  OneCommittedImage
  SuccessIsInstalled
  ConnectedFollows
PROPERTIES
  CommittedIsTested
  InstalledIsBooted
  OnlineAgain
