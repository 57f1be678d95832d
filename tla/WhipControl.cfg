SPECIFICATION SessionSpec
CONSTANTS
  Base = {hostA, hostB}
  NoBase = noBase
  Query = {"q1"}
  Token = {tok1, tok2}
  NoToken = noToken
  PublicHost = {hostA}
  KeySlots = 3
  MaxLines = 3
  MaxPolls = 2
  MaxAttempts = 2
  InboxSize = 2
  MaxRecords = 2
INVARIANTS
  SessionTypeOK
  PushIntoStarted
  SocketsOwned
  PublisherAsRemembered
  KeysOwned
  MediaGoesToServer
PROPERTIES
  OnlyKnownLosses
  ErrorIsReplaced
  ControlSpec
