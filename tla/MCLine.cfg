SPECIFICATION Spec
CONSTANTS
  Slots = 3
  HwSize = 5
  ItemSize = 3
  RegWords = 4
  MacSizes = {0, 1, 2}
  MaxStations = 3
  Bytes = {0, 2}
  Messages <- McMessages
  Patience = 3
  MaxMessages = 4
INVARIANTS
  TypeOK
  FaultsHaveCause
  PacketsWhole
  AnswersWhole
PROPERTIES
  CommandsAreCommands
  TakenOnce
  MessageHandled
CHECK_DEADLOCK FALSE
