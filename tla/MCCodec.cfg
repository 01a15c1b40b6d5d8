SPECIFICATION Spec
CONSTANTS
  MaxLen = 28
  PayloadSizes = {8, 12, 16, 24}
  Payloads <- OnePayload
  Disturbed <- UpToTwoBits
  Decodable <- Prefixes
INVARIANTS
  NeverWrongPayload
  SingleErrorRepaired
  IntactAccepted
  RecheckRedundant
  NoFalseCorrection
