SPECIFICATION Spec
CONSTANTS
  MaxLen = 36
  PayloadSizes = {12, 14, 32}
  Payloads <- OnePayload
  Disturbed <- Ends
  Decodable <- Prefixes
INVARIANT
  SizesAccepted
