SPECIFICATION Spec
CONSTANTS
  MaxLen = 20
  PayloadSizes = {16}
  Payloads <- OnePayload
  Disturbed <- Ends
  Decodable <- Prefixes
INVARIANT
  OneBitIsCorrected
