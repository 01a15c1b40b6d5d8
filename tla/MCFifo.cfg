SPECIFICATION Spec
CONSTANTS
  Slots = 3
  Values = {a, b}
  Nothing = Nothing
  Torn = Torn
INVARIANTS
  TypeOK
  NoSharedSlot
  NoTornItem
  CountsAreSafe
PROPERTIES
  ImplementsQueue
