SPECIFICATION Spec
CONSTANTS
  MaxLen = 5
INVARIANTS
  TypeOK
  EveryObjectOnce
  BodyOrder
  LastObjectIsOpen
