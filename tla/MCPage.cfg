SPECIFICATION Spec
CONSTANTS
  Texts <- ShortTexts
  Pages <- ShortPages
INVARIANTS PageInv ResponseIsRendered
PROPERTIES MovesOn
CHECK_DEADLOCK FALSE
