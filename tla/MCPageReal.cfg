SPECIFICATION Spec
CONSTANTS
  Texts <- TheTexts
  Pages <- ThePage
INVARIANTS NoneLeft
CHECK_DEADLOCK FALSE
