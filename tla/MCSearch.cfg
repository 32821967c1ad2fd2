CONSTANTS
  Doc = {d1, d2}
  Character <- MCCharacter
  Text <- MCText
  Absent = Absent
  Size = 2
  Overlap = 1
SPECIFICATION Spec
INVARIANTS
  EveryPhraseIsFound
PROPERTIES
  TextsArePaidOnce
CHECK_DEADLOCK FALSE
