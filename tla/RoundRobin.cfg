SPECIFICATION Spec
CONSTANTS
  N = 4
INVARIANTS
  TypeOK
  NoneOvertaken
