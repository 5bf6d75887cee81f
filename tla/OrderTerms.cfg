SPECIFICATION Spec
CONSTANTS
  Nothing = none
  HoldModes = {"hedge_mode", "one_way_mode"}
  MaxFills = 2
INVARIANTS
  TypeOK
  TermsKept
  EffectKept
  EffectMeant
  DoneIsDone
