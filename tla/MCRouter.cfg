SPECIFICATION Spec
CONSTANTS
  hosted = hosted
  local = local
  good = good
  odd = odd
  Key1 = Key1
  Key2 = Key2
  Nothing = Nothing
  r1 = r1
  r2 = r2
  r3 = r3
  Requests = {r1, r2, r3}
  Wants <- Mixed
  Names <- TwoNames
  Enabled = {hosted, local}
  External = {hosted}
  Concurrency <- Slots
  Kinds <- ThreeKinds
  Texts = {good, odd}
  MaxEntries = 1
INVARIANTS TypeOK SlotsConserved CostsMatchRecords
PROPERTIES PausedProvidersRest ImplementsFailover EveryRequestEnds
CHECK_DEADLOCK FALSE
