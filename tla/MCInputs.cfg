CONSTANTS
  sum = sum
  data = data
  pinned = pinned
  replaced = replaced
  Kinds <- TheKinds
  Files = {sum, data, pinned, replaced}
  Links = {sum}
  Libraries = {pinned, replaced}
  Unsummed = {replaced}
  LinkEnd <- TheLinks
  SecretNames = {}
  MetadataList <- TheMetadata
  ProductionList <- TheProduction
  TestList <- TheTests
  PlanList <- ThePlan
  PlannedTasks = {"sync"}
  Supplied <- TheSupplied
SPECIFICATION MCSpec
INVARIANTS SecretsUnhashed CompleteIsObserved GapsAreVisible ObservedWins
CHECK_DEADLOCK FALSE
