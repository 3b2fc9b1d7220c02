SPECIFICATION Spec
CONSTANTS
  Probes = {"Read", "Send", "Other"}
  Models <- AllModels
  Mutants <- AllMutants
  Ids <- AllIds
  Tasks = {"reader", "sender", "other"}
  ProbeOf <- OneTaskEach
  Inputs <- AllInputs
  Trunc <- TruncAll
  Singleton = TRUE
  MaxCalls = 3
  Versions = {1, 2}
INVARIANTS   AppliedOncePerConnection HeaderFaithful
PROPERTY AppliedIsReal
CHECK_DEADLOCK FALSE
