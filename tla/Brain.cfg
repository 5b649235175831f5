SPECIFICATION FairBrainSpec
CONSTANTS
  AgentNames = {"a"}
  CompileThreshold = 2
  BatchCap = 2
  MaxEvents = 3
  MaxCompiles = 2
  MaxRestarts = 1
CHECK_DEADLOCK FALSE
INVARIANTS CompiledWasWritten
PROPERTIES RestartsRunWhatWasApproved ApprovalsGoLive
