SPECIFICATION Spec
CONSTANTS
  Configs = 2
  PipelineNum = 2
  MaxPipelines = 6
INVARIANTS
  PickSound
  NoStarvation
CHECK_DEADLOCK FALSE
