SPECIFICATION LHSpec
CONSTANTS
  Locos = {l1, l2, l3}
  NoLoco = NoLoco
  ENGINE_STATE_QUEUE_SIZE = 2
  ENGINE_TIMER_DECISECS = 1
PROPERTY EngineStaysOn
CHECK_DEADLOCK FALSE
