\* A callback that is slower than a seek and the mixer together.
CONSTANTS
  BlockFrames = 2
  BlockCapacity = 2
  BurstBlocks = 1
  DeviceFrames = 3
  TickFrames = 2
  MaxFrames = 4
  MaxPops = 2
  MaxAt = 12
  NoBlock = NoBlock
  End = 2
  TopSpeed = 2
  MaxInputs = 2
SPECIFICATION FairSpec
PROPERTY SeekStartsAtItsTick
CHECK_DEADLOCK FALSE
