\* Blocks of two frames, a device that asks for three, a ring of two blocks, a
\* sequence of two ticks; two inputs of the user.
CONSTANTS
  BlockFrames = 2
  BlockCapacity = 2
  BurstBlocks = 1
  DeviceFrames = 3
  TickFrames = 2
  MaxFrames = 4
  MaxPops = 2
  MaxAt = 12
  NoBlock = NoBlock
  End = 2
  TopSpeed = 2
  MaxInputs = 2
SPECIFICATION FairSpec
INVARIANT ClockTracksSound
PROPERTY SoundInOrder PlaybackEnds
CHECK_DEADLOCK FALSE
