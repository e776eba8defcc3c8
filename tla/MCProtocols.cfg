SPECIFICATION Spec
CONSTANTS
  DefaultMinBackoff = 1
  DefaultMaxBackoff = 2
  DefaultProbeInterval = 2
  Horizon = 2
  Forever = 3
  Unlimited = 9
  Kinds = {"retry", "passive", "once", "unreliable"}
  MaxBackoffs = {1}
  Ends = {1, 2}
  Slow = 4
  Mult = 3
  Settings <- MCSettings
  Tunable = {1}
  MaxFaults = 2
  Bridges = {1, 2, 3}
  Links <- MCLinks
  HelloTime = 2
  MaxAge = 6
  ForwardDelay = 4
  HoldTime = 1
  Increment = 1
  Costs = {3}
  Ids = {0, 5}
  MaxUpsets = 1
INVARIANTS StateTellsStream DeadPeerDropped NewConnectionIsSeen UpMeansHeard NoFalseExpiry NoLoop
PROPERTIES Reconnects Settles Converges
