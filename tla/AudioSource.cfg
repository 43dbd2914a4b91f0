SPECIFICATION Spec
CONSTANTS
  Queue = 2
  Wrap = 8
  Start = 6
  MaxFrames = 4
  MaxEvent = 3
  Tries = 2
INVARIANTS ChannelsTogether SameAgain KeepsPace Accounted
