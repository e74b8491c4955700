SPECIFICATION FairSpec
CONSTANTS
  c1 = c1
  c2 = c2
  c3 = c3
  c4 = c4
  c5 = c5
  NoCall = NoCall
  Calls <- FiveCalls
  MaxRequests = 2
  Window = 3
  Slack = 1
INVARIANTS
  WindowBound
  OneInLoop
  FirstComeFirstServed
  NoOversleep
PROPERTIES
  NoStarvation
  ImplementsSlidingWindow
