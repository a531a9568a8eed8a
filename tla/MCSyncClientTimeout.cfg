SPECIFICATION Spec
CONSTANTS
  Body = {1, 2, 3, 4}
  Subs = 0
  MaxFrames = 4
  MaxPublish = 2
INVARIANTS
  TimeoutMeansNothingReceived
