SPECIFICATION Spec
CONSTANTS
  Body = {1, 2, 3}
  Subs = 0
  Client = c
  Publishers = {p1}
  OutboxSize = 1
  CallbackSends = FALSE
  ServerKinds = {"ack"}
  EndModes = {"frame"}
  MaxFrames = 2
  MaxPublish = 1
INVARIANT SecondAckRejected
