SPECIFICATION BusySpec
CONSTANTS
  Body = {1, 2, 3}
  Subs = 0
  Client = c
  Publishers = {p1, p2}
  OutboxSize = 1
  CallbackSends = FALSE
  ServerKinds = {"ack", "event", "garbage"}
  EndModes = {"frame", "bare"}
  MaxFrames = 2
  MaxPublish = 2
PROPERTIES
  HangUp
  ClosedLinkEndsServe
  SendsAnswered
  FramesReported
  ImplementsSession
