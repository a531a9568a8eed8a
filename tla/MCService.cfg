SPECIFICATION Spec
CONSTANTS
  Body = {1, 2, 3}
  Subs = 0
  Client = c
  Publishers = {p1, p2}
  OutboxSize = 1
  CallbackSends = TRUE
  ServerKinds = {"ack", "event", "error", "other", "garbage", "ping", "pong"}
  EndModes = {"frame", "bare"}
  MaxFrames = 3
  MaxPublish = 3
SYMMETRY Symmetry
CHECK_DEADLOCK FALSE
INVARIANTS
  TypeOK
  OutboundConserved
  GracefulClose
  HandshakeFirst
  CallbacksFollowFrames
  OkMeansClosed
