SPECIFICATION CFairSpec
CONSTANTS
  Body = {1, 2, 3}
  Subs = 0
  Client = c
  Api = a
  Publishers = {a}
  OutboxSize = 1
  CallbackSends = FALSE
  ServerKinds = {"ack", "event", "garbage"}
  EndModes = {"frame"}
  MaxFrames = 2
  MaxPublish = 2
INVARIANTS
  NoGoodbye
  ExplainedBeforeStop
PROPERTIES
  QuietWhenGone
  StopTerminates
  RefusalExplained
