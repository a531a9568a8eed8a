SPECIFICATION PySpec
CONSTANTS
  Body = {1, 2, 3}
  Subs = 0
  Client = c
  Obj = o
  UserTasks = {u}
  CallbackTask = k
  Publishers = {o, 1, 2, 3}
  OutboxSize = 1
  CallbackSends = FALSE
  Implemented = {"connected"}
  ServerKinds = {"ack", "event"}
  EndModes = {}
  MaxFrames = 2
  MaxPublish = 3
INVARIANTS
  PyTypeOK
  PublishOrder
PROPERTIES
  DisconnectEndsRun
  PublishComesBack
