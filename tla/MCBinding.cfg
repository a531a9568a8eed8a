SPECIFICATION Spec
CONSTANTS
  Body = {b1, b2}
  Subs = s
  MaxIn = 3
  MaxOut = 2
SYMMETRY Symmetry
INVARIANTS
  TypeOK
  NeverUnreachable
  InboundOrder
  OutboundOrder
  OneAck
