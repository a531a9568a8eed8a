SPECIFICATION ScalarSpec
CONSTANTS
  IntBits = 7
  NarrowBits = 4
  FloatBits = 5
  Second = 10
  Units <- MCUnits
  Hosts = {h1, h2}
  Offsets <- MCOffsets
  MaxHops = 2
  MaxChanges = 1
  h1 = h1
  h2 = h2
INVARIANTS
  WholeNumbersExact
  RealsDrift
  OnlyFiniteArrive
  SpansExact
  StampsShiftByOffsets
