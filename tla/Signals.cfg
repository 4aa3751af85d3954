SPECIFICATION FairSpec
CONSTANTS
  Sig = {g1, g2}
  NoSig = NoSig
  Controller = Controller
  Services = Services
  SLOTS = 2
  MAX_DEPTH = 1
  PER_TICK = 1
  MaxClock = 4
INVARIANTS
  TypeOK SignalKept
PROPERTIES
  ImplementsSignalSet SignalDelivered
