SPECIFICATION Spec
CONSTANTS
  Device = {d1, d2}
  HttpThread = {h1, h2}
SYMMETRY Symmetry
INVARIANTS TypeOK OnlineIsAnnounced RecordedMatchesRows CommandedIsRegistered
PROPERTY OnlyRegisterCreates
