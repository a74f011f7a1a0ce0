SPECIFICATION Spec
CONSTANTS
  Device = {d1}
  HttpThread = {h1}
INVARIANT RowIsLatest
