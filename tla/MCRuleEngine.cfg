SPECIFICATION Spec
CONSTANTS
  temperature = temperature
  r1 = r1
  r2 = r2
  Rule = {r1, r2}
  Caller = {c1}
  Sensor = {temperature}
  Value = {0, 1}
  Body <- MCBody
SYMMETRY Symmetry
INVARIANTS TypeOK EvaluationIsExact UpdatesKept
