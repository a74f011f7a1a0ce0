SPECIFICATION Spec
CONSTANTS
  Device = {d1, d2}
  Version = {1, 2}
INVARIANTS TypeOK SchemaIsVersioned CrashKeepsPromises
