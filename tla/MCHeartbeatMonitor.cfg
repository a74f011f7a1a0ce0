SPECIFICATION FairSpec
CONSTANTS
  Device = {d1, d2}
  Timeouts = {1, 2}
INVARIANTS TypeOK ReportedIsSilent OncePerSilence QuietAfterStop
PROPERTIES SilentIsReported StopReturns
