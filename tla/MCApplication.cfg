SPECIFICATION Spec
INVARIANTS TypeOK ThreadsOutlived NoAbort
PROPERTIES Terminates
