SPECIFICATION Spec
INVARIANTS InstallAlone NothingLeft
PROPERTIES CleanupEnds
CHECK_DEADLOCK FALSE
