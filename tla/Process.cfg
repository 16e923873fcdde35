SPECIFICATION FairSpec
PROPERTIES StatusCatchesUp ShutdownEnds
CHECK_DEADLOCK FALSE
