SPECIFICATION FairSpec
INVARIANTS ComposerSound
PROPERTIES HandoffSettles HandoffEnds CloseEnds UncommittedSavesNothing
CHECK_DEADLOCK FALSE
