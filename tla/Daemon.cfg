SPECIFICATION FairSpec
CONSTANT SyncInterval = 16
INVARIANT NeverStuck
PROPERTY RunsUntilStopped
CHECK_DEADLOCK FALSE
