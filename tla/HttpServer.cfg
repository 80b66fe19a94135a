SPECIFICATION FairSpec
CONSTANTS
  Clients = {k1, k2, k3}
  Kinds = {"plain", "unknown", "shutdown", "throws", "semantic"}
INVARIANT StopsAfterShutdown
PROPERTIES LifecycleHolds ExitsUnlessStuck
CHECK_DEADLOCK FALSE
