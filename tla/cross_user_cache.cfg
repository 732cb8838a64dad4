SPECIFICATION SessionSpec
CONSTANTS
  Members = {"ann", "bob"}
  Nobody = "nobody"
CHECK_DEADLOCK FALSE
INVARIANT NoStaleCrossUserCache
