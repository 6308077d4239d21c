CONSTANTS MaxCalls = 5
          SeqMod = 3
          NestedLoop = TRUE
SPECIFICATION DelegateFairSpec
INVARIANTS SettleOnceUnlessRaced NoOrphan NoAbort
PROPERTIES PendingSettles
CHECK_DEADLOCK FALSE
