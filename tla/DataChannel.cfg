CONSTANTS f1 = f1  f2 = f2  a1 = a1  t1 = t1
          FetchCalls <- MCFetchCalls
          AcquireCalls <- MCAcquireCalls
          Triggers <- MCTriggers
          Refed = FALSE
          ErrorListener = FALSE
SPECIFICATION ChannelFairSpec
INVARIANTS RefsAccounted KeptAliveByWork NothingMissed
PROPERTIES CallsEnd
CHECK_DEADLOCK FALSE
