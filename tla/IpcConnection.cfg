CONSTANTS MaxCalls = 2
          SeqMod = 2
          NestedLoop = FALSE
          HeaderSize = 2
          Frames <- MCFrames
          MaxSent = 3
SPECIFICATION PartsSpec
INVARIANTS FramesInOrder AnswersMatch MessagesKept
PROPERTIES AbstractSpec FramesArrive
CHECK_DEADLOCK FALSE
