CONSTANTS
  Thread = {t1, t2, t3}
  Buffer = {b1, b2, b3}
  NoBuffer = NoBuffer
  NoThread = NoThread
SPECIFICATION Spec
SYMMETRY Symmetry
INVARIANTS OneSender OneReceiver Pinned SendOrder ReleaseFindsSession
CHECK_DEADLOCK FALSE
