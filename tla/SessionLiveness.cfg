CONSTANTS
  Thread = {t1, t2}
  Buffer = {b1, b2}
  NoBuffer = NoBuffer
  NoThread = NoThread
SPECIFICATION FairSpec
PROPERTIES SentOrClosed CloseCompletes
CHECK_DEADLOCK FALSE
