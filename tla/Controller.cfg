SPECIFICATION FairSpec
CONSTANTS
  Tasks = {t1, t2}
  Ports = {"5900", "5901"}
  Nil = Nil
INVARIANTS RequestIsForThisServer NoticeWhenStale
PROPERTIES RelaunchIsWanted RestartHappens KeepAliveRelaunches
CHECK_DEADLOCK FALSE
