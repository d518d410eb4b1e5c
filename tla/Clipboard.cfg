SPECIFICATION FairSpec
CONSTANTS
  Clients = {c1, c2}
  MaxCount = 3
INVARIANT CopyIsFresh
PROPERTIES CutIsOffered SentAsRecorded StallIsOver TextArrives
