SPECIFICATION FairSpec
CONSTANTS
  Clients = {c1}
  Proxies = {p1, p2}
  Types = {text, files}
  Text = text
  Files = files
  Nil = Nil
  MaxAsked = 1
INVARIANTS AnswerAsAsked RepliesKept
PROPERTY EventsGoOn
CHECK_DEADLOCK FALSE
