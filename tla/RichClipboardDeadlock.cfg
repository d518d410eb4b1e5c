SPECIFICATION FairSpec
CONSTANTS
  Clients = {c1}
  Proxies = {p1}
  Types = {text, files}
  Text = text
  Files = files
  Nil = Nil
  MaxAsked = 1
PROPERTY PollGoesOn
CHECK_DEADLOCK FALSE
