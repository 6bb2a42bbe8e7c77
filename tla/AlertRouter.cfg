SPECIFICATION Spec
CONSTANTS
  d1 = d1
  d2 = d2
  slackAny = slackAny
  slackLoop = slackLoop
  mailLoop = mailLoop
  slack = slack
  mail = mail
  loop = loop
  timeout = timeout
  Dispatcher = {d1, d2}
  Rule = {slackAny, slackLoop, mailLoop}
  Channel = {slack, mail}
  Type = {loop, timeout}
  ChannelOf <- MCChannelOf
  Matches <- MCMatches
  Window <- MCWindow
  MaxWindow = 2
  MaxFailures = 3
\* A bounded number of failures is dispatched.
CHECK_DEADLOCK FALSE
SYMMETRY MCSymmetry
INVARIANTS
  WindowsAreSafe
PROPERTY NoDuplicateInWindow
