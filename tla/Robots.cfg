SPECIFICATION Spec
CONSTANTS
  star = star
  ours = ours
  part = part
  other = other
  root = root
  inner = inner
  admin = admin
  home = home
  Token <- MCToken
  Star = star
  Name = ours
  Ours = {ours, part}
  Pattern = {root, inner}
  Everything = root
  Length <- MCLength
  Path = {admin, home}
  Matches <- MCMatches
  Delay = {1, 2}
  MaxLines = 5
CHECK_DEADLOCK FALSE
INVARIANTS
  VerdictAsWritten
  DelayAsWritten
