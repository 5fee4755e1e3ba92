\* Two killers and three linked functions, one of which may raise.
CONSTANTS
  u1 = u1
  u2 = u2
  Users = {u1, u2}
  l1 = l1
  l2 = l2
  l3 = l3
  Links = {l1, l2, l3}
  Raising = {l3}
  G = G
  NoOne = NoOne
  NoLink = NoLink
  MaxSwitches = 2
SPECIFICATION ThreadSpec
INVARIANTS NothingStranded
PROPERTIES KillerReturns IsTask LinksAreCalled
CHECK_DEADLOCK FALSE
