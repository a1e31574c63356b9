CONSTANTS
  v1 = v1
  v2 = v2
  g = g
  n = n
  c1 = c1
  s1 = s1
  Servers = {v1, v2}
  Users = {g, n}
  Nicknames = {n}
  NicknameClass <- MCNicknameClass
  Classes = {c1}
  Sessions = {s1}
  ClassOf <- MCClassOf
  ClassEnds <- MCClassEnds
  SeatLimits = {1, 2}
  DefaultSeats = 2
  Ttls = {1}
  Horizon = 1
SPECIFICATION FairSpec
INVARIANTS TypeOK KeyHolderIsSeated ServedSittingIsActive KeyFollowsSitting
PROPERTIES SeatsNotOversold RestartMovesNoExpiry ReactivationRevivesNoKey EveryRedeemEnds
CHECK_DEADLOCK FALSE
