SPECIFICATION FairSpec
CONSTANTS
  Slaves = {"a", "ab", "p"}
  Order <- MCOrder
  Devices = {"a", "p"}
  Push = {"p"}
  Paths = {"a", "ab", "p", "shv"}
  Under <- MCUnder
  Quiet = Quiet
  Reset = Reset
  RootIsCwd = FALSE
  Requests = {r1}
PROPERTY WaitersAnswered
