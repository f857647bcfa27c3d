\* Two records, two calls at once, two devices, limits of one and two; one is asked for.
SPECIFICATION MembershipSpec
CONSTANTS
  MaxRows = 2
  MaxPast = 1
  MaxLimit = 2
  Asked = {1}
  Devices = {d1, d2}
  Calls = {c1, c2}
  NoDevice = NoDevice
SYMMETRY Symmetry
INVARIANTS OneLive PlacesWithinGrant
PROPERTY RunsOn
CHECK_DEADLOCK FALSE
