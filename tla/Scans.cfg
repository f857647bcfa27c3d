SPECIFICATION FairSpec
CONSTANTS
  seatA = seatA
  legA = legA
  a = a
  b = b
  Tickets = {seatA, legA}
  Legs = {legA}
  MaxScans = 3
  Devices = {a, b}
  DeviceOf <- Makers
  Presents <- Shown
  NoTicket = NoTicket
  Looks = {}
  Elsewhere = {}
  Requests = {1, 2}
  MaxFaults = 1
INVARIANT AdmittedOnce
INVARIANT ReportsAgree
PROPERTY EveryScanArrives
CHECK_DEADLOCK FALSE
