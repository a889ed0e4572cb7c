SPECIFICATION MCSpec
CONSTANTS
  Threads = {t1, t2}
  Values = {a, b}
  NoThread = NoThread
  Pending = Pending
  Done = Done
  Refused = Refused
  Size = 3
  a = a
  Keys = {k1}
  Data = {d1, d2}
  EncKeys = {e1, e2}
  NoKey = NoKey
  Garbage = Garbage
  Null = Null
  Compression = TRUE
  Bank = 4
  Hashed = 1
  Sum1 = 2
  Sum2 = 3
  Bytes <- ClockBytes
  Requests <- ClockRequests
  MaxRequests = 2
INVARIANTS ReadBack ChecksumGuards RequirementsKept TransferExact
PROPERTIES Implements CallsReturn
