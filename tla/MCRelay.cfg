CONSTANTS
  w1 = w1  w2 = w2
  alice = alice  bob = bob
  a = a  b = b  c = c
  Workers = {w1, w2}
  Users = {alice, bob}
  Requests = {a, b, c}
  UserOf <- MCUserOf
  NonceOf <- MCNonceOf
  None = None
  MaxFaults = 1
SPECIFICATION RelaySpec
INVARIANTS
  RelayTypeOK
  WriteAhead
  OneTransactionPerNonce
  NoSecondPayment
PROPERTIES
  OneOutstanding
  OutboxDrains
CHECK_DEADLOCK FALSE
