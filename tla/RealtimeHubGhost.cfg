SPECIFICATION Spec
CONSTANTS
  c1 = c1  c2 = c2  c3 = c3  c4 = c4
  e1 = e1  e2 = e2  a1 = a1  a2 = a2  a3 = a3
  ip1 = ip1  ip2 = ip2  ip3 = ip3
  Sockets = {c1}
  Sessions = {e1}
  Accounts = {a1}
  Addresses = {ip1}
  Spaces = {s1}
  Handlers = {h1, h2}
  Revalidators = {r1}
  SessionOf <- SharedSessionOf
  AccountOf <- OneAccountOf
  AddressOf <- OneAddressOf
  MaxConnections = 2
  MaxConnectionsPerAddress = 2
  MaxConnectionsPerAccount = 2
  MaxSubscriptions = 2
INVARIANTS NoGhostSubscriptions
CHECK_DEADLOCK FALSE
