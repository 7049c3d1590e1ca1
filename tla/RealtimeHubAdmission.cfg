SPECIFICATION FairSpec
CONSTANTS
  c1 = c1  c2 = c2  c3 = c3  c4 = c4
  e1 = e1  e2 = e2  a1 = a1  a2 = a2  a3 = a3
  ip1 = ip1  ip2 = ip2  ip3 = ip3
  Sockets = {c1, c2, c3, c4}
  Sessions = {a1, a2, a3}
  Accounts = {a1, a2, a3}
  Addresses = {ip1, ip2, ip3}
  Spaces = {}
  Handlers = {}
  Revalidators = {}
  SessionOf <- AdmissionSessionOf
  AccountOf <- OneSessionEach
  AddressOf <- AdmissionAddressOf
  MaxConnections = 2
  MaxConnectionsPerAddress = 1
  MaxConnectionsPerAccount = 1
  MaxSubscriptions = 1
INVARIANTS CapacityRespected
PROPERTIES DrainingAdmitsNobody UpgradesEnd
CHECK_DEADLOCK FALSE
