SPECIFICATION Spec
CHECK_DEADLOCK FALSE
CONSTANTS
  listener = listener
  accepted1 = accepted1
  accepted2 = accepted2
  connected = connected
  Pid = {self, p1, p2, p3}
  Self = self
  p1 = p1
  p2 = p2
  p3 = p3
  nginx = nginx
  redis = redis
  sshd = sshd
  shawk = shawk
  Ident = {nginx, redis, sshd, shawk}
  Who <- MCWho
  Spaced = {}
  Denied = {sshd}
  Inode = {listener, accepted1, accepted2, connected}
  Sock <- MCSock
  Opens <- MCOpens
  Wildcard <- Wildcards
  DirCap = 3
  MaxEvents = 2
  MaxExits = 1
  NoEnt = NoEnt
INVARIANTS
  TypeOK
  ConnectionsCounted
  ProcessHadSocket
  ConnectionsLinked
