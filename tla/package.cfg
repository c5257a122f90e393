\* A server that writes while it exports, and five states of a server to import into.
SPECIFICATION Spec
CONSTANTS
  m1 = m1
  m2 = m2
  a1 = a1
  a2 = a2
  s1 = s1
  s2 = s2
  k1 = k1
  k2 = k2
  Messages = {m1, m2}
  Assets = {a1, a2}
  Sources = {s1, s2}
  DeviceOf <- OneDevice
  Servers <- FiveServers
  Keys = {k1, k2}
  TooBig = {a2}
  MaxChanges = 3
  MaxExports = 2
  MaxMoves = 1
INVARIANTS ExportIsClosed PreviewWarns ConversionAgrees
PROPERTIES ImportKeepsArchive
CHECK_DEADLOCK FALSE
