SPECIFICATION AllSpec
CONSTANTS
  Tasks = {a1}
  NoTask = NoTask
  Origins = {"bind", "from_std", "from_tokio"}
  MaxConns = 2
  Streams = {s1, s2}
  Threads = {u1, u2}
  Descriptors = {1, 2, 3}
  Platforms = {"linux", "bsd", "macos", "windows"}
  Nothing = Nothing
INVARIANTS
  AllTypeOK
  ListenerUsable
  OrderAllowed
  NoMissedConnection
  DescriptorIsOwn
  NoLeak
PROPERTIES
  AcceptCompletes
