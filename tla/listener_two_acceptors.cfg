SPECIFICATION FairSpec
CONSTANTS
  Tasks = {a1, a2}
  NoTask = NoTask
  Origins = {"bind", "from_std", "from_tokio"}
  MaxConns = 3
PROPERTIES
  AcceptCompletes
