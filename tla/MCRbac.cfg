CONSTANTS
  None = None
  c1 = c1
  c2 = c2
  RespConns = {c1}
  BinaryConns = {c2}
  Files <- MCFiles
  Mutations <- MCMutations
  Secrets = {"s1"}
  Tokens <- MCTokens
  MaxChanges = 2
  DataCmds = {"DEL"}
  Keys <- MCKeys
  Radix = 6
  LongNames = {"long"}
  NameQueries <- MCNameQueries
  Filters <- MCFilters
  Requests <- MCRequests
  LogEntries <- MCLogEntries
SPECIFICATION Spec
INVARIANTS DefaultIsARole   BinaryReplies RequestsArrive
PROPERTIES IsAtomicPolicy AdminKept PinnedFromSnapshot
CHECK_DEADLOCK FALSE
