\* A tool that runs in the host and one that runs in the subprocess.
SPECIFICATION FairSpec
CONSTANTS
  c1 = c1  c2 = c2
  Call = {c1, c2}
  Proxied = {c1}
  None = None
INVARIANTS
  TypeOK RecordsAreTrue ObservedIsKept ClosedRunIsComplete
PROPERTIES
  WatchedReceiptSettles
