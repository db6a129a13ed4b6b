SPECIFICATION Spec
CONSTANTS
  c1 = c1
  c2 = c2
  a1 = a1
  a2 = a2
  Clients = {c1, c2}
  Accounts = {a1, a2}
  AddonOwner = a1
  Access <- MCAccess
  n1 = n1
  n2 = n2
  Names <- MCNames
  DomainTypes = {"primary", "addon", "subdomain"}
  Keys = {"k1"}
  NoKey = NoKey
  Package <- MCPackage
  MaxRequests = 2
SYMMETRY MCSymmetry
INVARIANTS
  
  OvershootOnlyByOverlap
  
PROPERTIES
  OwnAccountOnly
CHECK_DEADLOCK FALSE
