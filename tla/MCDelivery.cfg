SPECIFICATION DeliverySpec
CONSTANTS
  p = p
  q = q
  name = name
  commit = commit
  branch = branch
  Run = {p, q}
  Product = {p, q}
  Location = {name, commit, branch}
  RefKind <- MCRefKind
  Plans <- MCPlans
  FileOf <- MCOwn
  BranchOf <- MCOwn
  Person = person
  Nobody = nobody
  NoDoc = noDoc
  NoBranch = noBranch
  Modes = {"direct", "pr"}
  Depth = 2
  MaxPeople = 2
  MaxFaults = 1
INVARIANTS DeliveryTypeOK CheckoutHolds OwnFileOnly RejectedStaysOut ProposalStands
PROPERTIES ImplementsReview EveryRunDelivers
CHECK_DEADLOCK FALSE
