SPECIFICATION MCSpec
CONSTANTS
  t1 = t1
  t2 = t2
  q = q
  AgentTasks = {t1, t2, q}
  Quality = q
  Deps <- MCDeps
  MaximumAttempts = 2
  Permitted = {t1, q}
  Results <- MCResults
  MaxByHand = 2
  ParkingLots = {11, 12, 13, 14}
  LotRequests = {1, 2, 3}
  PlanLimit = 1
  People = {"owner", "neighbour", "guard", "manager", "stranger"}
  RoleOf <- MCRoleOf
  OrganizationOf <- MCOrganizationOf
  ConversationIds = {1, 2}
  MessageRequests = {1, 2}
  MaxLate = 3
  Organizations = {1, 2, 3}
  Emails = {"e1", "e2"}
  SignUpEmails = {"e1"}
  Staffed = {1}
  Tokens = {"k1", "k2"}
  AccountRequests = {"a1", "a2"}
  Credentials = {"d1", "d2", "d3"}
  DeviceRequests = {"h1", "h2"}
  Files <- MCFiles
  MaxFiles = 3
  SplitFileThreshold = 3
  TreeTasks = {"w1", "w2"}
  Branches = {"develop", "release"}
  MaxCommits = 1
CHECK_DEADLOCK FALSE
INVARIANTS
  ExcessBounded
  ConversationsSound
  AccountsSound
  DevicesSound
  RunsSound
  PlansSound
PROPERTIES
  ResolvedForGood OrchestrationEnds TreesSound
