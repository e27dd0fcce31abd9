\* Logins: two browsers, two people, up to three flows, sessions and
\* configurations.  Connections: two users of the grant, two paths, two Apps.
\* Pipelines of up to three stages; outputs of up to six bytes.
CONSTANTS
  Browsers = {b1, b2}
  Subjects = {s1, s2}
  ProviderOf <- MCProviderOf
  Offered <- MCOffered
  None = None
  FlowCapacity = 2
  CandidateCapacity = 2
  FlowLimit = 3
  SessionLimit = 3
  ConfigLimit = 3
  SetupLimit = 1
  LapseLimit = 2
  Workers = {w1, w2}
  Paths = {"p", "q"}
  DefaultPath = "p"
  Nil = Nil
  AppIds = {1, 2}
  AppLimit = 2
  RevisionLimit = 3
  LoginLimit = 2
  TripLimit = 2
  SettingsLimit = 2
  HookLimit = 1
  EventLimit = 2
  Names = {"a", "b", "c", "x", "y"}
  Pipelines <- MCPipelines
  Bytes = {"a", "b"}
  SecretSets <- MCSecretSets
  InputLimit = 6
SPECIFICATION Spec
SYMMETRY Symmetry
INVARIANTS
  AdminRemains
  SessionsBound
  NoSpentToken
  EvidenceGenuine
  PlanSound
  RedactionExact
PROPERTY ConfigLineage
\* The bounds on rows and events end every behaviour.
CHECK_DEADLOCK FALSE
