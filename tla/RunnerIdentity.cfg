SPECIFICATION FairSpec
CONSTANTS
  MaxCeremonies = 2
  CertLimit = 3
  KeyLimit = 8
  MaxFaults = 2
CHECK_DEADLOCK FALSE
INVARIANTS
  PKIOneCeremony
  RecoverableFromDisk
  AcceptedLineage
PROPERTIES
  RotationFinishes
