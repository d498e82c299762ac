SPECIFICATION Spec
CONSTANTS
  Releases <- SomeReleases
  Targets <- SomeTargets
  Standards <- SomeStandards
INVARIANTS
  NamedAsItself
  VersionIsRead
  TargetIsRead
  DialectIsRead
