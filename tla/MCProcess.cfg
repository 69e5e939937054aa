\* Two connections of one person's, five configurations.
\* The process ends, so the system may stop.
CONSTANTS
  Connections = {c1, c2}
  Subjects = {s1}
  Configurations <- SomeConfigurations
  None = None
SPECIFICATION Spec
INVARIANTS PoolsOutliveUsers OneProfilePerSubject
PROPERTIES StopsOnceEnding
CHECK_DEADLOCK FALSE
