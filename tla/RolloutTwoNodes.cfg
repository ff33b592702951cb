CONSTANTS
  Rollouts = {r1}
  s1 = s1
  s2 = s2
  Servers = {s1, s2}
  Versions = {v1, v2}
  Compatible = {v1, v2}
  Plans <- TwoNodes
  Callers = {c1, c2}
  NoCall = NoCall
  MaxDisruptions = 1
SPECIFICATION FairSpec
CHECK_DEADLOCK FALSE
INVARIANTS BoundJobIsFirstSincePlan
PROPERTIES HealthyNodeRunsTarget ImplementsSequentialRollout RolloutResolves
