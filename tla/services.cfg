SPECIFICATION Spec
CONSTANTS
  Calls <- MCCalls
  Pipelines <- MCPipelines
  Owner <- MCOwner
  RunOf <- MCRunOf
  Prompt <- MCPrompt
  Caching <- MCCaching
  Rpm = 1
  Window = 2
  MaxAttempts = 2
  None = None
  Threads = {t1, t2, t3}
  FailureThreshold = 2
  RecoveryTimeout = 2
  Tasks <- MCTasks
  ProcessOf <- MCProcessOf
  Fields = {f1}
  Ttl = 2
  MaxUpdates = 2
  NoCopy = NoCopy
  Emails = {e1, e2}
  Orgs = {o1, o2}
  DevEmail = e1
  DevOrg = o1
  Links = {l1, l2}
  Sessions = {s1, s2}
  MaxChanges = 3
  Nothing = Nothing
  Connections = {k1, k2}
  Workers = {v1, v2, v3}
  Tenants = {o1, o2}
  NoTenant = NoTenant
  Unset = Unset
INVARIANTS
  SlotsPerWindow
  CostIsOwn
  BreakerProbes
  StaleAtMostTtl
  LinksAreSingleUse
  NoSessionOutlivesReset
  OwnTenantOnly
\* All pipelines may have closed.
CHECK_DEADLOCK FALSE
