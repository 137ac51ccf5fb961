\* A banned kernel refuses every call (ezdev_sdk_kernel_stop included): it stops.
CHECK_DEADLOCK FALSE
SPECIFICATION Spec
CONSTANTS
  s1 = s1
  s2 = s2
  NoServer = NoServer
  Servers <- MCServers
  RegRetryMax = 2
  BreakRetryMax = 1
INVARIANT
  RedirectObeyed
