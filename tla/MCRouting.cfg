CONSTANTS
  Configs <- MCConfigs
  Requests <- MCRequests
  Params = {"{x}", "{y}"}
  BadParams = {"{x"}
  Reserved = {"request", "principal"}
  None = None
SPECIFICATION Spec
CHECK_DEADLOCK FALSE
INVARIANTS OneRoutePerPath LoadIsOrderFree PathViewsAgree UpstreamSeesTheSamePath
