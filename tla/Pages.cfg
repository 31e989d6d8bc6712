INIT PagesInit
NEXT PagesNext
CONSTANTS
  Tenants = {t1, t2}
  DefaultTenant = t1
  Keys = {k1, k2}
  MaxSwitches = 2
  MaxInFlight = 2
  Tabs = {tab1, tab2}
  MaxChanges = 2
  MaxCalls = 2
  Nodes = {n1}
  BuilderTenants = {u, p}
  PlatformTenant = p
  MaxChats = 2
  MaxTools = 1
  RouteIds = {r1, r2}
  MaxRequests = 2
  MaxVersion = 2
  Cookbooks = {b1, b2}
  BookFiles = {f1, f2}
  MaxImports = 2
  MaxSaves = 1
  MaxAsks = 2
  MaxSections = 2
  MaxHandEdits = 1
  Entries = {e1, e2}
  MaxEdits = 2
  TenantIds = {a1}
  MaxOrders = 2
INVARIANTS
  OnlyLateDataIsForeign FreshCopyIsCurrent FreshRowIsCurrent
  PreviewHoldsWhatWasDue ConfigIsTheTable ListIsTheTable
  ResultIsNews OneImportPerSheet FilesKeepTheirText DraftIsOfTheAnswer
  ForeignTextSlidIn TenantsAreAsAskedLast
PROPERTIES
  LifecycleLeftByRacesOnly UndoneByOlderReadingsOnly SaveUndoesTheUnreadOnly
CHECK_DEADLOCK FALSE
VIEW SceneView
