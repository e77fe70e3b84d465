SPECIFICATION Spec
CONSTANTS
  a = a
  b = b
  helper = helper
  bench = bench
  v = v
  w = w
  catalog = catalog
  ref = ref
  json = json
  dir = dir
  red = red
  one = one
  two = two
  pin = pin
  Missing = Missing
  Itself = Itself
  None = None
  Entries <- MCEntries
  EntryModules <- MCEntryModules
  ModuleOf <- MCModuleOf
  RedTeam <- MCRedTeam
  Modules = {a, b, helper}
  Harness = {bench}
  Data = {v, w, catalog, ref, json, dir, red}
  Listings = {dir}
  Pinned = {ref}
  Pin <- MCPin
  Sources <- MCSources
  Contents <- MCContents
  InitTrees <- MCInitTrees
  Versions <- MCVersions
  MaxEdits = 2
INVARIANT AuditedRowsStayTrue
PROPERTY AuditedExportIsCurrent
