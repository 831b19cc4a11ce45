\* A worker that imports or installs, a quota check and the registry, for the
\* files they remove under each other and the locks they take in turn; two
\* directories; a budget of no file, so that everything not protected may go.
CONSTANTS
  Importer = {w}
  Checked = {w}
  Installer = {w}
  Key = {w}
  Settings = {quota}
  Registry = registry
  Thread = {w, quota, registry}
  NoThread = NoThread
  Lease = Lease
  Root = {a, b}
  Quota = 0
  Undo = FALSE
  MaxInbox = 2
SPECIFICATION FairSpec
INVARIANT LeasedFileStays RootsAgree
PROPERTY MaintenanceSparesReferences EveryThreadReturns
CHECK_DEADLOCK FALSE
