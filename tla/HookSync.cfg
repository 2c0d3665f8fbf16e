SPECIFICATION FairSpec
CONSTANTS
  app = app
  Apps = {app}
  Settings = {1, 2}
  Default = 1
  NoFile = NoFile
  NoConfig = NoConfig
  Installed <- FirstFiles
  MaxEdits = 2
  MaxFaults = 2
INVARIANTS TypeOK SyncedMeansHookAgrees PassUsesOnePolicy DiskIsMemory SuppressesOnlyBackground
PROPERTIES NothingLost BreaksAreKept Resynchronises
