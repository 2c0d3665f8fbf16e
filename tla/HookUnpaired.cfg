SPECIFICATION Spec
CONSTANTS
  app = app
  Apps = {app}
  Settings = {1, 2}
  Default = 1
  NoFile = NoFile
  NoConfig = NoConfig
  Installed <- FirstFiles
  MaxEdits = 2
  MaxFaults = 2
INVARIANT SuppressesOnlyConfirmed
