SPECIFICATION SettingsSpec
CONSTANTS
  Clients = {c1, c2}
  On_Row = {"theme", "digest"}
  On_Holder = {"name"}
  Own_Values = {1, 2}
  MaxVersion = 4
PROPERTY VersionCoversAll
CHECK_DEADLOCK FALSE
