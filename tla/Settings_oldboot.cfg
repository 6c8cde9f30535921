CONSTANTS
  boot = boot
  app = app
  oldapp = oldapp
  Absent = Absent
  Fields = 3
  Values = {0, 1}
  SeqHalf = 2
  Default <- MCDefault
  Builds <- MixedBuilds
  Size <- MixedSize
  Owned <- MixedOwned
SPECIFICATION SettingsSpec
PROPERTY AllFieldsSurvive
