SPECIFICATION EnvSpec
CONSTANTS
  Runs <- MCRuns
  Typed <- MCTyped
  Edited <- MCEdited
  Filler <- MCFiller
  NoFile = NoFile
INVARIANTS
  AppReadsWhatWasTyped
  DatabaseSurvives
PROPERTIES
  SavingKeepsTheRest
