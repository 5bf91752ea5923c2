SPECIFICATION LiveSpec
CONSTANTS
  old = old  abroad = abroad  ada = ada
  Users <- OldAndNew
  Existing <- OldAbroad
  Foreign <- JustAbroad
  SeasonLength = 3
  Grace = 1
  MaxClock = 5
  MaxCrashes = 1
  NoJob = NoJob
INVARIANTS SeasonsApart LateExcluded BaselinesFrozen
PROPERTY SeasonOpens
CHECK_DEADLOCK FALSE
