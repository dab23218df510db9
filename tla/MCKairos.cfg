CONSTANTS
  Client = {c1}
  Project = {p1}
  NoProject = none
  StartProject = p1
  UserTask = {u}
  GitWatch = w
  Cron <- MCCron
  TickInterval = 2
  Hour = 4
  TickMinutes = 1
  MaxTasks = 2
  Loop = {l1, l2}
  NoLoop = nil
SPECIFICATION FairSpec
INVARIANTS
  OneLiveLoop
  TasksPersisted
PROPERTIES
  StoppedLoopsEnd
  GridTasksKeepRunning
