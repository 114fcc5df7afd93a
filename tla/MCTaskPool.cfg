\* A pool of one, one poster, one task.
SPECIFICATION Spec
CONSTANTS
  Names = {main}
  Main = main
  InitTask = "init"
  Posters = {p1}
  PoolTasks = {"x"}
  HomeOf <- MCHomeOf
  Priorities = {0}
  Programs <- MCPoolPrograms
  Hardware = 1
PROPERTY PoolTasksRun
CHECK_DEADLOCK FALSE
