\* The main runner with three tasks of any two priorities, two posters, a pool of
\* at most two workers.
SPECIFICATION Spec
CONSTANTS
  Names = {main}
  Main = main
  InitTask = "init"
  Posters = {p1, p2}
  PoolTasks = {"x", "y"}
  HomeOf <- MCHomeOf
  Priorities = {0, 1}
  Hardware = 2
  Programs <- MCPrograms
INVARIANTS
  TypeOK
  ExactUnlessOvertaken
  SleepsOnWorkOnlyIfMissed
CHECK_DEADLOCK FALSE
SYMMETRY PosterSymmetry
