\* Two workers, two calling threads, three jobs, flags of any value.
SPECIFICATION Spec
CONSTANTS
  NbWorkers = 2
  Callers = {c1, c2}
  MaxJobs = 3
  StrayFlag = TRUE
INVARIANTS TypeOK FirstRoundSucceeds JobsAccountedFor
PROPERTIES OnceEach AcceptedIsRun DestructorReturns
