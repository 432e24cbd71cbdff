\* Every plan of three checks over two preparations, one of them without an
\* executor, under the default cap of a one-processor host and --jobs 1 and 2.
CONSTANTS
  A = A
  B = B
  N = 3
  Preparations <- MCPreparations
  NoPreparation = NoPreparation
  MaxJobs = 2
  Procs = 1
  Unavailable = {3}
SPECIFICATION FairSpec
INVARIANTS
  WithinCap
  SharersInPlanOrder
  ReportFinal
PROPERTIES
  EveryRunReports
