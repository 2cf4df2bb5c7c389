\* kextload fails.
SPECIFICATION Spec
CONSTANTS
  Arguments <- MCArguments
  Tools = {t1, t2}
PROPERTY MountReportsTruth
