\* Three runs of the mount tool beside the installer; no symmetry, for the sake of
\* the liveness property.
SPECIFICATION Spec
CONSTANTS
  Tools = {t1, t2, t3}
  Arguments <- MCArguments
INVARIANTS
  TypeOK
  MountsWhatIsTested
  ServedByKext
  NewVersionRuns
PROPERTY InstallationEnds
