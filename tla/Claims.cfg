SPECIFICATION FairSpec
CONSTANTS
  Objects = {o1, o2}
  MaxUID = 2
  MaxChanges = 3
  Env = {"fail", "job", "labels", "owners", "objects", "relist"}
CHECK_DEADLOCK FALSE
INVARIANTS TypeOK ClaimsExact LateAdoptsNothing ClaimedIsOwned
PROPERTIES ForeignUntouched RefsSettle
