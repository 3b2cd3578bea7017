\* The comment on update_risk_pauses against its code.
SPECIFICATION Spec
CONSTANTS
  MaxFills = 2
  MaxVersion = 6
  MaxReconciled = 1
PROPERTIES
  StaleSchedules
