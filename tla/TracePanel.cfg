SPECIFICATION FairSpec
CONSTANTS
  Selections = 2
  Command = {watch}
  Session = {1, 2, watch}
  Attached = {watch}
INVARIANTS TypeOK ReportsAreTrue DoneIsQuiet
PROPERTIES RevokedNeverCreates SessionsEnd
CHECK_DEADLOCK FALSE
