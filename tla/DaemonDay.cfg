CONSTANTS
  Calendars <- AllCalendars
  Session = {"regular", "snapshot", "crosscheck"}
  Jobs <- TwoJobs
  MaxFaults = 2
SPECIFICATION Spec
INVARIANTS
    ChildrenAsPlanned
