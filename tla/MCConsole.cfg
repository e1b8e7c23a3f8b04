CONSTANTS
  Width = 2
  Height = 3
  Plain = {"a", "b", "e"}
  High = {"hi"}
  Newline = "nl"
  AllocSize = 2
  Pieces <- MCPieces
  Complaint <- MCComplaint
  MaxWritten = 9
SPECIFICATION Spec
CHECK_DEADLOCK FALSE
INVARIANTS
  ScreenShowsAll
  LogKept
  ComplaintAsksNothing
