CONSTANTS
  Lines = {0, 8}
  Handlers <- MCHandlers
  Step = 2
  FreshFree = {TRUE, FALSE}
  MaxTotal = 4
SPECIFICATION Spec
CHECK_DEADLOCK FALSE

  
PROPERTIES
  
  RequestServed
