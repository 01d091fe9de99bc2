SPECIFICATION ClockSpec
CONSTANTS
  SIZE = 2
  Values = {0, 1}
  WD_MAX = 3
  RDY_MAX = 12
  TRIES = 1
  RST_HOLD = 1
  MaxEvents = 2
  WritesDuringSave = TRUE
  LateAnswers = TRUE
PROPERTIES BootReleased
