SPECIFICATION Spec
CONSTANTS
  Button <- Buttons
  Key <- Keys
  sdl_to_x11 <- Table
  KeysymToKeycode <- Keycodes
  InitialSize <- FirstSize
  WindowSize <- Sizes
  FrameWidth = 2
  x_org = 3
  MaxUsed = 3
  QueueBound = 2
  Window = 1
INVARIANTS
  TypeOK
  HeldAsSent
  ClickLands

  
CHECK_DEADLOCK FALSE
