SPECIFICATION Spec
CONSTANTS
  imu = imu
  conn = conn
  button = button
  Timers = {imu, button}
  Repeated = {imu}
  Interval <- TwoTimers
  BootTimer = imu
  LowTimers = {button}
  EdgeTimer = button
  OpQueueSize = 3
  Wrap = 33
  MaxLag = 2
  None = None
INVARIANTS
  TypeOK
  NeverOverdue
  NoRequestForgotten
PROPERTY
  NeverEarly
VIEW FromLatest
