SPECIFICATION Spec
CONSTANTS
  imu = imu
  conn = conn
  button = button
  Timers = {imu, button}
  Repeated = {imu}
  Interval <- SlowTimers
  BootTimer = imu
  LowTimers = {button}
  EdgeTimer = button
  OpQueueSize = 3
  Wrap = 51
  MaxLag = 4
  None = None
INVARIANTS
  TimerExpiresOnce
VIEW FromLatest
