SPECIFICATION Spec
CONSTANTS
  imu = imu
  conn = conn
  button = button
  Timers = {imu, conn, button}
  Repeated = {imu}
  Interval <- ThreeTimers
  BootTimer = imu
  LowTimers = {conn}
  EdgeTimer = button
  OpQueueSize = 2
  Wrap = 33
  MaxLag = 0
  None = None
INVARIANTS
  DeltasAddUp
  TickNeverLost
VIEW FromLatest
