SPECIFICATION MCSpec
CONSTANTS
  v1 = v1
  w1 = w1
  d1 = d1
  NoWorker = NoWorker
  Deliveries = {d1, d2}
  Devices = {v1}
  DeviceOf <- OneDevice
  Workers = {w1, w2}
  MaxAttempts = 2
  BatchSize = 2
  MaxRegistrations = 2
  MaxMishaps = 1
INVARIANTS
  ClaimsAreSound
  WellAddressed
PROPERTIES
  LateIsIdle
  ImplementsLifecycle
  DeliveriesEnd
