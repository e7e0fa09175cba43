SPECIFICATION LinkSpec
CONSTANTS
  MaxUplinks = 0
  MaxFaults = 0
  RtcFrames = 1
  FramesPerTimeout = 1
  MaxFiles = 1
  Payloads <- ShortPayloads
  MaxDownlinks = 2
  MaxBridgeFaults = 1
  MaxMishaps = 1
  MaxTraffic = 5
  Capacity = 8
INVARIANT LineResyncs
