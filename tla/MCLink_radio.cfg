SPECIFICATION LinkSpec
CONSTANTS
  MaxUplinks = 5
  MaxFaults = 1
  RtcFrames = 2
  FramesPerTimeout = 1
  MaxFiles = 1
  Payloads <- TrickyPayload
  MaxDownlinks = 2
  MaxBridgeFaults = 1
  MaxMishaps = 1
  MaxTraffic = 5
  Capacity = 8
INVARIANT LinkTypeOK
INVARIANT RtcUnsent
INVARIANT DownlinksIntact
INVARIANT AckedIsForwarded
PROPERTY ImplementsLoRaLine
