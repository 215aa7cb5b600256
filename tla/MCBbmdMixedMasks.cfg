SPECIFICATION Spec
CONSTANTS
  b1 = b1
  b2 = b2
  h1 = h1
  h2 = h2
  f1 = f1
  f2 = f2
  NoDevice = NoDevice
  Bbmds = {b1, b2}
  Hosts = {h1, h2}
  ForeignDevices = {f1, f2}
  Home <- Homes
  Sources = {h2, f1}
  MaxBbmdEntries = 2
  MaxFdEntries = 2
  Masks <- MixedMasks
  TimesToLive = {0, 1}
  Grace = 1
  ElapsedSeconds = {1, 2}
INVARIANTS HostsHearOnce
