\* Two calls, queues of one frame, two frames and two controls a call, one fault.
SPECIFICATION FairSpec
CONSTANTS
  MaxCalls = 2
  UplinkDepth = 1
  DownlinkDepth = 1
  MaxSpeech = 2
  MaxPcm = 2
  MaxControls = 2
  MaxFaults = 1
INVARIANTS
  TypeOK
  ExitReleases
PROPERTIES
  AudioFlows
  TroubleEnds
\* The daemon and the phone may idle for good.
CHECK_DEADLOCK FALSE
