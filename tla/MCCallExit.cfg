\* One call that the bridge answers, one control, one fault.
SPECIFICATION Spec
CONSTANTS
  MaxCalls = 1
  UplinkDepth = 1
  DownlinkDepth = 1
  MaxSpeech = 0
  MaxPcm = 0
  MaxControls = 1
  MaxFaults = 1
PROPERTIES
  EveryExit
CHECK_DEADLOCK FALSE
