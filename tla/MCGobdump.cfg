SPECIFICATION Spec
CONSTANTS
  Base = 16
  IntBytes = 2
  IdBits = 8
  Streams <- MCStreams
PROPERTIES ActsAsTypeTable DumpsWhatWasSent
