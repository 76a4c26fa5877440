SPECIFICATION ProgramSpec
CONSTANTS
  Length = 3
  Inputs <- MCInputs
  Threshold_Value = 0
  min = 1
  MaxUpdates = 7
  SamplesPerCycle = 4
  Freq = 6
  RawFreq = 4
  RawCount = 6
  MaxSeconds = 3
  Channels = 4
  Samples = 2
  PkgTotal = 2
  Radix = 4
  Codes <- MCCodes
  Ns = {1, 3}
  MaxSamples = 3
  HalfWindow = 4
  OutSamples = 2
  Spare <- MCSpare
  Voltages <- MCVoltages
  Offsets <- MCOffsets
  Points = 4
  Fsample = 12
  Fdtm = 3
  DftPoints = 2
  Inputs_I = 2
  Devices = {"AM18XX", "AM33XX", "other"}
  OpenHosts = {0}
  IntcData <- MCIntcData
  Files <- MCFiles
  Blocks <- MCBlocks
  WordOffsets = {0, 1}
  Entries = {8}
  Sent <- MCSent
  Numbers = {1}
INVARIANTS
  ProgramTypeOK
  WindowMean MeansOfSecond LogOfSeconds
  SamplesFaithful
  DecompositionOfSample WindowsOfSamples
PROPERTIES
  SlidesOverInputs DriverConsistent
