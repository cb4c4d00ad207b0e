SPECIFICATION NemoSpec
CONSTANTS
    Waves = 2
    WaveJobs = 2
    MaxErrors = 3
    BatchSize = 2
    MaxRows = 4
    MaxSource = 3
    MaxRuns = 3
INVARIANTS NemoTypeOK PublishedInOrder WavesWhole CompletedCovers
CHECK_DEADLOCK FALSE
