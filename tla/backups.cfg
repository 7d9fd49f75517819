SPECIFICATION MCSpec
CONSTANTS
    AutoRemoveFinished = TRUE
    Edits = FALSE
    JobFailures = TRUE
    CacheLag = FALSE
    MaxFaults = 1
INVARIANTS BackupCleaned CronOverlap RestoreSound
PROPERTIES BackupNoRerun BackupEnds CronCleans CronMeets RestoreEnds
CHECK_DEADLOCK FALSE
