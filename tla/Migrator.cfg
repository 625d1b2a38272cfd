\* Three migrations, any directory of them, and four commands of which two
\* are cut.
SPECIFICATION Spec
CONSTANTS
    Versions = {1, 2, 3}
    MaxCommands = 4
    MaxFaults = 2
INVARIANTS
    MigratorTypeOK
    RecordAccuracy
PROPERTIES
    StepsInOrder
    UpApplies
\* The commands are used up.
CHECK_DEADLOCK FALSE
