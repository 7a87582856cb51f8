\* Two records of one or two tables, four slices, two of them to the hour.
CONSTANTS
    NumSlices = 4
    SlicesPerHour = 2
    NumRecords = 2
    MaxTables = 2
SPECIFICATION StatsSpec
INVARIANTS
    VerdictIsRight
