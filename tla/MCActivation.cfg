SPECIFICATION Spec
CONSTANTS
    Rosters = {"r1", "r2"}
    NoRoster = "none"
    MaxEpoch = 3
INVARIANTS OneRosterPerEpoch NewestPlanCarried ActiveIsFinal StagedBeforeActive
