CONSTANTS
    d1 = d1
    d2 = d2
    d3 = d3
    Discoveries = {d1, d2, d3}
    MaxRetained = 2
    MaxJobs = 4
    MaxFaults = 3
SPECIFICATION Spec
SYMMETRY Symmetry
CHECK_DEADLOCK FALSE
INVARIANTS CandidateKept AppliedOnce OutcomeIsFinal
