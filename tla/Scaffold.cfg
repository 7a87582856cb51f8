\* Two jobs that may share paths, three runs of the generator and two mishaps.
CONSTANTS
    Jobs = {"orders", "trades"}
    Domains = {"d1", "d2"}
    Platforms = {"p1", "p2"}
    Snakes = {"orders", "trades"}
    Subjects = {"s1", "s2"}
    Names = {"t1", "t2"}
    Texts = {"x", "y"}
    Bodies = {"plain"}
    Drafts <- MCDrafts
    MaxRuns = 3
    MaxMishaps = 2
SPECIFICATION Spec
INVARIANTS
    NoDanglingReference
    RegenerationIsIdempotent
PROPERTY
    CurrentUntilForced
