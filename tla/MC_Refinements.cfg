SPECIFICATION Spec
CONSTANTS
    r1 = r1
    r2 = r2
    Reviewers = {r1, r2}
    Drafts <- MCDrafts
    Rank <- MCRank
    Note <- MCNote
    Targets <- MCTargets
    Original <- MCOriginal
    Batches <- MCBatches
    Starts <- MCStarts
    Absent = Absent
    NoFront = NoFront
    BadFront = BadFront
    NoSection = NoSection
    NoKey = NoKey
    NoTarget = NoTarget
INVARIANTS
    RefinementsTypeOK
    AppliedOnce
PROPERTIES
    TargetChangesByMerges
CHECK_DEADLOCK FALSE
