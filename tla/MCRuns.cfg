SPECIFICATION Spec
INVARIANTS
    VerdictEarned
    EvalHonest
    SurfaceAsAsked
    SkillsKept
