SPECIFICATION LimiterSpec
CONSTANTS
    Callers = {r1, r2, r3}
    Prompts = {0, 1, 2, 3}
    Limits <- MCLimits
INVARIANT
    PaidUnlessOvertaken
PROPERTY
    AdmittedInTheEnd
