SPECIFICATION MCSpec
CONSTANTS
    NPayments = 3
    NCharges = 3
    MaxAmount = 3
    Month = 3
    Week = {1, 2}
    Kinds = {"monthly_fixed", "registration_fee"}
    Prices = {1005}
    RuleSets <- MCRuleSets
    FirstRules <- MCFirstRules
    FixedValues = {300}
    PercentValues = {3333}
    Enrollments = {0, 2}
    MaxEdits = 2
INVARIANTS GivesCommonStretch WindowsAreEnrolledDays SimulatedAsBilled RecomputedAlike SplitBillsTheMonth
CHECK_DEADLOCK FALSE
