SPECIFICATION Spec
CONSTANTS
    Config <- MC_Config
    Level <- MC_Level
    NaN = NaN
    Index = {90, 100, NaN}
    Impact = {0, 15, 21, 90, NaN}
INVARIANTS
    TypeOK
    AdmittedIsLowRisk
    FundingRatioNeverDecides
PROPERTIES
    EdnsMonotone
    NoRewardForWorse
