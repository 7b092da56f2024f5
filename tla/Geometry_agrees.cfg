SPECIFICATION Spec
CONSTANTS
    Axes = 4
    Order = 3
    Prime = 97
    MaxDimension = 4
    MaxCharts = 2
    MaxLieDimension = 8
    MaxMomenta = 8
    CensusBudget = 3
    MaxTrace = 3
    BasisDimension = 8
    ComponentEntries = 64
    MaxFactors = 24
PROPERTIES RelativityIsConsistent FormsAreConsistent GaugeTheoryIsConsistent AmplitudesAgree NumeratorsAgree
