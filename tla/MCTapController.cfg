SPECIFICATION Spec
INVARIANTS TypeOK OneHot FiveOnesOnlyConfirms TdoCarriesSelected
PROPERTY ImplementsDrScan
