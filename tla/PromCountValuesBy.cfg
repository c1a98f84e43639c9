\* count_values with a by (job) clause.
CONSTANTS
    NaN <- NaNValue
    NaNValue = NaNValue
    NoModifier <- NoClause
    NoClause = NoClause
    NoValue = None
    None = None
    LabelSets <- MCLabelSets
    Values <- MCValues
    Params <- MCParams
    Modifiers <- MCModifiers
    CountValuesModifiers <- MCModifiersBy
    LabelName = "value"
    MaxItems = 3
SPECIFICATION Spec
INVARIANT CountValuesMatchesReference
\* One evaluation per behaviour: the expression has been evaluated.
CHECK_DEADLOCK FALSE
