\* sum, stdvar, topk/bottomk and count_values over instant vectors of up to
\* three samples; count_values without a by/without clause.
CONSTANTS
    NaN <- NaNValue
    NaNValue = NaNValue
    NoModifier <- NoClause
    NoClause = NoClause
    NoValue = None
    None = None
    LabelSets <- MCLabelSets
    Values <- MCValues
    Params <- MCParams
    Modifiers <- MCModifiers
    CountValuesModifiers = {NoClause}
    LabelName = "value"
    MaxItems = 3
SPECIFICATION Spec
INVARIANT SumMatchesReference
INVARIANT StatisticsMatchReference
INVARIANT TopSelectsExtremes
INVARIANT CountValuesMatchesReference
\* One evaluation per behaviour: the expression has been evaluated.
CHECK_DEADLOCK FALSE
