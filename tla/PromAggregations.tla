--------------------------- MODULE PromAggregations ---------------------------
(***************************************************************************)
(* The grouping core shared by the PromQL aggregation operators          *)
(* (src/service/promql/aggregations/mod.rs): labels_to_include /         *)
(* labels_to_exclude, eval_arithmetic with the sum handler, eval_top      *)
(* (topk / bottomk) and eval_count_values, each over one instant vector. *)
(*                                                                         *)
(* A sample's value is an integer or the model value NaN; a label set is  *)
(* a function from label names to label values. A group is keyed by its  *)
(* label set: the u64 signature of the code is taken to be collision-free.*)
(* eval_top's output, data[index] cloned for each selected index, is     *)
(* kept as the sequence of selected indices.                              *)
(***************************************************************************)
EXTENDS Integers, Sequences, SequencesExt, FiniteSets, Functions, TLC

CONSTANTS
    LabelSets,             \* label sets a sample may carry
    Values,                \* sample values: integers and NaN
    NaN,                   \* the floating-point NaN
    Params,                \* topk/bottomk parameters as evaluated floats
    Modifiers,             \* by (...) / without (...) clauses, or NoModifier
    NoModifier,            \* no by/without clause
    CountValuesModifiers,  \* the clauses count_values is evaluated with
    LabelName,             \* the label name given to count_values
    MaxItems,              \* bound on the length of the instant vector
    NoValue                \* Value::None, and no result yet

VARIABLES
    fn,        \* the aggregation evaluated
    modifier,  \* its by/without clause
    param,     \* the topk/bottomk parameter
    data,      \* the instant vector: <<[labels, value]>>, or NoValue
    result     \* what the evaluation returned; NoValue before it runs

vars == <<fn, modifier, param, data, result>>

NAME_LABEL == "__name__"

Item == [labels: LabelSets, value: Values]

Inputs == {NoValue} \cup UNION {[1..n -> Item] : n \in 0..MaxItems}

NoLabels == [n \in {} |-> NoValue]

(* The sum handler passed to eval_arithmetic: NaN absorbs                  *)
Plus(total, val) == IF total = NaN \/ val = NaN THEN NaN ELSE total + val

(* f64 as usize saturates: NaN and negatives become 0                     *)
AsUsize(v) == IF v = NaN THEN 0 ELSE IF v < 0 THEN 0 ELSE v

(* f64::to_string on the sample values                                    *)
FloatToString(v) == IF v = NaN THEN "NaN" ELSE ToString(v)

-----------------------------------------------------------------------------
LabelsToInclude(include, actual) == Restrict(actual, DOMAIN actual \cap include)

(* Mutant: without (...) keeping the metric name                           *)
LabelsToExcludeKeepName(exclude, actual) ==
    Restrict(actual, DOMAIN actual \ exclude)

LabelsToExclude(exclude, actual) ==
    Restrict(actual, DOMAIN actual \ (exclude \cup {NAME_LABEL}))

(* The group a sample falls in under the clause                           *)
SumLabels(mod, actual) ==
    CASE mod = NoModifier    -> NoLabels
      [] mod.kind = "by"      -> LabelsToInclude(mod.labels, actual)
      [] mod.kind = "without" -> LabelsToExclude(mod.labels, actual)

(* eval_arithmetic_processor: find or create the group's entry, fold the *)
(* value in with the handler and count it                                 *)
ArithmeticProcessor(score, g, v) ==
    LET e == IF g \in DOMAIN score THEN score[g] ELSE [value |-> 0, num |-> 0]
    IN  (g :> [value |-> Plus(e.value, v), num |-> e.num + 1]) @@ score

EvalArithmetic(mod, d) ==
    IF d = NoValue THEN NoValue
    ELSE FoldLeft(LAMBDA score, item :
                    ArithmeticProcessor(score, SumLabels(mod, item.labels), item.value),
                  << >>, d)

(* Mutant: the value counted and summed but not kept                      *)
StdDevVarProcessorNoPush(score, g, v) ==
    LET e == IF g \in DOMAIN score THEN score[g]
             ELSE [values |-> << >>, count |-> 0, sum |-> 0]
    IN  (g :> [values |-> e.values, count |-> e.count + 1,
               sum |-> Plus(e.sum, v)]) @@ score

(* eval_std_dev_var_processor: the group's values in input order, their *)
(* count and running sum (the running mean is their quotient)             *)
StdDevVarProcessor(score, g, v) ==
    LET e == IF g \in DOMAIN score THEN score[g]
             ELSE [values |-> << >>, count |-> 0, sum |-> 0]
    IN  (g :> [values |-> Append(e.values, v), count |-> e.count + 1,
               sum |-> Plus(e.sum, v)]) @@ score

EvalStdDevVar(mod, d) ==
    IF d = NoValue THEN NoValue
    ELSE FoldLeft(LAMBDA score, item :
                    StdDevVarProcessor(score, SumLabels(mod, item.labels), item.value),
                  << >>, d)

(* eval_top's FxIndexMap: groups in order of their first non-NaN sample, *)
(* each with the indices of its non-NaN samples in input order            *)
TopGroups(mod, d) ==
    FoldLeft(LAMBDA groups, i :
               IF d[i].value = NaN THEN groups
               ELSE LET g == SumLabels(mod, d[i].labels)
                        j == SelectInSeq(groups, LAMBDA e : e.sig = g)
                    IN IF j = 0 THEN Append(groups, [sig |-> g, items |-> <<i>>])
                       ELSE [groups EXCEPT ![j].items = Append(@, i)],
             << >>, [i \in 1..Len(d) |-> i])

(* Mutant: bottomk ordered like topk                                       *)
TopComparatorSwapped(d, isBottom, i, j) ==
    \/ d[i].value > d[j].value
    \/ d[i].value = d[j].value /\ i < j

(* items.sort_by(comparator): a stable sort, ascending for bottomk and   *)
(* descending for topk; equal values keep their input order               *)
TopComparator(d, isBottom, i, j) ==
    \/ IF isBottom THEN d[i].value < d[j].value ELSE d[i].value > d[j].value
    \/ d[i].value = d[j].value /\ i < j

EvalTop(p, d, mod, isBottom) ==
    IF d = NoValue THEN NoValue
    ELSE LET n == AsUsize(p)
             Sorted(g) == SetToSortSeq(Range(g.items),
                                       LAMBDA i, j : TopComparator(d, isBottom, i, j))
             Take(s) == SubSeq(s, 1, IF n < Len(s) THEN n ELSE Len(s))
         IN FlattenSeq([j \in DOMAIN TopGroups(mod, d) |->
                          Take(Sorted(TopGroups(mod, d)[j]))])

(* Mutant: the None branch without the label_name = value label            *)
CountValuesLabelsUnset(mod, item) == NoLabels

(* The labels a sample is counted under: with no clause, only            *)
(* label_name = its value; with by/without, label_name is added to the   *)
(* clause's list of label names.                                           *)
CountValuesLabels(mod, item) ==
    CASE mod = NoModifier    -> (LabelName :> FloatToString(item.value))
      [] mod.kind = "by"      -> LabelsToInclude(mod.labels \cup {LabelName}, item.labels)
      [] mod.kind = "without" -> LabelsToExclude(mod.labels \cup {LabelName}, item.labels)

EvalCountValues(mod, d) ==
    IF d = NoValue THEN NoValue
    ELSE FoldLeft(LAMBDA score, item :
                    LET g == CountValuesLabels(mod, item)
                    IN (g :> (IF g \in DOMAIN score THEN score[g] ELSE 0) + 1) @@ score,
                  << >>, d)

-----------------------------------------------------------------------------
Init ==
    /\ fn \in {"sum", "stdvar", "topk", "bottomk", "count_values"}
    /\ modifier \in Modifiers
    /\ param \in Params
    /\ data \in Inputs
    /\ fn = "count_values" => modifier \in CountValuesModifiers
    /\ result = NoValue

Sum ==
    /\ fn = "sum" /\ result = NoValue
    /\ result' = EvalArithmetic(modifier, data)
    /\ UNCHANGED <<fn, modifier, param, data>>

StdDevVar ==
    /\ fn = "stdvar" /\ result = NoValue
    /\ result' = EvalStdDevVar(modifier, data)
    /\ UNCHANGED <<fn, modifier, param, data>>

Top ==
    /\ fn \in {"topk", "bottomk"} /\ result = NoValue
    /\ result' = EvalTop(param, data, modifier, fn = "bottomk")
    /\ UNCHANGED <<fn, modifier, param, data>>

CountValues ==
    /\ fn = "count_values" /\ result = NoValue
    /\ result' = EvalCountValues(modifier, data)
    /\ UNCHANGED <<fn, modifier, param, data>>

Next == Sum \/ StdDevVar \/ Top \/ CountValues

Spec == Init /\ [][Next]_vars

-----------------------------------------------------------------------------
(* Reference grouping, from the PromQL definition of by / without: by    *)
(* keeps exactly the listed labels, without drops them and the metric    *)
(* name, and no clause puts every sample in one group.                   *)
RefGroup(mod, l) ==
    LET Kept(m) == IF mod = NoModifier THEN FALSE
                   ELSE IF mod.kind = "by" THEN m \in mod.labels
                   ELSE m \notin mod.labels /\ m # NAME_LABEL
    IN  [m \in {x \in DOMAIN l : Kept(x)} |-> l[m]]

Evaluated(f) == fn \in f /\ result # NoValue /\ data # NoValue

(* sum by/without returns one entry per group of the input, holding the   *)
(* number of samples of the group and their sum (NaN if any is NaN).       *)
SumMatchesReference ==
    Evaluated({"sum"}) =>
      LET Members(g) == {i \in DOMAIN data : RefGroup(modifier, data[i].labels) = g}
          Groups == {RefGroup(modifier, data[i].labels) : i \in DOMAIN data}
      IN  /\ DOMAIN result = Groups
          /\ \A g \in Groups :
               /\ result[g].num = Cardinality(Members(g))
               /\ result[g].value =
                    IF \E i \in Members(g) : data[i].value = NaN THEN NaN
                    ELSE MapThenSumSet(LAMBDA i : data[i].value, Members(g))

(* stddev / stdvar by/without collects, per group, the values of the    *)
(* group's samples in input order with their count and sum, from which   *)
(* the deviation is computed.                                             *)
StatisticsMatchReference ==
    Evaluated({"stdvar"}) =>
      LET Grp(i) == RefGroup(modifier, data[i].labels)
          Groups == {Grp(i) : i \in DOMAIN data}
          Members(g) == SetToSortSeq({i \in DOMAIN data : Grp(i) = g}, <)
      IN  /\ DOMAIN result = Groups
          /\ \A g \in Groups :
               /\ result[g].values = [x \in DOMAIN Members(g) |-> data[Members(g)[x]].value]
               /\ result[g].count = Len(Members(g))
               /\ result[g].sum =
                    IF \E x \in DOMAIN Members(g) : data[Members(g)[x]].value = NaN THEN NaN
                    ELSE MapThenSumSet(LAMBDA i : data[i].value, Range(Members(g)))

(* topk(k) / bottomk(k) selects, in every group, the min(k, size) non-NaN *)
(* samples with the largest (smallest) values, k below 1 selecting none,  *)
(* each sample at most once, and lists the samples of a group best first. *)
(* NaN samples are skipped by eval_top, where Prometheus would rank them *)
(* last; the reference follows the code on that point.                    *)
TopSelectsExtremes ==
    Evaluated({"topk", "bottomk"}) =>
      LET k == IF param = NaN THEN 0 ELSE IF param < 1 THEN 0 ELSE param
          AtLeastAsGood(a, b) == IF fn = "topk" THEN a >= b ELSE a <= b
          Valid == {i \in DOMAIN data : data[i].value # NaN}
          Sel == Range(result)
          Grp(i) == RefGroup(modifier, data[i].labels)
      IN  /\ IsInjective(result)
          /\ Sel \subseteq Valid
          /\ \A g \in {Grp(i) : i \in Valid} :
               LET M == {i \in Valid : Grp(i) = g}
               IN  /\ Cardinality(Sel \cap M) = Min({k, Cardinality(M)})
                   /\ \A i \in Sel \cap M, j \in M \ Sel :
                         AtLeastAsGood(data[i].value, data[j].value)
          /\ \A x \in 1..(Len(result) - 1) :
               Grp(result[x]) = Grp(result[x + 1]) =>
                  AtLeastAsGood(data[result[x]].value, data[result[x + 1]].value)

(* count_values("label", v) counts the samples of each group that have the *)
(* same value: its groups are the by/without groups extended with label = *)
(* the value's decimal text.                                               *)
CountValuesMatchesReference ==
    Evaluated({"count_values"}) =>
      LET Key(i) == (LabelName :> FloatToString(data[i].value))
                      @@ RefGroup(modifier, data[i].labels)
          Groups == {Key(i) : i \in DOMAIN data}
      IN  /\ DOMAIN result = Groups
          /\ \A g \in Groups : result[g] = Cardinality({i \in DOMAIN data : Key(i) = g})
=============================================================================
