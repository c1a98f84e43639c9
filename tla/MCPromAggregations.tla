-------------------------- MODULE MCPromAggregations --------------------------
EXTENDS PromAggregations

CONSTANTS NaNValue, NoClause, None

(* A metric m scraped from two jobs, one of them also carrying an         *)
(* instance label.                                                         *)
MCLabelSets ==
    { [l \in {"__name__", "job"} |-> IF l = "job" THEN "a" ELSE "m"],
      [l \in {"__name__", "job"} |-> IF l = "job" THEN "b" ELSE "m"],
      [l \in {"__name__", "job", "instance"} |->
          CASE l = "job" -> "a" [] l = "instance" -> "x" [] OTHER -> "m"] }

MCValues == {1, 2, NaNValue}

MCParams == {NaNValue, -1, 0, 1, 2}

MCModifiers ==
    {NoClause} \cup [kind: {"by", "without"}, labels: {{"job"}}]

MCModifiersBy == [kind: {"by"}, labels: {{"job"}}]
=============================================================================
