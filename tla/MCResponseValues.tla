-------------------------- MODULE MCResponseValues --------------------------
(* Instance of ResponseValues for TLC: responses of at most two arguments, *)
(* with the values at the ends of each type.                               *)
EXTENDS ResponseValues, SequencesExt

\* A short and a longer string.
Ends == [type \in DOMAIN Values |->
    IF type = "string" THEN {0, 2}
    ELSE {v \in Values[type] : v \in {0, 1} \/ v + 1 \notin Values[type] \/ v - 1 \notin Values[type]}]

Arguments ==
    {[type |-> type, value |-> v, variant |-> variant] :
        type \in DOMAIN Values, v \in UNION {Ends[t] : t \in DOMAIN Values}, variant \in BOOLEAN}

MCArguments == {argument \in Arguments : argument.value \in Ends[argument.type]}

MCResponses == BoundedSeq(MCArguments, 2)
=============================================================================
