---------------------------- MODULE Measurement ----------------------------
(***************************************************************************)
(* Measurement results and what they amount to (internal/measurement and   *)
(* the evidence rules of internal/ban/gravity.go).  A result keeps only    *)
(* what the rules read: its outcome, the authority and the independence it *)
(* was taken under, and whether it carries a measurement ID.               *)
(***************************************************************************)
EXTENDS Sequences

Outcomes == {"SUPPORTED", "CONTRADICTED", "INCONCLUSIVE", "ERROR",
             "UNSUPPORTED", "NOT_MEASURED"}

Authorities == {"FORMAL", "DETERMINISTIC_RUNTIME", "INSTRUMENTED",
                "EXPERIMENTAL", "OBSERVATIONAL", "MODEL_ESTIMATE", "UNKNOWN"}

Independences == {"INDEPENDENT", "PARTIALLY_INDEPENDENT", "MODEL_DERIVED",
                  "UNKNOWN"}

\* What a measurement contract fixes for every result taken under it.
Contracts == [authority : Authorities, independence : Independences]

Results == [outcome : Outcomes, authority : Authorities,
            independence : Independences, identified : BOOLEAN]

Authoritative(r) == r.authority \in {"FORMAL", "DETERMINISTIC_RUNTIME"}

\* Some result of the list ms has one of the outcomes os.
Reports(ms, os) == \E i \in DOMAIN ms : ms[i].outcome \in os

AuthoritativelyContradicted(ms) ==
    \E i \in DOMAIN ms : ms[i].outcome = "CONTRADICTED" /\ Authoritative(ms[i])

\* The outcome of AggregateResults: the scan returns at the first
\* authoritative contradiction, otherwise the counters decide, in this order.
AggregateOutcome(ms) ==
    IF AuthoritativelyContradicted(ms)       THEN "CONTRADICTED"
    ELSE IF Reports(ms, {"SUPPORTED"})       THEN "SUPPORTED"
    ELSE IF Reports(ms, {"CONTRADICTED"})    THEN "CONTRADICTED"
    ELSE IF Reports(ms, {"INCONCLUSIVE", "UNSUPPORTED", "NOT_MEASURED"})
                                             THEN "INCONCLUSIVE"
    ELSE IF Reports(ms, {"ERROR"})           THEN "ERROR"
    ELSE "NOT_MEASURED"

\* independentMeasuredOutcome: only identified, authoritative, independent
\* results count, and a contradiction among them wins.
Independent(r) ==
    r.identified /\ Authoritative(r) /\ r.independence = "INDEPENDENT"

IndependentOutcome(ms) ==
    LET counted == {ms[i].outcome : i \in {j \in DOMAIN ms : Independent(ms[j])}}
    IN  IF "CONTRADICTED" \in counted   THEN "CONTRADICTED"
        ELSE IF "SUPPORTED" \in counted THEN "SUPPORTED"
        ELSE "NOT_MEASURED"
=============================================================================
