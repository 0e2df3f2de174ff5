------------------------------ MODULE Envelope ------------------------------
(***************************************************************************)
(* The envelope every tool answers in (core/envelope.py), with the errors  *)
(* of core/error_responses.py.  Summaries, limits and dates are left out.  *)
(* Warnings are told apart by the source they are about.                   *)
(***************************************************************************)
EXTENDS Naturals, FiniteSets

CONSTANT None

\* What was left out is told as far as the total is known.
ResultInfo(returned, matched) ==
    [returned |-> returned, matched |-> matched,
     truncated |-> IF matched = None THEN None ELSE matched > returned]

\* rows[:limit], whatever the order.
Cut(rows, limit) ==
    {shown \in SUBSET rows :
        Cardinality(shown) = IF Cardinality(rows) > limit THEN limit ELSE Cardinality(rows)}

\* The codes that promise that trying again may help.
Temporary == {"source_unavailable", "source_rate_limited", "warming_up", "source_timeout"}

Success(data, matched, freshness, warnings) ==
    [ok |-> TRUE, code |-> None, temporary |-> FALSE, freshness |-> freshness, data |-> data,
     info |-> ResultInfo(Cardinality(data), matched), warnings |-> warnings, counts |-> {}]

Failure(code, freshness, warnings) ==
    [ok |-> FALSE, code |-> code, temporary |-> code \in Temporary, freshness |-> freshness,
     data |-> {}, info |-> ResultInfo(0, None), warnings |-> warnings, counts |-> {}]

\* A success for each way to cut the rows.
Listed(rows, limit, freshness, warnings) ==
    {Success(shown, Cardinality(rows), freshness, warnings) : shown \in Cut(rows, limit)}

ValidationError == Failure("validation_error", "unknown", {})
SourceError(warnings) == Failure("source_unavailable", "broken", warnings)

\* An exception leaves the tool: its caller gets the error of the protocol, no envelope.
Raised == Failure("raised", "broken", {})

=============================================================================
