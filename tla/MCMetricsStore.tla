--------------------------- MODULE MCMetricsStore ---------------------------
(* Small instances of MetricsStore for TLC. *)
EXTENDS MetricsStore

\* As long as MaxAge, and longer.
MCSpans == {1, 2}
=============================================================================
