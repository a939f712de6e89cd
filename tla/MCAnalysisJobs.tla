--------------------------- MODULE MCAnalysisJobs ---------------------------
(* Small instances of AnalysisJobs: two requests, of two calls or of one   *)
(* call and its retry.                                                     *)
EXTENDS AnalysisJobs

\* Nothing tells the languages apart but whether they are equal, so the language
\* of the first call is given.
OneIsZh == Init /\ locale[1] = "zh"

TwoRequests == OneIsZh /\ [][Next]_vars /\ Fairness
=============================================================================
