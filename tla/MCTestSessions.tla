---------------------------- MODULE MCTestSessions --------------------------
(* Applications, plans and measurements for the run of TestSessions. *)
EXTENDS TestSessions, TLC

CONSTANTS k6, node, d1, d2

\* The second deployer tests in the namespace of the first suite.
SharedFirst == d1 :> <<k6, node>> @@ d2 :> <<k6>>

Point(x, t) == [scenario |-> x, time |-> t]
\* Two requests in one unit of time are enough for scenario u5; the first is not
\* counted.  One request alone, an unknown scenario, and none at all.
Measurements ==
    { <<Point("u5", 0), Point("u5", 0), Point("u5", 1)>>,
      <<Point("u5", 0), Point("u5", 0), Point("u5", 2)>>,
      <<Point("u5", 0)>>,
      <<Point("u5", 0), Point("u7", 0)>>,
      <<>> }
Rates == [x \in {"u5"} |-> 2]
=============================================================================
