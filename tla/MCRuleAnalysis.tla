--------------------------- MODULE MCRuleAnalysis ---------------------------
(***************************************************************************)
(* For TLC, in one run: the calls that run rules (two rules, of which one   *)
(* calculates; a call beside one of each other kind) and the limiter that   *)
(* every pool their rules wait for is made of.  The two share no state, and *)
(* a behaviour moves one of them.                                           *)
(***************************************************************************)
EXTENDS RuleAnalysis, Limiter, TLC

VARIABLE part
analysisVars == <<vars, limiterVars, part>>

MCDepends == (1 :> {"f1"}) @@ (2 :> {"f1", "f2"})

Ask(mode, ids, named, fields, persist) ==
  [mode |-> mode, ids |-> ids, named |-> named, fields |-> fields,
   simple |-> FALSE, persist |-> persist]

CONSTANTS c1, c2

MCRequests ==
  (c1 :> {Ask("async", "named", {2}, {"f1", "f2"}, TRUE)}) @@
  (c2 :> {Ask("sync", "named", {1, 2}, {"f1"}, TRUE), Ask("sync", "named", {1}, {}, TRUE),
          [Ask("async", "named", {2}, {"f1", "f2"}, TRUE) EXCEPT !.simple = TRUE],
          Ask("stream", "all", {}, {"f1", "f2"}, FALSE),
          Ask("stage", "all", {}, {"f1", "f2"}, FALSE)})

-----------------------------------------------------------------------------

AnalysisInit ==
  /\ part \in {"rules", "limiter"}
  /\ Init /\ LimiterInit
  /\ part # "limiter" => limit = CHOOSE n \in Limits : TRUE

AnalysisNext ==
  \/ part = "rules" /\ Next /\ UNCHANGED <<limiterVars, part>>
  \/ part = "limiter" /\ LimiterNext /\ UNCHANGED <<vars, part>>

AnalysisSpec == AnalysisInit /\ [][AnalysisNext]_analysisVars /\ Fairness /\ LimiterFairness
=============================================================================
