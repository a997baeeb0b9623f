---------------------------- MODULE MCEngineTick ----------------------------
(* Instances of EngineTick and EngineShared for TLC.                       *)
EXTENDS EngineShared, TLC

CONSTANTS r1, r2

\* A short prompt and one of two chunks; replies of two tokens.
PromptOf == r1 :> 1 @@ r2 :> 2
BudgetOf == r1 :> 2 @@ r2 :> 2

\* What ends every request counts for all the trouble of a run.
CostOf ==
  "memory" :> 1 @@ "retire" :> 1 @@ "gpu" :> 1 @@ "fail" :> 2 @@ "other" :> 3
    @@ "embed" :> 3 @@ "insert" :> 3

\* Both engines shed rows.
CostOfSheds == "fail" :> 1 @@ "neighbour" :> 1
=============================================================================
