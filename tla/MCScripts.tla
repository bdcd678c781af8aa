------------------------------ MODULE MCScripts ------------------------------
(***************************************************************************)
(* One TLC run for the days of a run and for the two scripts that spend    *)
(* the calls of a model outside the service, which share no variable: the  *)
(* batches of seven-day simulations and the semantic evaluation of the     *)
(* agents.  A behaviour is one of one of them, chosen in its initial       *)
(* state; the variables of the others keep their initial values.           *)
(***************************************************************************)
EXTENDS DayBoundary, SimulationBatch, SemanticEvaluation, TLC

VARIABLE part

\* callers and conversations are interchangeable: no definition orders them
ScriptsSymmetry == Permutations(Steppers) \cup Permutations(Convs)

\* The instance of the evaluation: a retrieval and a text case, and a case that is skipped;
\* calls for everything and a calibration, and for less than that.
TextCase(needs) == [protocol |-> "text", available |-> TRUE, needs |-> needs]
RetrievalCase(available) ==
    [protocol |-> "memory_retrieval", available |-> available, needs |-> {}]
SmallCaseFiles == {<<RetrievalCase(FALSE), TextCase({"embedding"})>>,
                   <<TextCase({"postgres"}), RetrievalCase(TRUE)>>}
SmallBudgets == {[candidate |-> 2, judge |-> 4, embedding |-> 2, cost |-> 7],
                 [candidate |-> 2, judge |-> 2, embedding |-> 1, cost |-> 5]}
EveryOther == <<1, 2>>

ScriptsInit ==
    /\ part \in {"days", "batch", "evaluation"}
    /\ Init /\ SimInit /\ EvalInit

ScriptsNext ==
    \/ part = "days" /\ Next /\ UNCHANGED <<part, simVars, evalVars>>
    \/ part = "batch" /\ SimNext /\ UNCHANGED <<part, vars, evalVars>>
    \/ part = "evaluation" /\ EvalNext /\ UNCHANGED <<part, vars, simVars>>

ScriptsSpec == ScriptsInit /\ [][ScriptsNext]_<<part, vars, simVars, evalVars>>

\* The type invariants of the modules.
ScriptsTypeOK == DayTypeOK /\ SimTypeOK /\ EvalTypeOK
=============================================================================
