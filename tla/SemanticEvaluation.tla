------------------------- MODULE SemanticEvaluation -------------------------
(***************************************************************************)
(* The semantic evaluation of the agents: one evaluation of the selected   *)
(* cases under a budget (EvaluationRunner.run), the calibration of its     *)
(* judge under what is left of that budget, the two files they are saved   *)
(* in, the script that later resumes a calibration, and the script that    *)
(* qualifies another judge on the saved answers.  Every call of a model    *)
(* may fail, take too long or cost several requests, and a script may be   *)
(* killed at any point.                                                    *)
(***************************************************************************)
EXTENDS Integers, Sequences, FiniteSets, SequencesExt

CONSTANTS
    CaseFiles,             \* what may be selected: a set of sequences of Cases
    Budgets,               \* records candidate, judge, embedding (calls) and cost
    CandidateRepetitions,  \* candidate_repetitions
    JudgeSampleRate,       \* judge_sample_rate, <<numerator, denominator>>
    JudgeRepeatRate,       \* judge_repeat_sample_rate
    ProviderRetries,       \* of the Ark clients, for one attempt
    CalibrationItems,      \* number of cases of the calibration file, taken in order
    ResumeCap,             \* --max-incremental-cost-cny
    MaxResumes,            \* bound on the resumes and the qualifications of a judge
    MaxKills               \* bound on the kills

Items == 1 .. CalibrationItems
Kinds == {"candidate", "judge", "embedding"}
Cases == [protocol : {"text", "memory_retrieval"}, available : BOOLEAN,
          needs : SUBSET {"postgres", "embedding"}]

\* EvaluationBudget: limits for one evaluation, none of them negative.
EvaluationBudgets == [Kinds \cup {"cost"} -> Nat]

ASSUME EvaluationAssumption ==
    /\ \A cases \in CaseFiles : cases \in Seq(Cases)
    /\ Budgets \subseteq EvaluationBudgets /\ Budgets # {}
    /\ CandidateRepetitions \in Nat \ {0} /\ CalibrationItems \in Nat \ {0}
    /\ \A rate \in {JudgeSampleRate, JudgeRepeatRate} :
           rate \in Nat \X (Nat \ {0}) /\ rate[1] <= rate[2]
    /\ {ProviderRetries, ResumeCap, MaxResumes, MaxKills} \subseteq Nat

VARIABLES
    evaluation,   \* where EvaluationRunner.run is, and the results of its cases
    execution,    \* EvaluationExecution, and execution of the report it becomes
    calibration,  \* where _live_calibration_report is, and its results
    artifacts,    \* the files: report, calibration and completion, << >> or << content >>
    scripts       \* how many resumes and kills there were

evalVars == <<evaluation, execution, calibration, artifacts, scripts>>

-----------------------------------------------------------------------------
\* What is reserved for a request (max input and output tokens at their price), in units of
\* one request of a text model: every request is taken to cost that much.
ReservedCost == [candidate |-> 1, judge |-> 1, embedding |-> 0]

\* A structured answer is asked for twice at most, each time with the retries of the client.
MaxRequests == 2 * (1 + ProviderRetries)

\* JudgeAdapter.score: a valid score or, after the second malformed answer or an error of the
\* provider, an envelope without one.
JudgeScores == {"scored", "unscored"}

\* The requests an answer may stand for: the offline adapters make none but count one.
Requests(mode, kind) ==
    1 .. IF mode = "offline" \/ kind = "embedding" THEN 1 ELSE MaxRequests

CeilDiv(a, b) == (a + b - 1) \div b
FractionSample(ordinal, rate) ==
    CeilDiv((ordinal + 1) * rate[1], rate[2]) > CeilDiv(ordinal * rate[1], rate[2])

\* How often the judge is to score the observation of an ordinal (judge_repetitions is 1).
JudgeCount(mode, ordinal) ==
    IF ~FractionSample(ordinal, JudgeSampleRate) THEN 0
    ELSE IF mode = "live" /\ FractionSample(ordinal, JudgeRepeatRate) THEN 2 ELSE 1

\* _requirements_ok, without a database
Skipped(case, mode) ==
    "postgres" \in case.needs \/ ("embedding" \in case.needs /\ mode # "live")

NewExecution(mode, budget) ==
    [mode |-> mode, budget |-> budget, calls |-> [kind \in Kinds |-> 0], cost |-> 0,
     maxCost |-> budget.cost, completed |-> 0, complete |-> TRUE, exhausted |-> FALSE,
     timedOut |-> FALSE, errors |-> {}, resumed |-> FALSE]

\* _check_budget
Exceeded(x, kind) ==
    x.calls[kind] >= x.budget[kind] \/ x.cost + ReservedCost[kind] > x.budget.cost

\* _record_usage and the end of _call: what n requests for one answer leave in the counters
Charged(x, kind, n) ==
    LET calls == x.calls[kind] + n
        cost == IF x.mode = "offline" THEN x.cost ELSE x.cost + n * ReservedCost[kind]
    IN  [x EXCEPT !.calls[kind] = calls, !.cost = cost,
                  !.exhausted = @ \/ calls > x.budget[kind] \/ cost >= x.budget.cost]

\* _call and the handlers around it: refused by the budget, out of time before or after it
\* began, raising an error, or answered.
Failed(x) == [x EXCEPT !.complete = FALSE, !.errors = @ \cup {"evaluation"}]
CallOutcomes(x, kind) ==
    IF Exceeded(x, kind)
    THEN {[how |-> "refused", after |-> [x EXCEPT !.complete = FALSE, !.exhausted = TRUE]]}
    ELSE LET sent == [x EXCEPT !.calls[kind] = @ + 1]
         IN  {[how |-> "answered", after |-> Charged(x, kind, n)] :
                 n \in Requests(x.mode, kind)} \cup
             {[how |-> "late", after |-> [Failed(s) EXCEPT !.timedOut = TRUE]] :
                 s \in IF x.mode = "offline" THEN {x} ELSE {x, sent}} \cup
             (IF x.mode = "offline" THEN {}
              ELSE {[how |-> "failed", after |-> Failed(sent)]})

-----------------------------------------------------------------------------
\* EvaluationRunner.run.  evaluation is about the case being evaluated: its observations,
\* the reasons to review it, and the position of the loop over its observations.
NoEvaluation ==
    [stage |-> "off", cases |-> << >>, results |-> << >>, ordinal |-> 0, skip |-> FALSE,
     observations |-> << >>, reasons |-> {}, position |-> 1, attempt |-> 0]
NoCalibration ==
    [purpose |-> "none", todo |-> {}, verdict |-> [i \in Items |-> "none"], calls |-> 0,
     cost |-> 0, existing |-> 0, maxCalls |-> 0, maxCost |-> 0, stop |-> "none",
     complete |-> FALSE, judged |-> << >>]

Case == evaluation.cases[Len(evaluation.results) + 1]
To(stage) == [evaluation EXCEPT !.stage = stage]
InCase(stage) == evaluation.stage = stage /\ UNCHANGED <<calibration, artifacts, scripts>>

StartEvaluation ==
    \E mode \in {"dry-run", "offline", "live"}, cases \in CaseFiles, budget \in Budgets,
       skip \in BOOLEAN :
        /\ evaluation.stage = "off" /\ calibration.purpose = "none" /\ artifacts.report = << >>
        /\ mode # "live" => ~skip
        /\ execution' = NewExecution(mode, budget)
        /\ evaluation' = [NoEvaluation EXCEPT
               !.stage = IF mode = "dry-run" THEN "ended" ELSE "case",
               !.cases = cases, !.skip = skip]
        /\ UNCHANGED <<calibration, artifacts, scripts>>

CaseResult(status, observations, reasons) ==
    [status |-> status, observations |-> observations, reasons |-> reasons]

BeginCase ==
    /\ InCase("case") /\ Len(evaluation.results) < Len(evaluation.cases)
    /\ IF Skipped(Case, execution.mode)
       THEN evaluation' = [evaluation EXCEPT
                !.results = Append(@, CaseResult("skipped", << >>, {"required"}))]
       ELSE evaluation' = [To(IF Case.protocol = "text" THEN "candidate" ELSE "retrieval")
                EXCEPT !.observations = << >>, !.reasons = {}, !.position = 1, !.attempt = 0]
    /\ UNCHANGED execution

Observed(e, error) ==
    [e EXCEPT !.observations = Append(@, [error |-> error, judged |-> << >>]),
              !.ordinal = @ + 1]

\* A retrieval case exercises the embedding port and scores the hits its case carries.
Retrieve ==
    /\ InCase("retrieval")
    /\ IF Case.available
       THEN \E call \in CallOutcomes(execution, "embedding") :
                /\ execution' = call.after
                /\ evaluation' =
                     CASE call.how = "answered" -> Observed(To("close"), FALSE)
                       [] call.how = "failed" ->
                              [To("close") EXCEPT !.reasons = @ \cup {"embedding_failed"}]
                       [] OTHER -> To("close")
       ELSE evaluation' = Observed(To("close"), FALSE) /\ UNCHANGED execution

\* The repetitions of the candidate; a failed one leaves an observation with its error.
AskCandidate ==
    /\ InCase("candidate")
    /\ Len(evaluation.observations) < CandidateRepetitions /\ ~execution.exhausted
    /\ \E call \in CallOutcomes(execution, "candidate") :
           /\ execution' = call.after
           /\ evaluation' = CASE call.how = "answered" -> Observed(evaluation, FALSE)
                              [] call.how = "failed" -> Observed(evaluation, TRUE)
                              [] OTHER -> To("judge")

CandidateDone ==
    /\ InCase("candidate")
    /\ Len(evaluation.observations) = CandidateRepetitions \/ execution.exhausted
    /\ execution' = [execution EXCEPT
           !.complete = @ /\ Len(evaluation.observations) = CandidateRepetitions]
    /\ evaluation' = To("judge")

\* The ordinal of the observation at a position, in the stream the samples are taken from.
OrdinalAt(e, position) == e.ordinal - Len(e.observations) + position - 1
Owed == JudgeCount(execution.mode, OrdinalAt(evaluation, evaluation.position))
Judging == InCase("judge") /\ ~execution.timedOut
           /\ evaluation.position <= Len(evaluation.observations)

\* The next observation; a budget or a deadline that is over ends the loop.
NextPosition(e, x) ==
    IF x.exhausted \/ x.timedOut THEN [e EXCEPT !.stage = "embedding"]
    ELSE [e EXCEPT !.position = @ + 1, !.attempt = 0]

SkipObservation ==
    /\ Judging /\ Owed = 0
    /\ evaluation' = [evaluation EXCEPT !.position = @ + 1]
    /\ UNCHANGED execution

StopJudging ==
    /\ Judging /\ Owed > 0 /\ evaluation.attempt = 0 /\ execution.exhausted
    /\ execution' = [execution EXCEPT !.complete = FALSE]
    /\ evaluation' = To("embedding")

\* One score: valid, or none after two malformed answers or an error of the provider.
Scored(e, verdict) ==
    [e EXCEPT !.observations[e.position].judged = Append(@, verdict), !.attempt = @ + 1]
AskJudge ==
    /\ Judging /\ evaluation.attempt < Owed
    /\ evaluation.attempt = 0 => ~execution.exhausted
    /\ \E call \in CallOutcomes(execution, "judge"),
          verdict \in JudgeScores :
           /\ verdict = "unscored" => execution.mode = "live" /\ call.how = "answered"
           /\ execution' = IF verdict = "unscored" THEN Failed(call.after)
                           ELSE call.after
           /\ evaluation' =
                CASE call.how = "answered" ->
                         LET e == Scored(evaluation, verdict)
                         IN  IF e.attempt = Owed THEN NextPosition(e, execution') ELSE e
                  [] call.how = "failed" ->
                         NextPosition([evaluation EXCEPT !.reasons = @ \cup {"judge_failed"}],
                                      execution')
                  [] OTHER -> To("embedding")

JudgeDone ==
    /\ InCase("judge")
    /\ execution.timedOut \/ evaluation.position > Len(evaluation.observations)
    /\ evaluation' = To("embedding")
    /\ UNCHANGED execution

\* A text case may ask for the embedding port as well.
AskEmbedding ==
    /\ InCase("embedding")
    /\ IF "embedding" \in Case.needs /\ ~execution.timedOut
       THEN \E call \in CallOutcomes(execution, "embedding") :
                /\ execution' = call.after
                /\ evaluation' = [To("close") EXCEPT !.reasons =
                       IF call.how = "failed" THEN @ \cup {"embedding_failed"} ELSE @]
       ELSE evaluation' = To("close") /\ UNCHANGED execution

\* The reasons the judge gives: only the first score of an observation is looked at.
JudgeReasons(observations) ==
    IF \E o \in Range(observations) : o.judged # << >> /\ Head(o.judged) = "unscored"
    THEN {"judge_schema_failure"} ELSE {}
RuleReasons(observations) ==
    IF observations = << >> \/ \E o \in Range(observations) : o.error
    THEN {"rule_hard_failure"} ELSE {}

CaseStatus(observations, reasons) ==
    IF /\ observations # << >> /\ \A o \in Range(observations) : ~o.error
       /\ reasons \cap {"judge_failed", "judge_schema_failure", "embedding_failed"} = {}
    THEN "completed" ELSE "partial"

CloseCase ==
    LET observations == evaluation.observations
        reasons == evaluation.reasons \cup JudgeReasons(observations)
                   \cup RuleReasons(observations)
        stopped == execution.exhausted \/ execution.timedOut
    IN  /\ InCase("close")
        /\ execution' = [execution EXCEPT !.completed = @ + 1, !.complete = @ /\ ~stopped]
        /\ evaluation' = [To(IF stopped THEN "ending" ELSE "case") EXCEPT
               !.results = Append(@, CaseResult(CaseStatus(observations, reasons),
                                                observations, reasons)),
               !.observations = << >>, !.reasons = {}, !.position = 1, !.attempt = 0]

EndEvaluation ==
    /\ evaluation.stage = "ending"
       \/ (evaluation.stage = "case" /\ Len(evaluation.results) = Len(evaluation.cases))
    /\ execution' = [execution EXCEPT
           !.complete = @ /\ execution.completed = Len(evaluation.cases)]
    /\ evaluation' = To("ended")
    /\ UNCHANGED <<calibration, artifacts, scripts>>

-----------------------------------------------------------------------------
\* _live_calibration_report: the calibration cases left to score, in their order, under
\* limits of its own.  The script calls it after an evaluation, in a resume, and to qualify
\* a judge.
\* Mutants (here and below, each before the operator it changes): what the operator would
\* be with a plausible bug in the code it stands for; they are used by no definition of the
\* specification.
AllOfIt(limit, used) == limit
LeftOf(limit, used) == IF used < limit THEN limit - used ELSE 0

Calibrate(purpose, todo, existing, maxCalls, maxCost) ==
    [NoCalibration EXCEPT !.purpose = purpose, !.todo = todo, !.existing = existing,
                          !.maxCalls = maxCalls, !.maxCost = maxCost, !.complete = TRUE]
Calibrating ==
    /\ calibration.purpose \in {"evaluation", "resume", "profile"}
    /\ calibration.todo # {} /\ calibration.stop = "none"
    /\ UNCHANGED <<evaluation, execution, artifacts, scripts>>

\* What an evaluation has not spent is there for the calibration.
CalibrateAfterRun ==
    /\ evaluation.stage = "ended" /\ calibration.purpose = "none"
    /\ calibration' =
         IF execution.mode = "live" /\ ~evaluation.skip
         THEN Calibrate("evaluation", Items, execution.cost,
                        LeftOf(execution.budget.judge, execution.calls.judge),
                        execution.budget.cost)
         ELSE [NoCalibration EXCEPT !.purpose = "merged"]   \* prompt-only, or skipped
    /\ UNCHANGED <<evaluation, execution, artifacts, scripts>>

StoppedBy(c, reason) == [c EXCEPT !.stop = reason, !.complete = FALSE]
Item(c) == CHOOSE i \in c.todo : \A j \in c.todo : i <= j
Result(c, verdict) == [c EXCEPT !.verdict[Item(c)] = verdict, !.todo = @ \ {Item(c)}]

CostSpent(c) == c.existing + c.cost
Unaffordable(c) == CostSpent(c) + ReservedCost.judge > c.maxCost

CalibrationStops ==
    /\ Calibrating
    /\ \/ calibration.calls >= calibration.maxCalls
          /\ calibration' = StoppedBy(calibration, "judge_calls")
       \/ calibration.calls < calibration.maxCalls
          /\ calibration' = StoppedBy(calibration, "timeout")
       \/ calibration.calls < calibration.maxCalls /\ Unaffordable(calibration)
          /\ calibration' = StoppedBy(calibration, "cost_cny")

MayScore == Calibrating /\ calibration.calls < calibration.maxCalls /\ ~Unaffordable(calibration)

\* An answer in time, with a valid score or without one.
ScoreItem ==
    \E n \in 1 .. MaxRequests, verdict \in JudgeScores :
        /\ MayScore
        /\ LET c == [Result(calibration, verdict) EXCEPT
                        !.calls = @ + n, !.cost = @ + n * ReservedCost.judge,
                        !.complete = @ /\ verdict = "scored"]
           IN  calibration' = IF c.calls > c.maxCalls THEN StoppedBy(c, "judge_calls")
                              ELSE IF CostSpent(c) >= c.maxCost THEN StoppedBy(c, "cost_cny")
                              ELSE c

\* No answer: the deadline ends the loop, any other error only this case; the requests made
\* are not counted.
ItemFails ==
    /\ MayScore
    /\ LET c == [Result(calibration, "unscored") EXCEPT !.complete = FALSE]
       IN  calibration' \in {c, StoppedBy(c, "timeout")}

ScoredItems(verdict) == {i \in Items : verdict[i] = "scored"}

\* The calibration is over.  Of an evaluation: _merge_calibration_execution.
CalibrationOver ==
    calibration.todo = {} \/ calibration.stop # "none"
Complete(c) == c.complete /\ c.todo = {}

WithCalibrationUnchecked(x, c) ==
    [x EXCEPT !.calls.judge = @ + c.calls, !.cost = @ + c.cost,
              !.timedOut = @ \/ c.stop = "timeout",
              !.exhausted = @ \/ c.stop \in {"judge_calls", "cost_cny"}]
WithCalibration(x, c) ==
    [x EXCEPT !.calls.judge = @ + c.calls, !.cost = @ + c.cost,
              !.timedOut = @ \/ c.stop = "timeout",
              !.exhausted = @ \/ c.stop \in {"judge_calls", "cost_cny"},
              !.complete = @ /\ Complete(c),
              !.errors = IF Complete(c) THEN @ ELSE @ \cup {"judge_calibration"}]

MergeCalibration ==
    /\ calibration.purpose = "evaluation" /\ CalibrationOver
    /\ execution' = WithCalibration(execution, calibration)
    /\ calibration' = [NoCalibration EXCEPT !.purpose = "merged",
           !.verdict = calibration.verdict, !.calls = calibration.calls,
           !.cost = calibration.cost]
    /\ UNCHANGED <<evaluation, artifacts, scripts>>

-----------------------------------------------------------------------------
\* The files, written one after the other: the report, then its calibration.
Baseline == artifacts.report[1]
Calibrated == artifacts.calibration[1]

\* build_report, with the calibration the script adds to it
ReportOf(x, e, c) ==
    [execution |-> x, results |-> e.results, cases |-> e.cases, skip |-> e.skip,
     verdict |-> c.verdict]

WriteReport ==
    /\ calibration.purpose = "merged"
    /\ artifacts' = [artifacts EXCEPT !.report = <<ReportOf(execution, evaluation, calibration)>>]
    /\ calibration' = [calibration EXCEPT !.purpose = "written"]
    /\ UNCHANGED <<evaluation, execution, scripts>>

ScriptEnds(k) ==
    /\ evaluation' = NoEvaluation /\ calibration' = NoCalibration
    /\ execution' = NewExecution("dry-run", CHOOSE b \in Budgets : TRUE)
    /\ scripts' = [scripts EXCEPT !.kills = @ + k]

WriteCalibration ==
    /\ calibration.purpose = "written"
    /\ artifacts' = [artifacts EXCEPT !.calibration =
                  <<[verdict |-> calibration.verdict, calls |-> calibration.calls,
                     cost |-> calibration.cost]>>]
    /\ ScriptEnds(0)

\* resume_agent_semantic_calibration: the cases without a score are asked again, under the
\* cap given, and the results join those of the two files.
Missing(verdict) == Items \ ScoredItems(verdict)

ResumeCalibration ==
    LET missing == Missing(Calibrated.verdict) IN
    /\ evaluation.stage = "off" /\ calibration.purpose = "none"
    /\ << >> \notin {artifacts.report, artifacts.calibration} /\ scripts.resumes < MaxResumes
    /\ missing # {}
    /\ calibration' = Calibrate("resume", missing, 0, 2 * Cardinality(missing), ResumeCap)
    /\ scripts' = [scripts EXCEPT !.resumes = @ + 1]
    /\ UNCHANGED <<evaluation, execution, artifacts>>

\* merge_calibration_reports: a case of the resume replaces the one of the file.
Joined(file, c) ==
    [i \in Items |-> IF c.verdict[i] = "none" THEN file.verdict[i] ELSE c.verdict[i]]

\* merge_resume_into_baseline
Resumed(x, c, verdict) ==
    LET complete == /\ ScoredItems(verdict) = Items /\ ~x.timedOut
                    /\ x.completed = Len(Baseline.cases)
    IN  [x EXCEPT !.calls.judge = @ + c.calls, !.cost = @ + c.cost,
                  !.maxCost = x.cost + ResumeCap, !.resumed = TRUE, !.complete = complete,
                  !.exhausted = @ /\ ~complete,
                  !.errors = IF complete THEN @ \ {"judge_calibration"} ELSE @]

MergeResume ==
    LET verdict == Joined(Calibrated, calibration) IN
    /\ calibration.purpose = "resume" /\ CalibrationOver
    /\ execution' = Resumed(Baseline.execution, calibration, verdict)
    /\ evaluation' = [NoEvaluation EXCEPT !.results = Baseline.results,
                          !.cases = Baseline.cases, !.skip = Baseline.skip]
    /\ calibration' = [NoCalibration EXCEPT !.purpose = "merged", !.verdict = verdict,
                          !.calls = calibration.calls + Calibrated.calls,
                          !.cost = calibration.cost + Calibrated.cost]
    /\ UNCHANGED <<artifacts, scripts>>

-----------------------------------------------------------------------------
\* run_judge_profile_completion: another judge is calibrated and, once it passes the gate,
\* scores the saved answers of an evaluation.  It writes its file at the end, once.
QualifyJudge ==
    /\ evaluation.stage = "off" /\ calibration.purpose = "none"
    /\ artifacts.report # << >> /\ artifacts.completion = << >> /\ scripts.resumes < MaxResumes
    /\ calibration' = Calibrate("profile", Items, 0, 2 * CalibrationItems,
                                MaxRequests * CalibrationItems + 1)
    /\ scripts' = [scripts EXCEPT !.resumes = @ + 1]
    /\ UNCHANGED <<evaluation, execution, artifacts>>

Answer(result) == result.observations # << >> /\ ~Head(result.observations).error

\* calibration_quality_gate: every case has a score and no error.  Whether the scores are the
\* ones expected (critical booleans, score bands, injections) is left open.
PassGate ==
    /\ calibration.purpose = "profile" /\ CalibrationOver
    /\ Complete(calibration) /\ ScoredItems(calibration.verdict) = Items
    /\ calibration' = [NoCalibration EXCEPT !.purpose = "qualified",
                          !.verdict = calibration.verdict]
    /\ UNCHANGED <<evaluation, execution, artifacts, scripts>>

\* _judge_saved_summaries, one saved case after the other: an answer is scored or not; a
\* case without an answer, an error or the deadline ends the script, and nothing is written.
JudgeSaved ==
    /\ calibration.purpose = "qualified"
    /\ Len(calibration.judged) < Len(Baseline.cases)
    /\ \/ /\ Len(Baseline.results) = Len(Baseline.cases)
          /\ Answer(Baseline.results[Len(calibration.judged) + 1])
          /\ \E verdict \in JudgeScores :
                 calibration' = [calibration EXCEPT !.judged = Append(@, verdict)]
          /\ UNCHANGED <<evaluation, execution, scripts>>
       \/ ScriptEnds(0)
    /\ UNCHANGED artifacts

WriteCompletion ==
    /\ \/ calibration.purpose = "profile" /\ CalibrationOver   \* the gate is not passed
       \/ /\ calibration.purpose = "qualified"
          /\ Len(calibration.judged) = Len(Baseline.cases)
    /\ artifacts' = [artifacts EXCEPT !.completion =
         <<[verdict |-> calibration.verdict,
            completed |-> /\ calibration.purpose = "qualified"
                          /\ "unscored" \notin Range(calibration.judged)]>>]
    /\ ScriptEnds(0)

\* The script is killed: what it had not written is lost.  (Before the first file is written
\* nothing tells it from a script that was not started.)
KillScript ==
    /\ artifacts.report # << >> /\ calibration.purpose # "none"
    /\ scripts.kills < MaxKills
    /\ ScriptEnds(1) /\ UNCHANGED artifacts

EvalInit ==
    /\ evaluation = NoEvaluation /\ calibration = NoCalibration
    /\ execution = NewExecution("dry-run", CHOOSE b \in Budgets : TRUE)
    /\ artifacts = [report |-> << >>, calibration |-> << >>, completion |-> << >>]
    /\ scripts = [resumes |-> 0, kills |-> 0]

EvalNext ==
    \/ StartEvaluation \/ BeginCase \/ Retrieve \/ AskCandidate \/ CandidateDone
    \/ SkipObservation \/ StopJudging \/ AskJudge \/ JudgeDone \/ AskEmbedding \/ CloseCase
    \/ EndEvaluation \/ CalibrateAfterRun \/ CalibrationStops \/ ScoreItem \/ ItemFails
    \/ MergeCalibration \/ WriteReport \/ WriteCalibration \/ ResumeCalibration
    \/ MergeResume \/ QualifyJudge \/ PassGate \/ JudgeSaved
    \/ WriteCompletion \/ KillScript

EvalSpec == EvalInit /\ [][EvalNext]_evalVars

-----------------------------------------------------------------------------
EvalTypeOK ==
    /\ evaluation.stage \in {"off", "case", "retrieval", "candidate", "judge", "embedding",
                              "close", "ending", "ended"}
    /\ calibration.purpose \in {"none", "evaluation", "resume", "profile",
                               "qualified", "merged", "written"}
    /\ Len(evaluation.results) <= Len(evaluation.cases)
    /\ \A kind \in Kinds : execution.calls[kind] \in Nat
    /\ {execution.cost, calibration.cost, calibration.calls} \subseteq Nat
    /\ \A file \in DOMAIN artifacts : Len(artifacts[file]) <= 1

\* A call may overrun a limit by the requests it repeats, and by no more; the calibration
\* shares the calls of the judge and the cost with the evaluation before it, and a resume
\* is given a cap of its own (runner.py:1278-1363, run_agent_semantic_evaluation.py:1090-1115,
\* resume_agent_semantic_calibration.py:226-240).
Overrun == MaxRequests - 1
WithinCost(x, more) == x.cost + more <= x.maxCost + Overrun
WithinCalls(x, more) ==
    /\ \A kind \in Kinds : x.calls[kind] <= x.budget[kind] + Overrun
    /\ x.calls.judge + more <= x.budget.judge + Overrun
BudgetIsShared ==
    /\ execution.resumed \/ WithinCalls(execution,
           IF calibration.purpose = "evaluation" THEN calibration.calls ELSE 0)
    /\ WithinCost(execution, IF calibration.purpose = "evaluation" THEN calibration.cost ELSE 0)

\* What a report says of its own completeness is borne out by the cases it holds: it is
\* complete only when every case was observed, without an error, as often as asked, judged
\* as often as its sample asks and calibrated; when it is not, something in it says why; no
\* score of the calibration file is missing in it, however often the calibration is resumed;
\* and a case that is not the last one is "completed" only when nothing of it is missing but
\* what a later score of the judge or of the embedding port (runner.py:1388-1734,
\* run_agent_semantic_evaluation.py:865-918).  A resume may call an evaluation complete that
\* was not (resume_agent_semantic_calibration.py:171-175): then only the calibration is.
Before(results, i) == UNION {{j} \X DOMAIN results[j].observations : j \in 1 .. i - 1}
OrdinalOf(results, i, p) == Cardinality(Before(results, i)) + p - 1
Observes(case, result) ==
    /\ Len(result.observations) = IF case.protocol = "text" THEN CandidateRepetitions ELSE 1
    /\ \A o \in Range(result.observations) : ~o.error
Whole(r, i) ==
    /\ Observes(r.cases[i], r.results[i])
    /\ r.cases[i].protocol = "text" =>
           \A p \in DOMAIN r.results[i].observations :
               r.results[i].observations[p].judged =
                   [a \in 1 .. JudgeCount(r.execution.mode, OrdinalOf(r.results, i, p)) |->
                        "scored"]
SaidAndDone(r) ==
    LET x == r.execution IN
    /\ x.complete /\ x.mode # "dry-run" /\ ~x.resumed =>
           /\ Len(r.results) = Len(r.cases) /\ \A i \in DOMAIN r.results : Whole(r, i)
           /\ x.mode = "live" /\ ~r.skip => ScoredItems(r.verdict) = Items
    /\ x.complete /\ x.resumed => ScoredItems(r.verdict) = Items
    /\ ~x.complete => \/ x.exhausted \/ x.timedOut \/ x.errors # {}
                      \/ x.completed < Len(r.cases) \/ ScoredItems(r.verdict) # Items
    /\ artifacts.calibration # << >> =>
           ScoredItems(Calibrated.verdict) \subseteq ScoredItems(r.verdict)
    /\ \A i \in DOMAIN r.results :
           r.results[i].status = "completed" /\ i < Len(r.results) =>
               Observes(r.cases[i], r.results[i])
ReportIsHonest ==
    /\ artifacts.report # << >> => SaidAndDone(Baseline)
    /\ artifacts.completion # << >> => (artifacts.completion[1].completed =>
           ScoredItems(artifacts.completion[1].verdict) = Items)
=============================================================================
