--------------------------- MODULE SimulationBatch ---------------------------
(***************************************************************************)
(* The batch of seven-day simulations: the preregistered attempts, their   *)
(* ledger (one file each), their checkpoints, the rows of their runs in    *)
(* the database, and the script that runs, resumes, cleans up and          *)
(* publishes them.  It may be killed, or interrupted, at any point.        *)
(***************************************************************************)
EXTENDS Naturals, FiniteSets, FiniteSetsExt

CONSTANTS
    Planned,          \* number of attempts of the manifest, 1 .. Planned in its order
    MaxCallsPerRun,   \* --max-calls-per-run
    MaxTotalCalls,    \* --max-total-calls
    MaxRepeats,       \* bound on the requests an attempt repeats: the budget does not count them
    MaxLaunches       \* bound on the invocations of the script

ASSUME SimulationAssumption ==
    /\ Planned \in Nat \ {0} /\ {MaxRepeats, MaxLaunches} \subseteq Nat
    /\ MaxCallsPerRun \in Nat \ {0} /\ MaxTotalCalls \in Nat \ {0}

Attempts == 1 .. Planned
Ends == {"completed", "provider_failed", "timeout", "budget_exhausted", "runner_failed"}
TERMINAL_ATTEMPT_STATUSES == Ends \cup {"not_started"}

VARIABLES
    ledger,      \* [Attempts -> record]: status, ended (terminalAt is set), run (0: none)
    checkpoint,  \* attempt |-> report written to attempt_reports/, when there is one
    rows,        \* <<attempt, start>>: the ChapterRun rows of the database
    batch,       \* the running invocation, see Batch
    starts,      \* [Attempts -> Nat]: history, how often its seed was started
    givenBack    \* history: attempts reset to not_started after they had started

simVars == <<ledger, checkpoint, rows, batch, starts, givenBack>>

Reports == [status : TERMINAL_ATTEMPT_STATUSES, run : Nat, calls : Nat,
            recovered : BOOLEAN, deleted : BOOLEAN]

Batch == [pc : {"off", "resuming", "loop", "creating", "created", "playing", "ended",
                "closing", "settling", "publishing", "republishing", "published"},
          at : Nat, selected : SUBSET Attempts, plan : SUBSET Attempts,
          configured : BOOLEAN, resume : BOOLEAN, calls : Nat, stale : SUBSET (Attempts \X Nat),
          launches : Nat, done : [Attempts -> Reports], resumed : [Attempts -> Reports]]

\* The reports by attempt: one more, or a newer one, and those of g for what f has none of.
NoReports == [a \in {} |-> {}]
With(f, a, report) == [b \in DOMAIN f \cup {a} |-> IF b = a THEN report ELSE f[b]]
Also(f, g) == [b \in DOMAIN f \cup DOMAIN g |-> IF b \in DOMAIN f THEN f[b] ELSE g[b]]

\* The record of an attempt after AttemptLedger.finish, which leaves a terminal one alone.
Terminal(l) == l.status \in Ends \/ (l.status = "not_started" /\ l.ended)
FinishRefused(l, status) == Terminal(l) /\ l.status # status
Finished(l, status, run) ==
    IF Terminal(l) THEN l ELSE [status |-> status, ended |-> TRUE, run |-> run]

Run(a) == <<a, starts[a]>>

\* No invocation: nothing of the last one is left in memory.
Off(launches) ==
    [pc |-> "off", at |-> 1, selected |-> {}, plan |-> {}, configured |-> FALSE,
     resume |-> FALSE, calls |-> 0, stale |-> {}, launches |-> launches,
     done |-> NoReports, resumed |-> NoReports]
Dies(b) == Off(b.launches)

-----------------------------------------------------------------------------
\* The script starts: it prepares the ledger and takes the attempts of its route.
Launch ==
    \E sel \in (SUBSET Attempts) \ {{}}, res, conf \in BOOLEAN :
        /\ batch.pc \in {"off", "published"} /\ batch.launches < MaxLaunches
        /\ batch' = [Off(batch.launches + 1) EXCEPT
                        !.pc = IF res THEN "resuming" ELSE "loop", !.selected = sel,
                        !.plan = IF res THEN {} ELSE sel, !.configured = conf, !.resume = res]
        /\ UNCHANGED <<ledger, checkpoint, rows, starts, givenBack>>

\* No embedding model: every planned attempt is finished as not_started, up to the first
\* whose record refuses it; a started one forgets its run.
Unconfigured ==
    LET upTo == {a \in Attempts : \A b \in 1 .. a : ~FinishRefused(ledger[b], "not_started")}
    IN  /\ batch.pc \in {"off", "published"} /\ batch.launches < MaxLaunches
        /\ ledger' = [a \in Attempts |->
                         IF a \in upTo THEN Finished(ledger[a], "not_started", 0) ELSE ledger[a]]
        /\ givenBack' = givenBack \cup {a \in upTo : ledger[a].status = "started"}
        /\ batch' = Off(batch.launches + 1)
        /\ UNCHANGED <<checkpoint, rows, starts>>

-----------------------------------------------------------------------------
\* _resume_manifest_plan, attempt by attempt.
Completed(a, l, b) ==
    /\ l.status = "completed"
    /\ IF a \in DOMAIN checkpoint /\ checkpoint[a].status = "completed"
       THEN b' = [b EXCEPT !.at = @ + 1, !.resumed = With(@, a, checkpoint[a]),
                           !.stale = @ \cup {<<a, l.run>>}, !.calls = @ + checkpoint[a].calls]
       ELSE b' = Dies(b)   \* completed attempt is missing checkpoint
    /\ UNCHANGED ledger

Stale(a, l, b) ==
    /\ l.status = "started"
    /\ IF l.run = 0
       THEN b' = Dies(b) /\ UNCHANGED ledger
       ELSE /\ ledger' = [ledger EXCEPT ![a] = Finished(l, "runner_failed", l.run)]
            /\ b' = [b EXCEPT !.at = @ + 1, !.stale = @ \cup {<<a, l.run>>}]

Unstarted(a, l, b) ==
    /\ l.status = "not_started" /\ ~l.ended
    /\ b' = [b EXCEPT !.at = @ + 1, !.plan = @ \cup {a}]
    /\ UNCHANGED ledger

Over(a, l, b) ==
    /\ l.status \notin {"started", "completed"} /\ Terminal(l)
    /\ b' = [b EXCEPT !.at = @ + 1,
                      !.stale = IF l.run = 0 THEN @ ELSE @ \cup {<<a, l.run>>}]
    /\ UNCHANGED ledger

ResumeNext ==
    LET a == batch.at IN
    /\ batch.pc = "resuming"
    /\ IF a \in batch.selected
       THEN \/ Completed(a, ledger[a], batch) \/ Stale(a, ledger[a], batch)
            \/ Unstarted(a, ledger[a], batch) \/ Over(a, ledger[a], batch)
       ELSE /\ batch' = IF a \in Attempts THEN [batch EXCEPT !.at = @ + 1]
                        ELSE [batch EXCEPT !.pc = "loop", !.at = 1]
            /\ UNCHANGED ledger
    /\ UNCHANGED <<checkpoint, rows, starts, givenBack>>

-----------------------------------------------------------------------------
\* The loop over the plan: the first attempt left, unless the calls are spent.
Here == batch.at
Report(status, run, calls) ==
    [status |-> status, run |-> run, calls |-> calls,
     recovered |-> FALSE, deleted |-> FALSE]
Remaining == IF batch.calls < MaxTotalCalls THEN MaxTotalCalls - batch.calls ELSE 0
CallLimit == Min({MaxCallsPerRun, Remaining})

\* _write_attempt_checkpoint of the report of an attempt, and on to the next one.
Checkpointed(r) ==
    /\ checkpoint' = With(checkpoint, Here, r)
    /\ batch' = [batch EXCEPT !.pc = "loop", !.at = @ + 1, !.done = With(@, Here, r),
                              !.calls = @ + r.calls]

LoopSkips ==
    /\ batch.pc = "loop"
    /\ batch' = IF Here \notin Attempts \/ (Here \in batch.plan /\ Remaining = 0)
                THEN [batch EXCEPT !.pc = "closing"]
                ELSE [batch EXCEPT !.at = @ + 1]
    /\ Here \in batch.plan => Remaining = 0
    /\ UNCHANGED <<ledger, checkpoint, rows, starts, givenBack>>

\* No text model: the attempt is rejected before it starts.
Rejected ==
    /\ batch.pc = "loop" /\ Here \in batch.plan /\ Remaining > 0 /\ ~batch.configured
    /\ IF FinishRefused(ledger[Here], "not_started")
       THEN batch' = Dies(batch) /\ UNCHANGED <<ledger, checkpoint, givenBack>>
       ELSE /\ ledger' = [ledger EXCEPT ![Here] = Finished(@, "not_started", 0)]
            /\ givenBack' = IF ledger[Here].status = "started" THEN givenBack \cup {Here}
                            ELSE givenBack
            /\ Checkpointed(Report("not_started", 0, 0))
    /\ UNCHANGED <<rows, starts>>

\* AttemptLedger.start; a terminal not_started record may start, any other one may not.
\* Mutants (here and below, each before the operator it changes): what the operator would
\* be with a plausible bug in the code it stands for; they are used by no definition of the
\* specification.
MayRetry(l) == l.status \notin {"started", "completed"}
MayStart(l) == l.status = "not_started"

Start ==
    /\ batch.pc = "loop" /\ Here \in batch.plan /\ Remaining > 0 /\ batch.configured
    /\ IF MayStart(ledger[Here])
       THEN /\ ledger' = [ledger EXCEPT ![Here] =
                             [status |-> "started", ended |-> FALSE, run |-> 0]]
            /\ starts' = [starts EXCEPT ![Here] = @ + 1]
            /\ batch' = [batch EXCEPT !.pc = "creating"]
       ELSE batch' = Dies(batch) /\ UNCHANGED <<ledger, starts>>
    /\ UNCHANGED <<checkpoint, rows, givenBack>>

\* The service or the creation of the run fails, or times out before or after its commit.
CreationFails ==
    \E status \in {"timeout", "runner_failed"}, stored \in BOOLEAN :
        /\ batch.pc = "creating"
        /\ rows' = IF stored THEN rows \cup {Run(Here)} ELSE rows
        /\ ledger' = [ledger EXCEPT ![Here] = Finished(@, status, 0)]
        /\ batch' = [batch EXCEPT !.pc = "ended",
                                  !.done = With(@, Here, Report(status, 0, 0))]
        /\ UNCHANGED <<checkpoint, starts, givenBack>>

RunCreated ==
    /\ batch.pc = "creating"
    /\ rows' = rows \cup {Run(Here)}
    /\ batch' = [batch EXCEPT !.pc = "created"]
    /\ UNCHANGED <<ledger, checkpoint, starts, givenBack>>

\* AttemptLedger.attach_run
AttachRun ==
    /\ batch.pc = "created"
    /\ ledger' = [ledger EXCEPT ![Here].run = starts[Here]]
    /\ batch' = [batch EXCEPT !.pc = "playing"]
    /\ UNCHANGED <<checkpoint, rows, starts, givenBack>>

\* The seven days are over, or a budget (of calls, of protocol answers, of messages), a
\* deadline or a failure ends them.  The calls are the requests that reached the provider:
\* a call the client repeats counts again.
PlayEnds ==
    \E status \in Ends, calls \in 0 .. CallLimit + MaxRepeats :
        /\ batch.pc = "playing"
        /\ ledger' = [ledger EXCEPT ![Here] = Finished(@, status, starts[Here])]
        /\ batch' = [batch EXCEPT !.pc = "ended", !.done =
                        With(@, Here, Report(status, starts[Here], calls))]
        /\ UNCHANGED <<checkpoint, rows, starts, givenBack>>

AttemptReported ==
    /\ batch.pc = "ended"
    /\ Checkpointed(batch.done[Here])
    /\ UNCHANGED <<ledger, rows, starts, givenBack>>

-----------------------------------------------------------------------------
\* The rows of the runs are read back and deleted, when there is a database to ask.
Owned(reports) == {<<a, reports[a].run>> : a \in {b \in DOMAIN reports : reports[b].run # 0}}

CheckedRuns(reports, left) ==
    [a \in DOMAIN reports |->
        IF reports[a].run = 0 THEN reports[a]
        ELSE [reports[a] EXCEPT !.recovered = @ \/ <<a, reports[a].run>> \in rows,
                                !.deleted = <<a, reports[a].run>> \notin left]]

DeletedOwn == Owned(batch.done) \cup Owned(batch.resumed)
DeletedRuns == Owned(batch.done) \cup Owned(batch.resumed) \cup batch.stale

DeleteRuns ==
    /\ batch.pc = "closing"
    /\ IF batch.configured
       THEN /\ rows' = rows \ DeletedRuns
            /\ batch' = [batch EXCEPT !.pc = "settling", !.at = 1,
                                      !.done = CheckedRuns(@, rows'),
                                      !.resumed = CheckedRuns(@, rows')]
       ELSE batch' = [batch EXCEPT !.pc = "settling", !.at = 1] /\ UNCHANGED rows
    /\ UNCHANGED <<ledger, checkpoint, starts, givenBack>>

\* Every planned record that nothing started is made terminal, one file after another.
First(a, S) == a \in S /\ \A b \in S : a <= b
Unsettled == {a \in Attempts : ledger[a].status = "not_started" /\ ~ledger[a].ended}

SettlePlanned ==
    /\ batch.pc = "settling"
    /\ \/ /\ Unsettled = {}
          /\ batch' = [batch EXCEPT !.pc = "publishing", !.at = 1] /\ UNCHANGED ledger
       \/ \E a \in Unsettled :
             /\ First(a, Unsettled)
             /\ ledger' = [ledger EXCEPT ![a] = Finished(@, "not_started", 0)]
             /\ UNCHANGED batch
    /\ UNCHANGED <<checkpoint, rows, starts, givenBack>>

\* The checkpoints are written again one by one, with what the cleanup found: those of the
\* attempts that ran, then of those it resumed, and the batch file at last.
Rewritten(reports, from, next) ==
    LET left == {a \in DOMAIN reports : batch.at <= a} IN
    /\ batch.pc = from
    /\ \/ /\ left = {}
          /\ batch' = [batch EXCEPT !.pc = next, !.at = 1] /\ UNCHANGED checkpoint
       \/ \E a \in left :
             /\ First(a, left)
             /\ checkpoint' = With(checkpoint, a, reports[a])
             /\ batch' = [batch EXCEPT !.at = a + 1]
    /\ UNCHANGED <<ledger, rows, starts, givenBack>>

PublishEvidence ==
    \/ Rewritten(batch.done, "publishing", "republishing")
    \/ Rewritten(batch.resumed, "republishing", "published")

\* The process is killed.
Killed ==
    /\ batch.pc \notin {"off", "published"}
    /\ batch' = Dies(batch)
    /\ UNCHANGED <<ledger, checkpoint, rows, starts, givenBack>>

\* It is interrupted during an attempt: the finally clause of run() still ends the record.
Interrupted ==
    /\ batch.pc \in {"creating", "created", "playing"}
    /\ ledger' = [ledger EXCEPT ![Here] = Finished(@, "runner_failed",
                                    IF batch.pc = "creating" THEN 0 ELSE starts[Here])]
    /\ batch' = Dies(batch)
    /\ UNCHANGED <<checkpoint, rows, starts, givenBack>>

SimInit ==
    /\ ledger = [a \in Attempts |-> [status |-> "not_started", ended |-> FALSE, run |-> 0]]
    /\ checkpoint = NoReports /\ rows = {} /\ givenBack = {}
    /\ starts = [a \in Attempts |-> 0]
    /\ batch = Off(0)

SimNext ==
    \/ Launch \/ Unconfigured \/ ResumeNext \/ LoopSkips \/ Rejected \/ Start
    \/ CreationFails \/ RunCreated \/ AttachRun \/ PlayEnds \/ AttemptReported
    \/ DeleteRuns \/ SettlePlanned \/ PublishEvidence \/ Killed \/ Interrupted

SimSpec == SimInit /\ [][SimNext]_simVars

-----------------------------------------------------------------------------
\* The evidence a reader draws from the published batch file.  Whether the route came out
\* as preregistered is left open: these are the passes as far as the bookkeeping decides.
Published == Also(batch.done, batch.resumed)

\* real_quality_gate_failures and _current_report_failures
TechnicallySound(r) ==
    /\ r.status = "completed" /\ r.recovered /\ r.deleted /\ r.run # 0
    /\ Cardinality(DOMAIN Published) = Cardinality(batch.selected)   \* or batch_incomplete

GameplayPass(a) ==
    /\ a \in DOMAIN Published
    /\ Published[a].status = ledger[a].status
    /\ TechnicallySound(Published[a])

-----------------------------------------------------------------------------
\* The types: partial functions from attempts to reports, and what the counters may reach.
SimTypeOK ==
    /\ \A a \in Attempts : /\ ledger[a].status \in Ends \cup {"not_started", "started"}
                           /\ ledger[a].run \in 0 .. starts[a]
    /\ \A f \in {checkpoint, batch.done, batch.resumed} :
           DOMAIN f \subseteq Attempts /\ \A a \in DOMAIN f : f[a] \in Reports
    /\ rows \subseteq Attempts \X Nat /\ batch.calls \in Nat

\* A seed is run once (run_seven_day_simulation.py:203-210, "terminalize a stale started
\* attempt without rerunning its seed"), over kills, interrupts, resumes and invocations
\* for one route; only an invocation without its models, which resets a started record
\* to not_started, lets it be run again.
SeedRunOnce == \A a \in Attempts : starts[a] > 1 => a \in givenBack

\* What a published batch says of its attempts is what the ledger and the database say.
\* Every attempt it resumed or ran has a terminal record, a completed one its report, under
\* the same run, and no row of a run the ledger knows is left behind.
RecordsAccounted ==
    \A a \in IF batch.resume THEN batch.selected ELSE DOMAIN batch.done :
        /\ Terminal(ledger[a])
        /\ ledger[a].status = "completed" =>
              a \in DOMAIN checkpoint /\ checkpoint[a].run = ledger[a].run
                                      /\ checkpoint[a].status = "completed"
        /\ batch.configured => <<a, ledger[a].run>> \notin rows

\* The evidence counts an attempt as a pass only if its one start produced the run and the
\* database keeps no run of it, however often the batch was killed and resumed.  (An
\* attempt given back to the plan is the exception of SeedRunOnce.)
EvidenceIsClean ==
    \A a \in {b \in Attempts \ givenBack : GameplayPass(b)} :
        /\ starts[a] = 1
        /\ \A n \in 1 .. MaxLaunches : <<a, n>> \notin rows

\* Whatever was killed, interrupted and resumed before, a published batch accounts for its
\* attempts, and only clean runs are counted as evidence.
BatchAccounts == batch.pc = "published" => RecordsAccounted /\ EvidenceIsClean
=============================================================================
