----------------------------- MODULE ScriptProofs -----------------------------
(***************************************************************************)
(* Proofs about the two scripts that spend the calls of a model outside    *)
(* the service: SimulationBatch and SemanticEvaluation, for any numbers of *)
(* attempts, launches, kills, retries, cases and resumes.                  *)
(*                                                                         *)
(* Of the batch, SeedRunOnce needs that a start leaves its record with a   *)
(* status and that an invocation is at an attempt whose record it holds    *)
(* (LedgerFits, HandFits); BatchAccounts needs what the three collections  *)
(* of reports say of the records and of the rows (ReportsFit, DoneFits),   *)
(* that what a resume leaves out of its plan was settled before            *)
(* (ResumeFits), and that the rows of both were deleted (RowsGone).        *)
(*                                                                         *)
(* Of the evaluation, BudgetIsShared is not inductive: the calibration     *)
(* checks limits it was given when it began, so the invariant keeps what   *)
(* they have to do with the evaluation's (CalibrationFits), and a resume   *)
(* adds what it spends to the execution of a file (ArtifactsFit).          *)
(* ReportIsHonest needs the same of what is observed and judged: that the  *)
(* ordinals of the case in progress continue those of the cases behind     *)
(* (OrdinalFits), that what lies behind the position of the judge is       *)
(* judged as long as nothing says otherwise (CaseFits, ResultsFit), that a *)
(* calibration has scored what is not left to do (ScoresFit), and that the *)
(* two files agree (FilesFit).                                             *)
(***************************************************************************)
EXTENDS SimulationBatch, SemanticEvaluation, FiniteSetTheorems, TLAPS

-----------------------------------------------------------------------------
(* The batch: its inductive invariant *)

Statuses == TERMINAL_ATTEMPT_STATUSES \cup {"started"}
LedgerEntries == [status : Statuses, ended : BOOLEAN, run : Nat]
Ledgers  == [Attempts -> LedgerEntries]
ReportsOf == UNION {[S -> Reports] : S \in SUBSET Attempts}
Stages == {"off", "resuming", "loop", "creating", "created", "playing", "ended",
           "closing", "settling", "publishing", "republishing", "published"}
Batches == [pc : Stages, at : Nat \ {0}, selected : SUBSET Attempts, plan : SUBSET Attempts,
            configured : BOOLEAN, resume : BOOLEAN, calls : Nat,
            stale : SUBSET (Attempts \X Nat), launches : Nat,
            done : ReportsOf, resumed : ReportsOf]

BatchFits ==
    /\ ledger \in Ledgers /\ checkpoint \in ReportsOf /\ batch \in Batches
    /\ starts \in [Attempts -> Nat] /\ givenBack \subseteq Attempts
    /\ rows \subseteq Attempts \X Nat

\* A record names a run of its attempt, and none before it has started; a row is of a start
\* there was; and an attempt that was not given back is started once.
LedgerFits ==
    /\ \A a \in Attempts : /\ ledger[a].run <= starts[a]
                           /\ ledger[a].status = "not_started" => ledger[a].run = 0
                           /\ a \notin givenBack => starts[a] <= 1
                           /\ a \notin givenBack /\ starts[a] # 0 =>
                                 ledger[a].status # "not_started"
    /\ \A a \in Attempts, n \in Nat : <<a, n>> \in rows => n # 0 /\ n <= starts[a]

\* An attempt is in hand: its record is started, and names its run once that is attached.
InHand == {"creating", "created", "playing"}
HandFits ==
    batch.pc \in InHand =>
        /\ batch.at \in batch.plan /\ ledger[batch.at].status = "started"
        /\ starts[batch.at] # 0
        /\ ledger[batch.at].run = IF batch.pc = "playing" THEN starts[batch.at] ELSE 0

\* What a report says of a completed attempt is what its record says, and a run it says to
\* be deleted has no row.
AgreesWith(f, l, left) ==
    \A a \in DOMAIN f : f[a].status = "completed" =>
        /\ l[a].status = "completed" /\ l[a].run = f[a].run
        /\ f[a].deleted /\ f[a].run # 0 => <<a, f[a].run>> \notin left

ReportsFit ==
    \A f \in {checkpoint, batch.done, batch.resumed} : AgreesWith(f, ledger, rows)

\* The reports of this invocation are of the attempts it is done with, as their records say.
DoneFits ==
    \A a \in DOMAIN batch.done :
        /\ a \in batch.plan /\ Terminal(ledger[a])
        /\ batch.done[a].status = ledger[a].status /\ batch.done[a].run = ledger[a].run
        /\ batch.pc # "resuming"
        /\ batch.pc \in InHand \cup {"loop"} => a < batch.at
        /\ batch.pc = "ended" => a <= batch.at
EndedFits == batch.pc = "ended" => batch.at \in DOMAIN batch.done

\* An attempt is left out of the plan of a resume because it is over: a completed one has
\* its report, and one with a run is to be deleted with the others.
SettledWith(a, l, f, gone) ==
    /\ Terminal(l[a])
    /\ l[a].status = "completed" => a \in DOMAIN f
    /\ l[a].run # 0 => <<a, l[a].run>> \in gone
Settled(a) == SettledWith(a, ledger, batch.resumed, batch.stale)
Taken(a) == batch.pc = "resuming" => a < batch.at
ResumeFits ==
    /\ batch.plan \subseteq batch.selected
    /\ batch.pc = "resuming" => batch.resume
    /\ \A a \in DOMAIN batch.resumed : batch.resumed[a].status = "completed"
    /\ batch.resume => \A a \in batch.selected \ batch.plan : (Taken(a) => Settled(a))
    /\ batch.resume => \A a \in batch.plan \ DOMAIN batch.done :
          \/ /\ ledger[a].status = "not_started"
             /\ batch.pc \in {"publishing", "republishing", "published"} => ledger[a].ended
          \/ a = batch.at /\ batch.pc \in InHand

\* The attempts the batch accounts for have no row once the runs were deleted.
Accounted == DOMAIN batch.done \cup (IF batch.resume THEN batch.selected \ batch.plan ELSE {})
RowsGone ==
    batch.pc \in {"settling", "publishing", "republishing", "published"} /\ batch.configured =>
        \A a \in Accounted : <<a, ledger[a].run>> \notin rows

\* The checkpoints that were written again have the report of a completed attempt.
Backed(a) ==
    ledger[a].status = "completed" =>
        a \in DOMAIN checkpoint /\ checkpoint[a].status = "completed"
WrittenFits ==
    /\ batch.pc = "publishing" => \A a \in DOMAIN batch.done : a < batch.at => Backed(a)
    /\ batch.pc = "republishing" =>
          /\ \A a \in DOMAIN batch.done : Backed(a)
          /\ \A a \in DOMAIN batch.resumed : a < batch.at => Backed(a)
    /\ batch.pc = "published" => RecordsAccounted

BatchInv == /\ BatchFits /\ LedgerFits /\ HandFits /\ ReportsFit /\ DoneFits /\ EndedFits
            /\ ResumeFits /\ RowsGone /\ WrittenFits

-----------------------------------------------------------------------------
(* Reports and records *)

LEMMA ReportsAre ==
    ASSUME NEW f \in ReportsOf
    PROVE  /\ DOMAIN f \subseteq Attempts
           /\ \A a \in DOMAIN f : f[a] \in Reports
BY DEF ReportsOf

LEMMA NoReportsDoes == NoReports \in ReportsOf /\ DOMAIN NoReports = {}
<1>1. NoReports \in [{} -> Reports]  BY DEF NoReports
<1> QED  BY <1>1 DEF ReportsOf

LEMMA WithDoes ==
    ASSUME NEW f \in ReportsOf, NEW a \in Attempts, NEW r \in Reports
    PROVE  /\ With(f, a, r) \in ReportsOf
           /\ DOMAIN With(f, a, r) = DOMAIN f \cup {a}
           /\ With(f, a, r)[a] = r
           /\ \A b \in DOMAIN f : b # a => With(f, a, r)[b] = f[b]
<1>1. With(f, a, r) \in [DOMAIN f \cup {a} -> Reports]  BY ReportsAre DEF With
<1>2. DOMAIN f \cup {a} \in SUBSET Attempts  BY ReportsAre
<1>3. With(f, a, r) \in ReportsOf  BY ONLY <1>1, <1>2 DEF ReportsOf
<1> QED  BY <1>3 DEF With

LEMMA AlsoDoes ==
    ASSUME NEW f \in ReportsOf, NEW g \in ReportsOf
    PROVE  /\ Also(f, g) \in ReportsOf
           /\ DOMAIN Also(f, g) = DOMAIN f \cup DOMAIN g
           /\ \A a \in DOMAIN f : Also(f, g)[a] = f[a]
           /\ \A a \in DOMAIN g \ DOMAIN f : Also(f, g)[a] = g[a]
<1>1. Also(f, g) \in [DOMAIN f \cup DOMAIN g -> Reports]  BY ReportsAre DEF Also
<1>2. DOMAIN f \cup DOMAIN g \in SUBSET Attempts  BY ReportsAre
<1>3. Also(f, g) \in ReportsOf  BY ONLY <1>1, <1>2 DEF ReportsOf
<1> QED  BY <1>3 DEF Also

\* What the cleanup found is noted in a report; its status and its run stay.
LEMMA CheckedStays ==
    ASSUME NEW f \in ReportsOf, NEW left
    PROVE  /\ CheckedRuns(f, left) \in ReportsOf
           /\ DOMAIN CheckedRuns(f, left) = DOMAIN f
           /\ \A a \in DOMAIN f : /\ CheckedRuns(f, left)[a].status = f[a].status
                                  /\ CheckedRuns(f, left)[a].run = f[a].run
<1> DEFINE g == CheckedRuns(f, left)
<1>1. ASSUME NEW a \in DOMAIN f
      PROVE  g[a] \in Reports /\ g[a].status = f[a].status /\ g[a].run = f[a].run
  <2>1. f[a] \in Reports  BY ReportsAre
  <2>2. g[a] = IF f[a].run = 0 THEN f[a]
               ELSE [f[a] EXCEPT !.recovered = @ \/ <<a, f[a].run>> \in rows,
                                 !.deleted = <<a, f[a].run>> \notin left]
    BY DEF CheckedRuns
  <2> QED  BY <2>1, <2>2 DEF Reports
<1>2. g \in [DOMAIN f -> Reports] /\ DOMAIN g = DOMAIN f  BY <1>1 DEF CheckedRuns
<1>3. DOMAIN f \in SUBSET Attempts  BY ReportsAre
<1>4. g \in ReportsOf  BY ONLY <1>2, <1>3 DEF ReportsOf
<1> QED  BY <1>1, <1>2, <1>4

LEMMA CheckedDeletes ==
    ASSUME NEW f \in ReportsOf, NEW left, NEW a \in DOMAIN f, f[a].run # 0
    PROVE  CheckedRuns(f, left)[a].deleted <=> <<a, f[a].run>> \notin left
<1>1. f[a] \in Reports  BY ReportsAre
<1>2. CheckedRuns(f, left)[a] =
          [f[a] EXCEPT !.recovered = @ \/ <<a, f[a].run>> \in rows,
                       !.deleted = <<a, f[a].run>> \notin left]
  BY DEF CheckedRuns
<1> QED  BY <1>1, <1>2 DEF Reports

LEMMA ReportType ==
    ASSUME NEW status \in TERMINAL_ATTEMPT_STATUSES, NEW run \in Nat, NEW calls \in Nat
    PROVE  /\ Report(status, run, calls) \in Reports
           /\ Report(status, run, calls).status = status /\ Report(status, run, calls).run = run
           /\ ~Report(status, run, calls).deleted
BY DEF Report, Reports

\* AttemptLedger.finish leaves a terminal record alone, and ends any other.
LEMMA FinishedDoes ==
    ASSUME NEW l \in LedgerEntries,
           NEW status \in TERMINAL_ATTEMPT_STATUSES, NEW run \in Nat
    PROVE  /\ Finished(l, status, run) \in LedgerEntries
           /\ Terminal(Finished(l, status, run))
           /\ Terminal(l) => Finished(l, status, run) = l
           /\ ~Terminal(l) => /\ Finished(l, status, run).status = status
                             /\ Finished(l, status, run).run = run
                             /\ Finished(l, status, run).ended
BY DEF Finished, Terminal, LedgerEntries, Statuses, TERMINAL_ATTEMPT_STATUSES

LEMMA OffDoes ==
    ASSUME NEW n \in Nat
    PROVE  /\ Off(n) \in Batches
           /\ Off(n).pc = "off" /\ Off(n).at = 1 /\ Off(n).done = NoReports
           /\ Off(n).resumed = NoReports /\ Off(n).plan = {} /\ Off(n).selected = {}
           /\ Off(n).resume = FALSE
BY NoReportsDoes DEF Off, Batches, Stages

-----------------------------------------------------------------------------
(* What a step keeps *)

\* a terminal record stays, but for an attempt of the plan that was given up unstarted
Kept ==
    \A a \in Attempts : Terminal(ledger[a]) =>
        \/ ledger'[a] = ledger[a]
        \/ batch.pc = "loop" /\ a = batch.at /\ a \in batch.plan /\ ledger[a].status = "not_started"

\* a row is written of the attempt in hand
NewRows ==
    \A a \in Attempts, n \in Nat : <<a, n>> \in rows' /\ <<a, n>> \notin rows =>
        batch.pc = "creating" /\ a = batch.at /\ n = starts[a]

\* the records that change are ended, and one that becomes not_started was so or is given back
Ending ==
    \A a \in Attempts :
        \/ ledger'[a] = ledger[a]
        \/ /\ ~Terminal(ledger[a]) /\ ledger'[a].run <= starts[a]
           /\ ledger'[a].status = "not_started" =>
                 /\ ledger'[a].run = 0
                 /\ ledger[a].status = "not_started" \/ a \in givenBack'

LEMMA EndingKeeps ==
    ASSUME BatchFits, LedgerFits, HandFits, Ending, NewRows, starts' = starts,
           givenBack \subseteq givenBack'
    PROVE  LedgerFits' /\ Kept
<1>1. ASSUME NEW a \in Attempts
      PROVE  /\ ledger'[a].run <= starts'[a]
             /\ ledger'[a].status = "not_started" => ledger'[a].run = 0
             /\ a \notin givenBack' => starts'[a] <= 1
             /\ a \notin givenBack' /\ starts'[a] # 0 => ledger'[a].status # "not_started"
  BY DEF LedgerFits, Ending
<1>2. ASSUME NEW a \in Attempts, NEW n \in Nat, <<a, n>> \in rows'
      PROVE  n # 0 /\ n <= starts'[a]
  <2>1. CASE <<a, n>> \in rows  BY <2>1 DEF LedgerFits
  <2>2. CASE <<a, n>> \notin rows
    BY <1>2, <2>2 DEF NewRows, HandFits, InHand, BatchFits
  <2> QED  BY <2>1, <2>2
<1> QED  BY <1>1, <1>2 DEF LedgerFits, Kept, Ending

LEMMA AgreesStays ==
    ASSUME BatchFits, HandFits, Kept, NewRows, NEW f \in ReportsOf, AgreesWith(f, ledger, rows)
    PROVE  AgreesWith(f, ledger', rows')
<1> SUFFICES ASSUME NEW a \in DOMAIN f, f[a].status = "completed"
             PROVE  /\ ledger'[a].status = "completed" /\ ledger'[a].run = f[a].run
                    /\ f[a].deleted /\ f[a].run # 0 => <<a, f[a].run>> \notin rows'
  BY DEF AgreesWith
<1>1. a \in Attempts /\ f[a] \in Reports  BY ReportsAre
<1>2. /\ ledger[a].status = "completed" /\ ledger[a].run = f[a].run
      /\ f[a].deleted /\ f[a].run # 0 => <<a, f[a].run>> \notin rows
  BY DEF AgreesWith
<1>3. ledger'[a] = ledger[a]  BY <1>1, <1>2 DEF Kept, Terminal, Ends
<1>4. ~(batch.pc = "creating" /\ a = batch.at)  BY <1>2 DEF HandFits, InHand
<1>5. f[a].run \in Nat  BY <1>1 DEF Reports
<1> QED  BY <1>1, <1>2, <1>3, <1>4, <1>5 DEF NewRows

LEMMA AgreesWithOne ==
    ASSUME NEW f \in ReportsOf, NEW a \in Attempts, NEW r \in Reports, NEW l, NEW left,
           AgreesWith(f, l, left),
           r.status = "completed" => /\ l[a].status = "completed" /\ l[a].run = r.run
                                     /\ r.deleted /\ r.run # 0 => <<a, r.run>> \notin left
    PROVE  AgreesWith(With(f, a, r), l, left)
<1> DEFINE g == With(f, a, r)
<1>1. DOMAIN g = DOMAIN f \cup {a} /\ g[a] = r /\ \A b \in DOMAIN f : b # a => g[b] = f[b]
  BY WithDoes
<1> HIDE DEF g
<1>2. AgreesWith(g, l, left)  BY <1>1 DEF AgreesWith
<1> QED  BY <1>2 DEF g

LEMMA AgreesWithBoth ==
    ASSUME NEW f \in ReportsOf, NEW g \in ReportsOf, NEW l, NEW left,
           AgreesWith(f, l, left), AgreesWith(g, l, left)
    PROVE  AgreesWith(Also(f, g), l, left)
<1> DEFINE h == Also(f, g)
<1>1. /\ DOMAIN h = DOMAIN f \cup DOMAIN g
      /\ \A a \in DOMAIN f : h[a] = f[a]
      /\ \A a \in DOMAIN g \ DOMAIN f : h[a] = g[a]
  BY AlsoDoes
<1> HIDE DEF h
<1>2. AgreesWith(h, l, left)  BY <1>1 DEF AgreesWith
<1> QED  BY <1>2 DEF h

LEMMA AgreesNone == ASSUME NEW l, NEW left PROVE AgreesWith(NoReports, l, left)
BY NoReportsDoes DEF AgreesWith

LEMMA TypesAre ==
    ASSUME BatchFits
    PROVE  /\ \A a \in Attempts : /\ ledger[a] \in LedgerEntries
                                  /\ ledger[a].status \in Statuses /\ ledger[a].run \in Nat
                                  /\ starts[a] \in Nat
           /\ batch.at \in Nat \ {0} /\ batch.calls \in Nat /\ batch.launches \in Nat
           /\ batch.plan \subseteq Attempts /\ batch.selected \subseteq Attempts
           /\ batch.done \in ReportsOf /\ batch.resumed \in ReportsOf
           /\ batch.stale \subseteq Attempts \X Nat
           /\ DOMAIN batch.done \subseteq Attempts /\ DOMAIN batch.resumed \subseteq Attempts
<1>1. batch.done \in ReportsOf /\ batch.resumed \in ReportsOf  BY DEF BatchFits, Batches
<1>2. DOMAIN batch.done \subseteq Attempts /\ DOMAIN batch.resumed \subseteq Attempts
  BY <1>1, ReportsAre
<1> QED  BY <1>1, <1>2 DEF BatchFits, Batches, Ledgers, LedgerEntries

-----------------------------------------------------------------------------
(* The invocation begins and ends *)

\* Nothing of an invocation is in memory yet, or any more.
Fresh ==
    /\ checkpoint' = checkpoint /\ batch'.done = NoReports /\ batch'.resumed = NoReports
    /\ batch'.pc \in {"off", "resuming", "loop"}
    /\ batch'.plan \subseteq batch'.selected
    /\ batch'.pc = "resuming" => batch'.resume
    /\ batch'.resume => batch'.plan = {} /\ batch'.pc = "resuming" /\ batch'.at = 1

LEMMA FreshKeeps ==
    ASSUME BatchInv, BatchFits', LedgerFits', Kept, NewRows, Fresh
    PROVE  BatchInv'
<1>0. BatchFits /\ HandFits /\ ReportsFit  BY DEF BatchInv
<1>1. DOMAIN batch'.done = {} /\ DOMAIN batch'.resumed = {}  BY NoReportsDoes DEF Fresh
<1>2. ReportsFit'
  <2>1. AgreesWith(checkpoint, ledger', rows')
    BY <1>0, AgreesStays DEF ReportsFit, BatchFits
  <2> QED  BY <2>1, AgreesNone DEF ReportsFit, Fresh
<1>3. HandFits' /\ EndedFits' /\ RowsGone' /\ WrittenFits'
  BY DEF Fresh, HandFits, EndedFits, RowsGone, InHand, WrittenFits
<1>4. DoneFits'  BY <1>1 DEF DoneFits
<1>5. ResumeFits'
  <2>1. ASSUME batch'.resume, NEW a \in batch'.selected PROVE ~(a < batch'.at)
    BY <2>1 DEF Fresh, BatchFits, Batches, Attempts
  <2> QED  BY <1>1, <2>1 DEF ResumeFits, Fresh, Taken
<1> QED  BY <1>2, <1>3, <1>4, <1>5 DEF BatchInv

LEMMA DiesIsFresh ==
    ASSUME BatchFits, batch' = Dies(batch), checkpoint' = checkpoint
    PROVE  batch' \in Batches /\ Fresh
BY OffDoes, TypesAre DEF Dies, Fresh

LEMMA LaunchKeeps == ASSUME BatchInv, Launch PROVE BatchInv'
<1>1. BatchFits /\ LedgerFits /\ HandFits  BY DEF BatchInv
<1>2. UNCHANGED <<ledger, checkpoint, rows, starts, givenBack>>  BY DEF Launch
<1>3. batch' \in Batches /\ Fresh
  <2>1. PICK sel \in (SUBSET Attempts) \ {{}}, res, conf \in BOOLEAN :
          batch' = [Off(batch.launches + 1) EXCEPT
                       !.pc = IF res THEN "resuming" ELSE "loop", !.selected = sel,
                       !.plan = IF res THEN {} ELSE sel, !.configured = conf, !.resume = res]
    BY DEF Launch
  <2>2. /\ Off(batch.launches + 1) \in Batches /\ Off(batch.launches + 1).at = 1
        /\ Off(batch.launches + 1).done = NoReports /\ Off(batch.launches + 1).resumed = NoReports
    <3>1. batch.launches + 1 \in Nat  BY <1>1, TypesAre
    <3> QED  BY <3>1, OffDoes
  <2> DEFINE off == Off(batch.launches + 1)
  <2> HIDE DEF off
  <2>3. off \in Batches /\ off.at = 1 /\ off.done = NoReports /\ off.resumed = NoReports
    BY <2>2 DEF off
  <2>4. batch' = [off EXCEPT
                       !.pc = IF res THEN "resuming" ELSE "loop", !.selected = sel,
                       !.plan = IF res THEN {} ELSE sel, !.configured = conf, !.resume = res]
    BY <2>1 DEF off
  <2>5. batch' \in Batches  BY <2>3, <2>4 DEF Batches, Stages
  <2>6. /\ batch'.done = NoReports /\ batch'.resumed = NoReports /\ batch'.at = 1
        /\ batch'.pc = (IF res THEN "resuming" ELSE "loop") /\ batch'.selected = sel
        /\ batch'.plan = IF res THEN {} ELSE sel
    BY <2>3, <2>4 DEF Batches
  <2>7. batch'.resume = res  BY <2>3, <2>4 DEF Batches
  <2>8. batch'.resume => res  BY ONLY <2>7, Zenon
  <2>9. res => batch'.resume  BY ONLY <2>7, Zenon
  <2> QED  BY <1>2, <2>5, <2>6, <2>8, <2>9 DEF Fresh
<1>4. BatchFits'  BY <1>1, <1>2, <1>3 DEF BatchFits
<1>5. LedgerFits' /\ Kept /\ NewRows
  <2>1. Ending /\ NewRows  BY <1>2 DEF Ending, NewRows
  <2> QED  BY <1>1, <1>2, <2>1, EndingKeeps
<1> QED  BY <1>3, <1>4, <1>5, FreshKeeps

LEMMA UnconfiguredKeeps == ASSUME BatchInv, Unconfigured PROVE BatchInv'
<1>1. BatchFits /\ LedgerFits /\ HandFits  BY DEF BatchInv
<1>2. UNCHANGED <<checkpoint, rows, starts>>  BY DEF Unconfigured
<1>3. batch' \in Batches /\ Fresh
  <2>1. batch.launches + 1 \in Nat /\ batch' = Off(batch.launches + 1)
    BY <1>1, TypesAre DEF Unconfigured
  <2> QED  BY <1>2, <2>1, OffDoes DEF Fresh
<1>4. PICK upTo \in SUBSET Attempts :
        /\ \A a \in upTo : \A b \in 1 .. a : ~FinishRefused(ledger[b], "not_started")
        /\ ledger' = [a \in Attempts |->
              IF a \in upTo THEN Finished(ledger[a], "not_started", 0) ELSE ledger[a]]
        /\ givenBack' = givenBack \cup {a \in upTo : ledger[a].status = "started"}
  BY DEF Unconfigured
<1>5. ASSUME NEW a \in Attempts
      PROVE  /\ ledger'[a] \in LedgerEntries
             /\ \/ ledger'[a] = ledger[a]
                \/ /\ ~Terminal(ledger[a]) /\ ledger'[a].run <= starts[a]
                   /\ ledger'[a].status = "not_started" =>
                         /\ ledger'[a].run = 0
                         /\ ledger[a].status = "not_started" \/ a \in givenBack'
  <2>1. ledger[a] \in LedgerEntries /\ starts[a] \in Nat  BY <1>1, TypesAre
  <2>2. CASE a \notin upTo  BY <1>4, <2>1, <2>2
  <2>3. CASE a \in upTo
    <3>0. "not_started" \in TERMINAL_ATTEMPT_STATUSES  BY DEF TERMINAL_ATTEMPT_STATUSES
    <3>1. ledger'[a] = Finished(ledger[a], "not_started", 0)  BY <1>4, <2>3
    <3>2. ledger'[a] \in LedgerEntries /\ (Terminal(ledger[a]) => ledger'[a] = ledger[a])
      BY <2>1, <3>0, <3>1, FinishedDoes
    <3>3. CASE ~Terminal(ledger[a])
      <4>1. ledger'[a].status = "not_started" /\ ledger'[a].run = 0
        BY <2>1, <3>0, <3>1, <3>3, FinishedDoes
      <4>2. ledger[a].status = "not_started" \/ ledger[a].status = "started"
        BY <2>1, <3>3 DEF Terminal, LedgerEntries, Statuses, TERMINAL_ATTEMPT_STATUSES
      <4> QED  BY <1>4, <2>1, <2>3, <3>2, <3>3, <4>1, <4>2
    <3> QED  BY <3>2, <3>3
  <2> QED  BY <2>2, <2>3
<1>6. Ending /\ NewRows  BY <1>2, <1>5 DEF Ending, NewRows
<1>7. BatchFits'  BY <1>1, <1>2, <1>3, <1>4, <1>5 DEF BatchFits, Ledgers
<1>8. LedgerFits' /\ Kept  BY <1>1, <1>2, <1>4, <1>6, EndingKeeps
<1> QED  BY <1>3, <1>6, <1>7, <1>8, FreshKeeps

LEMMA KilledKeeps == ASSUME BatchInv, Killed PROVE BatchInv'
<1>1. BatchFits /\ LedgerFits /\ HandFits  BY DEF BatchInv
<1>2. UNCHANGED <<ledger, checkpoint, rows, starts, givenBack>> /\ batch' = Dies(batch)
  BY DEF Killed
<1>3. batch' \in Batches /\ Fresh  BY <1>1, <1>2, DiesIsFresh
<1>4. BatchFits'  BY <1>1, <1>2, <1>3 DEF BatchFits
<1>5. Ending /\ NewRows  BY <1>2 DEF Ending, NewRows
<1> QED  BY <1>1, <1>2, <1>3, <1>4, <1>5, EndingKeeps, FreshKeeps

\* AttemptLedger.finish on one record
FinishesHere(status, run) ==
    ledger' = [ledger EXCEPT ![batch.at] = Finished(ledger[batch.at], status, run)]

LEMMA FinishHereDoes ==
    ASSUME BatchFits, LedgerFits, NEW status \in TERMINAL_ATTEMPT_STATUSES, NEW run \in Nat,
           batch.at \in Attempts, FinishesHere(status, run), run <= starts[batch.at],
           status = "not_started" /\ ~Terminal(ledger[batch.at]) =>
               /\ run = 0
               /\ ledger[batch.at].status = "not_started" \/ batch.at \in givenBack'
    PROVE  /\ ledger' \in Ledgers /\ Ending /\ Terminal(ledger'[batch.at])
           /\ \A a \in Attempts : a # batch.at => ledger'[a] = ledger[a]
           /\ Terminal(ledger[batch.at]) => ledger' = ledger
           /\ ~Terminal(ledger[batch.at]) =>
                 ledger'[batch.at].status = status /\ ledger'[batch.at].run = run
<1> DEFINE at == batch.at
           l == Finished(ledger[batch.at], status, run)
<1>1. /\ ledger[batch.at] \in LedgerEntries /\ ledger \in Ledgers
      /\ \A a \in Attempts : ledger[a].run \in Nat
  BY TypesAre DEF BatchFits
<1>2. /\ l \in LedgerEntries /\ Terminal(l)
      /\ Terminal(ledger[batch.at]) => l = ledger[batch.at]
      /\ ~Terminal(ledger[batch.at]) => l.status = status /\ l.run = run
  BY <1>1, FinishedDoes
<1>3. ledger' = [ledger EXCEPT ![batch.at] = l]  BY DEF FinishesHere
<1> HIDE DEF l
<1>4. /\ ledger' \in Ledgers /\ ledger'[batch.at] = l
      /\ \A a \in Attempts : a # batch.at => ledger'[a] = ledger[a]
  BY <1>1, <1>2, <1>3 DEF Ledgers
<1>5. Terminal(ledger[batch.at]) => ledger' = ledger
  BY <1>1, <1>2, <1>3 DEF Ledgers
<1>6. Terminal(ledger'[batch.at])  BY <1>2, <1>4
<1>7. Ending
  <2> SUFFICES ASSUME NEW a \in Attempts, a = batch.at, ~Terminal(ledger[a])
               PROVE  /\ ledger'[a].run <= starts[a]
                      /\ ledger'[a].status = "not_started" =>
                            /\ ledger'[a].run = 0
                            /\ ledger[a].status = "not_started" \/ a \in givenBack'
    BY <1>4, <1>5 DEF Ending
  <2> QED  BY <1>2, <1>4
<1> QED  BY <1>2, <1>4, <1>5, <1>6, <1>7

-----------------------------------------------------------------------------
(* A resume goes through the manifest *)

\* One attempt on: it is over, or joins the plan unstarted.
LEMMA OneMoreResumed ==
    ASSUME BatchInv, batch.pc = "resuming", batch' \in Batches, ledger' \in Ledgers, Ending,
           UNCHANGED <<checkpoint, rows, starts, givenBack>>,
           batch'.pc = "resuming", batch'.at = batch.at + 1, batch'.done = batch.done,
           batch'.resume <=> batch.resume, batch'.selected = batch.selected,
           batch.stale \subseteq batch'.stale,
           DOMAIN batch.resumed \subseteq DOMAIN batch'.resumed,
           AgreesWith(batch'.resumed, ledger', rows'),
           \A a \in DOMAIN batch'.resumed : batch'.resumed[a].status = "completed",
           \A a \in Attempts : a # batch.at => ledger'[a] = ledger[a],
           \/ batch'.plan = batch.plan
           \/ batch'.plan = batch.plan \cup {batch.at} /\ batch.at \in batch.selected,
           batch.at \in batch'.plan => ledger'[batch.at].status = "not_started",
           batch.at \in batch.selected \ batch'.plan =>
               SettledWith(batch.at, ledger', batch'.resumed, batch'.stale)
    PROVE  BatchInv'
<1>0. /\ BatchFits /\ LedgerFits /\ HandFits /\ ReportsFit /\ DoneFits /\ ResumeFits
  BY DEF BatchInv
<1>1. BatchFits'  BY <1>0 DEF BatchFits
<1>2. NewRows  BY DEF NewRows
<1>3. LedgerFits' /\ Kept  BY <1>0, <1>2, EndingKeeps
<1>4. DOMAIN batch.done = {}  BY <1>0 DEF DoneFits
<1>5. ReportsFit'
  <2>1. AgreesWith(checkpoint, ledger', rows')
    BY <1>0, <1>2, <1>3, AgreesStays DEF ReportsFit, BatchFits
  <2>2. AgreesWith(batch'.done, ledger', rows')  BY <1>4 DEF AgreesWith
  <2> QED  BY <2>1, <2>2 DEF ReportsFit
<1>6. HandFits' /\ EndedFits' /\ RowsGone' /\ WrittenFits'
  BY DEF HandFits, EndedFits, RowsGone, InHand, WrittenFits
<1>7. DoneFits'  BY <1>4 DEF DoneFits
<1>8. ResumeFits'
  <2>1. batch'.plan \subseteq batch'.selected  BY <1>0 DEF ResumeFits
  <2>2. batch'.resume  BY <1>0 DEF ResumeFits
  <2>3. ASSUME NEW a \in batch'.selected \ batch'.plan, a < batch'.at
        PROVE  SettledWith(a, ledger', batch'.resumed, batch'.stale)
    <3>1. CASE a = batch.at  BY <2>3, <3>1
    <3>2. CASE a # batch.at
      <4>1. a \in Attempts /\ a \in Nat /\ batch.at \in Nat  BY <1>0, TypesAre DEF Attempts
      <4>2. a < batch.at /\ a \in batch.selected \ batch.plan  BY <2>3, <3>2, <4>1
      <4>3. SettledWith(a, ledger, batch.resumed, batch.stale) /\ ledger'[a] = ledger[a]
        BY <1>0, <2>2, <3>2, <4>1, <4>2 DEF ResumeFits, Taken, Settled
      <4> QED  BY <4>3 DEF SettledWith
    <3> QED  BY <3>1, <3>2
  <2>4. ASSUME NEW a \in batch'.plan
        PROVE  ledger'[a].status = "not_started"
    <3>1. CASE a = batch.at  BY <2>4, <3>1
    <3>2. CASE a # batch.at
      <4>1. a \in Attempts /\ a \in batch.plan  BY <1>0, <2>4, <3>2, TypesAre
      <4>2. ledger[a].status = "not_started"
        BY <1>0, <1>4, <2>2, <4>1 DEF ResumeFits, InHand
      <4> QED  BY <3>2, <4>1, <4>2
    <3> QED  BY <3>1, <3>2
  <2>5. batch'.pc \notin {"publishing", "republishing", "published"}  OBVIOUS
  <2> QED  BY <2>1, <2>2, <2>3, <2>4, <2>5 DEF ResumeFits, Settled, Taken
<1> QED  BY <1>1, <1>3, <1>5, <1>6, <1>7, <1>8 DEF BatchInv

LEMMA DiesKeeps ==
    ASSUME BatchInv, batch' = Dies(batch), checkpoint' = checkpoint, starts' = starts, rows' = rows,
           ledger' \in Ledgers, Ending, givenBack' = givenBack
    PROVE  BatchInv'
<1>1. BatchFits /\ LedgerFits /\ HandFits  BY DEF BatchInv
<1>2. batch' \in Batches /\ Fresh  BY <1>1, DiesIsFresh
<1>3. BatchFits'  BY <1>1, <1>2 DEF BatchFits
<1>4. NewRows  BY DEF NewRows
<1>5. LedgerFits' /\ Kept  BY <1>1, <1>4, EndingKeeps
<1> QED  BY <1>2, <1>3, <1>4, <1>5, FreshKeeps

LEMMA SameLedgerEnds == ASSUME ledger' = ledger PROVE Ending
BY DEF Ending

LEMMA ResumeNextKeeps == ASSUME BatchInv, ResumeNext PROVE BatchInv'
<1> DEFINE a == batch.at
           l == ledger[batch.at]
<1>0. /\ BatchFits /\ LedgerFits /\ HandFits /\ ReportsFit /\ DoneFits /\ ResumeFits
  BY DEF BatchInv
<1>1. batch.pc = "resuming" /\ UNCHANGED <<checkpoint, rows, starts, givenBack>>
  BY DEF ResumeNext
<1>2. /\ batch \in Batches /\ ledger \in Ledgers /\ batch.at \in Nat \ {0}
      /\ batch.resumed \in ReportsOf /\ checkpoint \in ReportsOf
      /\ AgreesWith(batch.resumed, ledger, rows) /\ AgreesWith(checkpoint, ledger, rows)
      /\ \A b \in DOMAIN batch.resumed : batch.resumed[b].status = "completed"
  BY <1>0, TypesAre DEF BatchFits, ReportsFit, ResumeFits
<1>3. CASE batch' = Dies(batch) /\ ledger' = ledger
  BY <1>1, <1>2, <1>3, DiesKeeps, SameLedgerEnds
<1>4. CASE a \in batch.selected /\ batch' # Dies(batch)
  <2>1. /\ a \in Attempts /\ l \in LedgerEntries /\ l.run \in Nat /\ l.run <= starts[a]
    BY <1>0, <1>4, TypesAre DEF LedgerFits
  <2>0. /\ batch.stale \cup {<<a, l.run>>} \in SUBSET (Attempts \X Nat)
        /\ batch.plan \cup {a} \in SUBSET Attempts /\ batch.at + 1 \in Nat \ {0}
        /\ batch \in Batches /\ batch.pc = "resuming"
    BY <1>0, <1>1, <1>2, <2>1, TypesAre
  <2>2. CASE Completed(a, l, batch)
    <3>1. /\ l.status = "completed" /\ ledger' = ledger
          /\ a \in DOMAIN checkpoint /\ checkpoint[a].status = "completed"
          /\ batch' = [batch EXCEPT !.at = @ + 1, !.resumed = With(@, a, checkpoint[a]),
                          !.stale = @ \cup {<<a, l.run>>}, !.calls = @ + checkpoint[a].calls]
      BY <1>4, <2>2 DEF Completed
    <3>2. checkpoint[a] \in Reports /\ checkpoint[a].calls \in Nat
      BY <1>2, <3>1, ReportsAre DEF Reports
    <3> DEFINE f == With(batch.resumed, a, checkpoint[a])
    <3>3. /\ f \in ReportsOf /\ DOMAIN f = DOMAIN batch.resumed \cup {a} /\ f[a] = checkpoint[a]
          /\ \A b \in DOMAIN batch.resumed : b # a => f[b] = batch.resumed[b]
      <4>1. batch.resumed \in ReportsOf /\ a \in Attempts /\ checkpoint[a] \in Reports
        BY <1>2, <2>1, <3>2
      <4>2. ASSUME NEW r \in Reports, NEW b \in Attempts
            PROVE  /\ With(batch.resumed, b, r) \in ReportsOf
                   /\ DOMAIN With(batch.resumed, b, r) = DOMAIN batch.resumed \cup {b}
                   /\ With(batch.resumed, b, r)[b] = r
                   /\ \A c \in DOMAIN batch.resumed :
                         c # b => With(batch.resumed, b, r)[c] = batch.resumed[c]
        BY <4>1, WithDoes
      <4> QED  BY ONLY <4>1, <4>2
    <3>4. AgreesWith(f, ledger, rows)
      <4>1. checkpoint[a].status = "completed" =>
              /\ ledger[a].status = "completed" /\ ledger[a].run = checkpoint[a].run
              /\ checkpoint[a].deleted /\ checkpoint[a].run # 0 =>
                    <<a, checkpoint[a].run>> \notin rows
        BY <1>2, <3>1 DEF AgreesWith
      <4>2. batch.resumed \in ReportsOf /\ a \in Attempts /\ checkpoint[a] \in Reports
            /\ AgreesWith(batch.resumed, ledger, rows)
        BY <1>2, <2>1, <3>2
      <4> QED  BY ONLY <4>1, <4>2, AgreesWithOne
    <3>5. batch' = [batch EXCEPT !.at = batch.at + 1, !.resumed = f,
                      !.stale = batch.stale \cup {<<a, l.run>>},
                      !.calls = batch.calls + checkpoint[a].calls]
      BY <3>1
    <3> HIDE DEF f
    <3>6. /\ batch' \in Batches
          /\ batch'.pc = "resuming" /\ batch'.at = batch.at + 1 /\ batch'.done = batch.done
          /\ batch'.selected = batch.selected /\ batch'.plan = batch.plan
          /\ batch'.resumed = f /\ batch'.stale = batch.stale \cup {<<a, l.run>>}
      <4>1. batch.calls + checkpoint[a].calls \in Nat  BY <1>0, <3>2, TypesAre
      <4>2. f \in ReportsOf  BY <3>3
      <4> QED  BY ONLY <2>0, <3>5, <4>1, <4>2 DEF Batches
    <3>7. batch'.resume <=> batch.resume
      <4>1. batch'.resume = batch.resume  BY <1>2, <3>5 DEF Batches
      <4> QED  BY ONLY <4>1, Zenon
    <3>8. SettledWith(a, ledger', f, batch'.stale)
      BY <3>1, <3>3, <3>6 DEF SettledWith, Terminal, Ends
    <3>9. a \notin batch.plan
      BY <1>0, <1>1, <3>1 DEF ResumeFits, DoneFits, InHand
    <3>10. \A b \in DOMAIN f : f[b].status = "completed"  BY <1>2, <3>1, <3>3
    <3>11. AgreesWith(f, ledger', rows')  BY <1>1, <3>1, <3>4
    <3>12. Ending  BY <3>1, SameLedgerEnds
    <3> QED  BY <1>1, <1>2, <3>1, <3>3, <3>6, <3>7, <3>8, <3>9, <3>10, <3>11, <3>12, OneMoreResumed
  <2>3. CASE Stale(a, l, batch)
    <3>1. /\ l.status = "started" /\ l.run # 0
          /\ ledger' = [ledger EXCEPT ![a] = Finished(l, "runner_failed", l.run)]
          /\ batch' = [batch EXCEPT !.at = @ + 1, !.stale = @ \cup {<<a, l.run>>}]
      BY <1>4, <2>3 DEF Stale
    <3>2. "runner_failed" \in TERMINAL_ATTEMPT_STATUSES /\ ~Terminal(l)
      BY <3>1 DEF TERMINAL_ATTEMPT_STATUSES, Ends, Terminal
    <3>3. /\ ledger' \in Ledgers /\ Ending /\ Terminal(ledger'[a])
          /\ \A b \in Attempts : b # a => ledger'[b] = ledger[b]
          /\ ledger'[a].status = "runner_failed" /\ ledger'[a].run = l.run
      BY <1>0, <2>1, <3>1, <3>2, FinishHereDoes DEF FinishesHere
    <3>4. /\ batch' \in Batches
          /\ batch'.pc = "resuming" /\ batch'.at = batch.at + 1 /\ batch'.done = batch.done
          /\ batch'.selected = batch.selected /\ batch'.plan = batch.plan
          /\ batch'.resumed = batch.resumed /\ batch'.stale = batch.stale \cup {<<a, l.run>>}
      BY ONLY <2>0, <3>1 DEF Batches
    <3>5. batch'.resume <=> batch.resume
      <4>1. batch'.resume = batch.resume  BY <1>2, <3>1 DEF Batches
      <4> QED  BY ONLY <4>1, Zenon
    <3>6. SettledWith(a, ledger', batch'.resumed, batch'.stale)
      BY <3>3, <3>4 DEF SettledWith
    <3>7. a \notin batch.plan
      BY <1>0, <1>1, <3>1 DEF ResumeFits, DoneFits, InHand
    <3>8. NewRows  BY <1>1 DEF NewRows
    <3>9. AgreesWith(batch'.resumed, ledger', rows')
      BY <1>0, <1>1, <1>2, <3>3, <3>4, <3>8, EndingKeeps, AgreesStays
    <3> QED  BY <1>1, <1>2, <3>3, <3>4, <3>5, <3>6, <3>7, <3>9, OneMoreResumed
  <2>4. CASE Unstarted(a, l, batch)
    <3>1. /\ l.status = "not_started" /\ ledger' = ledger
          /\ batch' = [batch EXCEPT !.at = @ + 1, !.plan = @ \cup {a}]
      BY <2>4 DEF Unstarted
    <3>2. /\ batch' \in Batches
          /\ batch'.pc = "resuming" /\ batch'.at = batch.at + 1 /\ batch'.done = batch.done
          /\ batch'.selected = batch.selected /\ batch'.plan = batch.plan \cup {a}
          /\ batch'.resumed = batch.resumed /\ batch'.stale = batch.stale
      BY ONLY <2>0, <3>1 DEF Batches
    <3>3. batch'.resume <=> batch.resume
      <4>1. batch'.resume = batch.resume  BY <1>2, <3>1 DEF Batches
      <4> QED  BY ONLY <4>1, Zenon
    <3>4. AgreesWith(batch'.resumed, ledger', rows')  BY <1>1, <1>2, <3>1, <3>2
    <3> QED  BY <1>1, <1>2, <1>4, <3>1, <3>2, <3>3, <3>4, SameLedgerEnds, OneMoreResumed
  <2>5. CASE Over(a, l, batch)
    <3>1. /\ Terminal(l) /\ l.status # "completed" /\ ledger' = ledger
          /\ batch' = [batch EXCEPT !.at = @ + 1,
                          !.stale = IF l.run = 0 THEN @ ELSE @ \cup {<<a, l.run>>}]
      BY <2>5 DEF Over
    <3>2. /\ batch' \in Batches
          /\ batch'.pc = "resuming" /\ batch'.at = batch.at + 1 /\ batch'.done = batch.done
          /\ batch'.selected = batch.selected /\ batch'.plan = batch.plan
          /\ batch'.resumed = batch.resumed
          /\ batch'.stale = IF l.run = 0 THEN batch.stale ELSE batch.stale \cup {<<a, l.run>>}
      BY ONLY <2>0, <3>1 DEF Batches
    <3>3. batch'.resume <=> batch.resume
      <4>1. batch'.resume = batch.resume  BY <1>2, <3>1 DEF Batches
      <4> QED  BY ONLY <4>1, Zenon
    <3>4. AgreesWith(batch'.resumed, ledger', rows')  BY <1>1, <1>2, <3>1, <3>2
    <3>5. SettledWith(a, ledger', batch'.resumed, batch'.stale)
      BY <3>1, <3>2 DEF SettledWith
    <3>6. a \in batch'.plan => ledger'[a].status = "not_started"
      BY <1>0, <1>1, <3>1, <3>2 DEF ResumeFits, DoneFits, InHand
    <3> QED  BY <1>1, <1>2, <3>1, <3>2, <3>3, <3>4, <3>5, <3>6, SameLedgerEnds, OneMoreResumed
  <2> QED  BY <1>4, <2>2, <2>3, <2>4, <2>5 DEF ResumeNext
<1>5. CASE a \notin batch.selected /\ a \in Attempts
  <2>1. ledger' = ledger /\ batch' = [batch EXCEPT !.at = @ + 1]
    BY <1>5 DEF ResumeNext
  <2>2. /\ batch' \in Batches
        /\ batch'.pc = "resuming" /\ batch'.at = batch.at + 1 /\ batch'.done = batch.done
        /\ batch'.selected = batch.selected /\ batch'.plan = batch.plan
        /\ batch'.resumed = batch.resumed /\ batch'.stale = batch.stale
    BY <1>1, <1>2, <2>1 DEF Batches
  <2>3. batch'.resume <=> batch.resume
    <3>1. batch'.resume = batch.resume  BY <1>2, <2>1 DEF Batches
    <3> QED  BY ONLY <3>1, Zenon
  <2>4. AgreesWith(batch'.resumed, ledger', rows')  BY <1>1, <1>2, <2>1, <2>2
  <2>5. a \notin batch.plan  BY <1>0, <1>5 DEF ResumeFits
  <2> QED  BY <1>1, <1>2, <1>5, <2>1, <2>2, <2>3, <2>4, <2>5, SameLedgerEnds, OneMoreResumed
<1>6. CASE a \notin Attempts
  <2>1. a \notin batch.selected  BY <1>0, <1>6, TypesAre
  <2>2. ledger' = ledger /\ batch' = [batch EXCEPT !.pc = "loop", !.at = 1]
    BY <1>6, <2>1 DEF ResumeNext
  <2>3. /\ batch' \in Batches
        /\ batch'.pc = "loop" /\ batch'.done = batch.done
        /\ batch'.selected = batch.selected /\ batch'.plan = batch.plan
        /\ batch'.resumed = batch.resumed /\ batch'.stale = batch.stale
    <3>1. batch \in Batches /\ 1 \in Nat \ {0} /\ "loop" \in Stages  BY <1>2 DEF Stages
    <3> QED  BY ONLY <2>2, <3>1 DEF Batches
  <2>4. batch'.resume <=> batch.resume
    <3>1. batch'.resume = batch.resume  BY <1>2, <2>2 DEF Batches
    <3> QED  BY ONLY <3>1, Zenon
  <2>5. Ending /\ NewRows  BY <1>1, <2>2 DEF Ending, NewRows
  <2>6. BatchFits' /\ LedgerFits' /\ ReportsFit'
    BY <1>0, <1>1, <2>2, <2>3, <2>5, EndingKeeps DEF BatchFits, ReportsFit
  <2>7. HandFits' /\ EndedFits' /\ RowsGone' /\ WrittenFits'
    BY <2>3 DEF HandFits, EndedFits, RowsGone, InHand, WrittenFits
  <2>8. DoneFits'  BY <1>0, <1>1, <2>3 DEF DoneFits
  <2>9. ResumeFits'
    <3>1. ASSUME NEW b \in batch.selected PROVE b < batch.at
      BY <1>0, <1>6, TypesAre, SimulationAssumption DEF Attempts
    <3>2. ASSUME NEW b \in batch.selected \ batch.plan PROVE Settled(b)
      BY <1>0, <1>1, <3>1, <3>2 DEF ResumeFits, Taken
    <3>3. \A b \in batch.plan \ DOMAIN batch.done : ledger[b].status = "not_started"
      BY <1>0, <1>1 DEF ResumeFits, InHand
    <3>4. \A b \in batch'.selected \ batch'.plan : Settled(b)'
      BY <2>2, <2>3, <3>2 DEF Settled, SettledWith
    <3>5. batch'.plan \subseteq batch'.selected /\ batch'.pc = "loop"
          /\ \A b \in DOMAIN batch'.resumed : batch'.resumed[b].status = "completed"
      BY <1>0, <2>3 DEF ResumeFits
    <3> QED  BY <2>2, <2>3, <3>3, <3>4, <3>5 DEF ResumeFits
  <2> QED  BY <2>6, <2>7, <2>8, <2>9 DEF BatchInv
<1>7. ASSUME batch.at \in batch.selected, batch' = Dies(batch) PROVE ledger' = ledger
  <2>1. batch'.pc = "off"  BY <1>0, <1>7, TypesAre, OffDoes DEF Dies
  <2>2. ASSUME Stale(a, l, batch), l.run # 0 PROVE FALSE
    <3>1. batch' = [batch EXCEPT !.at = @ + 1, !.stale = @ \cup {<<a, l.run>>}]
      BY <2>2 DEF Stale
    <3>2. batch \in Batches /\ batch.pc = "resuming"  BY <1>1, <1>2
    <3>3. batch'.pc = "resuming"  BY ONLY <3>1, <3>2 DEF Batches
    <3> QED  BY <2>1, <3>3
  <2> QED  BY <1>7, <2>2 DEF ResumeNext, Completed, Stale, Unstarted, Over
<1> QED  BY <1>3, <1>4, <1>5, <1>6, <1>7

-----------------------------------------------------------------------------
(* The loop over the plan *)

SamePlan ==
    /\ batch'.selected = batch.selected /\ batch'.plan = batch.plan
    /\ batch'.resume = batch.resume /\ batch'.configured = batch.configured
    /\ batch'.stale = batch.stale

LEMMA SameFlags ==
    ASSUME SamePlan
    PROVE  (batch'.resume <=> batch.resume) /\ (batch'.configured <=> batch.configured)
<1>1. batch'.resume = batch.resume /\ batch'.configured = batch.configured  BY DEF SamePlan
<1> QED  BY ONLY <1>1, Zenon

\* the reports there are stay what the records say, beside a new one of the attempt here
LEMMA DoneGoesOn ==
    ASSUME BatchFits, DoneFits, Kept, SamePlan,
           \A a \in DOMAIN batch'.done :
              \/ /\ a \in DOMAIN batch.done /\ batch'.done[a].status = batch.done[a].status
                 /\ batch'.done[a].run = batch.done[a].run
              \/ /\ a = batch.at /\ a \in batch.plan /\ Terminal(ledger'[a])
                 /\ batch'.done[a].status = ledger'[a].status
                 /\ batch'.done[a].run = ledger'[a].run,
           batch'.pc # "resuming",
           \A a \in DOMAIN batch'.done :
              /\ batch'.pc \in InHand \cup {"loop"} => a < batch'.at
              /\ batch'.pc = "ended" => a <= batch'.at
    PROVE  DoneFits'
<1> SUFFICES ASSUME NEW a \in DOMAIN batch'.done
             PROVE  /\ a \in batch.plan /\ Terminal(ledger'[a])
                    /\ batch'.done[a].status = ledger'[a].status
                    /\ batch'.done[a].run = ledger'[a].run
  BY DEF DoneFits, SamePlan
<1>1. CASE a \in DOMAIN batch.done /\ batch'.done[a].status = batch.done[a].status
           /\ batch'.done[a].run = batch.done[a].run
  <2>1. /\ a \in batch.plan /\ Terminal(ledger[a]) /\ batch.done[a].status = ledger[a].status
        /\ batch.done[a].run = ledger[a].run /\ (batch.pc = "loop" => a < batch.at)
    BY <1>1 DEF DoneFits
  <2>2. a \in Attempts /\ a \in Nat /\ batch.at \in Nat  BY <2>1, TypesAre DEF Attempts
  <2>3. ledger'[a] = ledger[a]  BY <2>1, <2>2 DEF Kept
  <2> QED  BY <1>1, <2>1, <2>3
<1> QED  BY <1>1

LEMMA PlanGoesOn ==
    ASSUME BatchFits, ResumeFits, Kept, SamePlan,
           batch.pc \notin {"off", "resuming"}, batch'.pc \notin {"off", "resuming"},
           DOMAIN batch'.resumed = DOMAIN batch.resumed,
           \A a \in DOMAIN batch.resumed : batch'.resumed[a].status = batch.resumed[a].status,
           batch.resume => \A a \in batch.plan \ DOMAIN batch'.done :
              \/ /\ ledger'[a].status = "not_started"
                 /\ batch'.pc \in {"publishing", "republishing", "published"} => ledger'[a].ended
              \/ a = batch'.at /\ batch'.pc \in InHand
    PROVE  ResumeFits'
<1>1. (batch'.resume <=> batch.resume)  BY SameFlags
<1>2. ASSUME batch.resume, NEW a \in batch.selected \ batch.plan
      PROVE  SettledWith(a, ledger', batch'.resumed, batch'.stale)
  <2>1. SettledWith(a, ledger, batch.resumed, batch.stale) /\ a \in Attempts
    BY <1>2, TypesAre DEF ResumeFits, Taken, Settled
  <2>2. ledger'[a] = ledger[a]  BY <1>2, <2>1 DEF Kept, SettledWith
  <2> QED  BY <2>1, <2>2 DEF SettledWith, SamePlan
<1>3. \A a \in DOMAIN batch'.resumed : batch'.resumed[a].status = "completed"
  BY DEF ResumeFits
<1>4. batch'.plan \subseteq batch'.selected  BY DEF ResumeFits, SamePlan
<1>5. batch'.resume => \A a \in batch'.selected \ batch'.plan : (Taken(a)' => Settled(a)')
  BY <1>1, <1>2 DEF SamePlan, Settled
<1>6. batch'.resume => \A a \in batch'.plan \ DOMAIN batch'.done :
              \/ /\ ledger'[a].status = "not_started"
                 /\ batch'.pc \in {"publishing", "republishing", "published"} => ledger'[a].ended
              \/ a = batch'.at /\ batch'.pc \in InHand
  BY <1>1 DEF SamePlan
<1> QED  BY <1>3, <1>4, <1>5, <1>6 DEF ResumeFits

\* The conjuncts that are about other stages.
LEMMA NotThere ==
    ASSUME batch'.pc \in {"loop", "creating", "created", "playing", "ended", "closing"}
    PROVE  RowsGone' /\ WrittenFits'
BY DEF RowsGone, WrittenFits

LEMMA LoopSkipsKeeps == ASSUME BatchInv, LoopSkips PROVE BatchInv'
<1>0. /\ BatchFits /\ LedgerFits /\ HandFits /\ ReportsFit /\ DoneFits /\ ResumeFits
  BY DEF BatchInv
<1>1. UNCHANGED <<ledger, checkpoint, rows, starts, givenBack>> /\ batch.pc = "loop"
  BY DEF LoopSkips
<1>2. Ending /\ NewRows  BY <1>1 DEF Ending, NewRows
<1>3. LedgerFits' /\ Kept  BY <1>0, <1>1, <1>2, EndingKeeps
<1>4. /\ batch' \in Batches /\ SamePlan /\ batch'.done = batch.done
      /\ batch'.resumed = batch.resumed
      /\ \/ batch'.pc = "loop" /\ batch'.at = batch.at + 1
         \/ batch'.pc = "closing"
  <2>1. batch \in Batches /\ batch.at + 1 \in Nat \ {0} /\ batch.pc = "loop"
        /\ "closing" \in Stages
    BY <1>0, <1>1, TypesAre DEF BatchFits, Stages
  <2>2. CASE batch' = [batch EXCEPT !.pc = "closing"]
    BY ONLY <2>1, <2>2 DEF Batches, SamePlan
  <2>3. CASE batch' = [batch EXCEPT !.at = @ + 1]
    BY ONLY <2>1, <2>3 DEF Batches, SamePlan
  <2> QED  BY <2>2, <2>3 DEF LoopSkips
<1>5. BatchFits'  BY <1>0, <1>1, <1>4 DEF BatchFits
<1>6. ReportsFit'  BY <1>0, <1>1, <1>4 DEF ReportsFit
<1>7. HandFits' /\ EndedFits'  BY <1>4 DEF HandFits, EndedFits, InHand
<1>8. RowsGone' /\ WrittenFits'  BY <1>4, NotThere
<1>9. DoneFits'
  <2>1. \A a \in DOMAIN batch'.done : a < batch.at /\ a \in Nat /\ batch.at \in Nat
    BY <1>0, <1>1, <1>4, TypesAre DEF DoneFits, Attempts
  <2> QED  BY <1>0, <1>3, <1>4, <2>1, DoneGoesOn DEF InHand
<1>10. ResumeFits'
  <2>1. batch.resume => \A a \in batch.plan \ DOMAIN batch.done : ledger[a].status = "not_started"
    BY <1>0, <1>1 DEF ResumeFits, InHand
  <2> QED  BY <1>0, <1>1, <1>3, <1>4, <2>1, PlanGoesOn
<1> QED  BY <1>3, <1>5, <1>6, <1>7, <1>8, <1>9, <1>10 DEF BatchInv

\* A report of the attempt here joins those of the invocation.
LEMMA CheckpointedDoes ==
    ASSUME BatchFits, batch.at \in Attempts, NEW r \in Reports, Checkpointed(r)
    PROVE  /\ batch' \in Batches /\ SamePlan /\ batch'.resumed = batch.resumed
           /\ batch'.pc = "loop" /\ batch'.at = batch.at + 1
           /\ batch'.done = With(batch.done, batch.at, r)
           /\ checkpoint' = With(checkpoint, batch.at, r)
           /\ checkpoint' \in ReportsOf
<1>1. batch.done \in ReportsOf /\ checkpoint \in ReportsOf /\ r.calls \in Nat
      /\ batch.calls \in Nat
  BY TypesAre DEF BatchFits, Reports
<1> DEFINE f == With(batch.done, batch.at, r)
<1>2. f \in ReportsOf /\ With(checkpoint, batch.at, r) \in ReportsOf  BY <1>1, WithDoes
<1>3. batch' = [batch EXCEPT !.pc = "loop", !.at = batch.at + 1, !.done = f,
                             !.calls = batch.calls + r.calls]
      /\ checkpoint' = With(checkpoint, batch.at, r)
  BY DEF Checkpointed, Here
<1>4. batch \in Batches /\ batch.at + 1 \in Nat \ {0} /\ batch.calls + r.calls \in Nat
      /\ "loop" \in Stages
  BY <1>1, TypesAre DEF BatchFits, Stages
<1> HIDE DEF f
<1>5. /\ batch' \in Batches /\ SamePlan /\ batch'.resumed = batch.resumed
      /\ batch'.pc = "loop" /\ batch'.at = batch.at + 1 /\ batch'.done = f
  BY ONLY <1>2, <1>3, <1>4 DEF Batches, SamePlan
<1> QED  BY <1>2, <1>3, <1>5 DEF f

LEMMA ReportsWithOne ==
    ASSUME BatchFits, HandFits, ReportsFit, Kept, NewRows, batch.at \in Attempts,
           NEW r \in Reports,
           r.status = "completed" =>
               /\ ledger'[batch.at].status = "completed" /\ ledger'[batch.at].run = r.run
               /\ r.deleted /\ r.run # 0 => <<batch.at, r.run>> \notin rows',
           batch'.done = With(batch.done, batch.at, r), batch'.resumed = batch.resumed,
           checkpoint' = checkpoint \/ checkpoint' = With(checkpoint, batch.at, r)
    PROVE  ReportsFit'
<1>1. \A f \in {checkpoint, batch.done, batch.resumed} :
        f \in ReportsOf /\ AgreesWith(f, ledger', rows')
  BY TypesAre, AgreesStays DEF ReportsFit, BatchFits
<1>2. \A f \in {checkpoint, batch.done} : AgreesWith(With(f, batch.at, r), ledger', rows')
  BY <1>1, AgreesWithOne
<1> QED  BY <1>1, <1>2 DEF ReportsFit

LEMMA OneMoreReport ==
    ASSUME NEW at \in Attempts, NEW r \in Reports, batch.at = at, batch.done \in ReportsOf,
           batch'.done = With(batch.done, batch.at, r)
    PROVE  /\ DOMAIN batch'.done = DOMAIN batch.done \cup {batch.at}
           /\ batch'.done[batch.at] = r
           /\ \A a \in DOMAIN batch.done : a # batch.at => batch'.done[a] = batch.done[a]
<1>1. ASSUME NEW f \in ReportsOf
      PROVE  /\ DOMAIN With(f, at, r) = DOMAIN f \cup {at} /\ With(f, at, r)[at] = r
             /\ \A a \in DOMAIN f : a # at => With(f, at, r)[a] = f[a]
  BY ONLY at \in Attempts, r \in Reports, <1>1, WithDoes
<1>2. batch.done \in ReportsOf /\ batch'.done = With(batch.done, at, r) /\ batch.at = at
  OBVIOUS
<1> QED  BY ONLY <1>1, <1>2

\* The attempt here ends in the loop or on the way to it, with its report.
LEMMA AttemptEnds ==
    ASSUME BatchInv, batch.pc \in InHand \cup {"loop", "ended"}, batch.at \in batch.plan,
           BatchFits', LedgerFits', Kept, NewRows,
           NEW r \in Reports, Terminal(ledger'[batch.at]),
           r.status = ledger'[batch.at].status, r.run = ledger'[batch.at].run,
           r.status = "completed" /\ r.deleted /\ r.run # 0 => <<batch.at, r.run>> \notin rows',
           \A a \in Attempts : a # batch.at => ledger'[a] = ledger[a],
           SamePlan, batch'.done = With(batch.done, batch.at, r), batch'.resumed = batch.resumed,
           checkpoint' = checkpoint \/ checkpoint' = With(checkpoint, batch.at, r),
           \/ batch'.pc = "loop" /\ batch'.at = batch.at + 1
           \/ batch'.pc = "ended" /\ batch'.at = batch.at
    PROVE  BatchInv'
<1>0. /\ BatchFits /\ LedgerFits /\ HandFits /\ ReportsFit /\ DoneFits /\ ResumeFits
  BY DEF BatchInv
<1>1. batch.at \in Attempts /\ batch.done \in ReportsOf  BY <1>0, TypesAre
<1>2. /\ DOMAIN batch'.done = DOMAIN batch.done \cup {batch.at}
      /\ batch'.done[batch.at] = r
      /\ \A a \in DOMAIN batch.done : a # batch.at => batch'.done[a] = batch.done[a]
  BY <1>1, OneMoreReport
<1>3. ReportsFit'
  <2>1. r.status = "completed" =>
          /\ ledger'[batch.at].status = "completed" /\ ledger'[batch.at].run = r.run
          /\ r.deleted /\ r.run # 0 => <<batch.at, r.run>> \notin rows'
    OBVIOUS
  <2> QED  BY <1>0, <1>1, <2>1, ReportsWithOne
<1>4. HandFits' /\ EndedFits'  BY <1>2 DEF HandFits, EndedFits, InHand
<1>5. RowsGone' /\ WrittenFits'  BY NotThere
<1>6. DoneFits'
  <2>1. \A a \in DOMAIN batch'.done : a <= batch.at /\ a \in Nat /\ batch.at \in Nat
    BY <1>0, <1>2, TypesAre DEF DoneFits, InHand, Attempts
  <2>2. \A a \in DOMAIN batch'.done :
          \/ /\ a \in DOMAIN batch.done /\ batch'.done[a].status = batch.done[a].status
             /\ batch'.done[a].run = batch.done[a].run
          \/ /\ a = batch.at /\ a \in batch.plan /\ Terminal(ledger'[a])
             /\ batch'.done[a].status = ledger'[a].status
             /\ batch'.done[a].run = ledger'[a].run
    BY <1>2
  <2>3. \A a \in DOMAIN batch'.done :
          /\ batch'.pc \in InHand \cup {"loop"} => a < batch'.at
          /\ batch'.pc = "ended" => a <= batch'.at
    BY <2>1 DEF InHand
  <2> QED  BY <1>0, <2>2, <2>3, DoneGoesOn
<1>7. ResumeFits'
  <2>1. batch.resume => \A a \in batch.plan \ DOMAIN batch'.done : ledger'[a].status = "not_started"
    <3>1. SUFFICES ASSUME batch.resume, NEW a \in batch.plan \ DOMAIN batch'.done
                   PROVE  ledger'[a].status = "not_started"
      OBVIOUS
    <3>2. a # batch.at /\ a \in batch.plan \ DOMAIN batch.done /\ a \in Attempts
      BY <1>0, <1>2, TypesAre
    <3>3. ledger[a].status = "not_started"  BY <1>0, <3>1, <3>2 DEF ResumeFits
    <3> QED  BY <3>2, <3>3
  <2> QED  BY <1>0, <2>1, PlanGoesOn DEF InHand
<1> QED  BY <1>3, <1>4, <1>5, <1>6, <1>7 DEF BatchInv

LEMMA RejectedKeeps == ASSUME BatchInv, Rejected PROVE BatchInv'
<1>0. /\ BatchFits /\ LedgerFits /\ HandFits /\ ReportsFit /\ DoneFits /\ ResumeFits
  BY DEF BatchInv
<1>1. /\ batch.pc = "loop" /\ batch.at \in batch.plan /\ batch.at \in Attempts
      /\ UNCHANGED <<rows, starts>> /\ NewRows
  BY <1>0, TypesAre DEF Rejected, Here, NewRows
<1>2. CASE FinishRefused(ledger[batch.at], "not_started")
  <2>1. batch' = Dies(batch) /\ UNCHANGED <<ledger, checkpoint, givenBack>>
    BY <1>2 DEF Rejected, Here
  <2>2. ledger' \in Ledgers  BY <1>0, <2>1 DEF BatchFits
  <2> QED  BY <1>1, <2>1, <2>2, DiesKeeps, SameLedgerEnds
<1>3. CASE ~FinishRefused(ledger[batch.at], "not_started")
  <2>1. /\ ledger' = [ledger EXCEPT ![batch.at] = Finished(ledger[batch.at], "not_started", 0)]
        /\ givenBack' = IF ledger[batch.at].status = "started" THEN givenBack \cup {batch.at}
                        ELSE givenBack
        /\ Checkpointed(Report("not_started", 0, 0))
    BY <1>3 DEF Rejected, Here
  <2>2. "not_started" \in TERMINAL_ATTEMPT_STATUSES  BY DEF TERMINAL_ATTEMPT_STATUSES
  <2> DEFINE r == Report("not_started", 0, 0)
  <2>3. r \in Reports /\ r.status = "not_started" /\ r.run = 0 /\ ~r.deleted  BY <2>2, ReportType
  <2>4. ledger[batch.at].status \in Statuses /\ starts[batch.at] \in Nat  BY <1>0, <1>1, TypesAre
  <2>5. ~Terminal(ledger[batch.at]) =>
          ledger[batch.at].status = "not_started" \/ batch.at \in givenBack'
    BY <2>1, <2>4 DEF Terminal, Statuses, TERMINAL_ATTEMPT_STATUSES
  <2>6. /\ ledger' \in Ledgers /\ Ending /\ Terminal(ledger'[batch.at])
        /\ \A a \in Attempts : a # batch.at => ledger'[a] = ledger[a]
        /\ Terminal(ledger[batch.at]) => ledger' = ledger
        /\ ~Terminal(ledger[batch.at]) =>
              ledger'[batch.at].status = "not_started" /\ ledger'[batch.at].run = 0
    <3>1. FinishesHere("not_started", 0)  BY <2>1 DEF FinishesHere
    <3> QED  BY <1>0, <1>1, <2>2, <2>4, <2>5, <3>1, FinishHereDoes
  <2>7. ledger'[batch.at].status = "not_started" /\ ledger'[batch.at].run = 0
    BY <1>0, <1>1, <1>3, <2>6 DEF FinishRefused, LedgerFits
  <2> HIDE DEF r
  <2>8. /\ batch' \in Batches /\ SamePlan /\ batch'.resumed = batch.resumed
        /\ batch'.pc = "loop" /\ batch'.at = batch.at + 1
        /\ batch'.done = With(batch.done, batch.at, r)
        /\ checkpoint' = With(checkpoint, batch.at, r)
        /\ checkpoint' \in ReportsOf
    <3>1. Checkpointed(r)  BY <2>1 DEF r
    <3> QED  BY <1>0, <1>1, <2>3, <3>1, CheckpointedDoes
  <2>9. givenBack \subseteq givenBack' /\ givenBack' \subseteq Attempts
    BY <1>0, <1>1, <2>1 DEF BatchFits
  <2>10. BatchFits'  BY <1>0, <1>1, <2>6, <2>8, <2>9 DEF BatchFits
  <2>11. LedgerFits' /\ Kept  BY <1>0, <1>1, <2>6, <2>9, EndingKeeps
  <2> QED  BY <1>1, <2>3, <2>6, <2>7, <2>8, <2>10, <2>11, AttemptEnds
<1> QED  BY <1>2, <1>3

LEMMA AttemptReportedKeeps == ASSUME BatchInv, AttemptReported PROVE BatchInv'
<1>0. /\ BatchFits /\ LedgerFits /\ HandFits /\ ReportsFit /\ DoneFits /\ EndedFits
  BY DEF BatchInv
<1>1. /\ batch.pc = "ended" /\ Checkpointed(batch.done[batch.at])
      /\ UNCHANGED <<ledger, rows, starts, givenBack>>
  BY DEF AttemptReported, Here
<1>2. /\ batch.at \in DOMAIN batch.done /\ batch.at \in batch.plan /\ Terminal(ledger[batch.at])
      /\ batch.done[batch.at].status = ledger[batch.at].status
      /\ batch.done[batch.at].run = ledger[batch.at].run
  BY <1>0, <1>1 DEF EndedFits, DoneFits
<1>3. batch.at \in Attempts /\ batch.done[batch.at] \in Reports
  BY <1>0, <1>2, TypesAre, ReportsAre
<1>4. /\ batch' \in Batches /\ SamePlan /\ batch'.resumed = batch.resumed
      /\ batch'.pc = "loop" /\ batch'.at = batch.at + 1
      /\ batch'.done = With(batch.done, batch.at, batch.done[batch.at])
      /\ checkpoint' = With(checkpoint, batch.at, batch.done[batch.at])
      /\ checkpoint' \in ReportsOf
  BY <1>0, <1>1, <1>3, CheckpointedDoes
<1>5. BatchFits'  BY <1>0, <1>1, <1>4 DEF BatchFits
<1>6. NewRows /\ Ending  BY <1>1 DEF NewRows, Ending
<1>7. LedgerFits' /\ Kept  BY <1>0, <1>1, <1>6, EndingKeeps
<1>8. /\ batch.done[batch.at].status = "completed"
      /\ batch.done[batch.at].deleted /\ batch.done[batch.at].run # 0
      => <<batch.at, batch.done[batch.at].run>> \notin rows'
  BY <1>0, <1>1, <1>2 DEF ReportsFit, AgreesWith
<1> QED  BY <1>1, <1>2, <1>3, <1>4, <1>5, <1>6, <1>7, <1>8, AttemptEnds

\* The attempt here is taken in hand, or goes a step on.
LEMMA HandGoesOn ==
    ASSUME BatchInv, BatchFits', LedgerFits', HandFits', Kept, NewRows,
           batch.pc \in InHand \cup {"loop"}, batch'.pc \in InHand, SamePlan,
           batch'.at = batch.at, batch'.done = batch.done, batch'.resumed = batch.resumed,
           checkpoint' = checkpoint,
           \A a \in Attempts : a # batch.at => ledger'[a] = ledger[a]
    PROVE  BatchInv'
<1>0. /\ BatchFits /\ LedgerFits /\ HandFits /\ ReportsFit /\ DoneFits /\ ResumeFits
  BY DEF BatchInv
<1>1. ReportsFit'
  <2>1. \A f \in {checkpoint, batch.done, batch.resumed} :
          f \in ReportsOf /\ AgreesWith(f, ledger, rows)
    BY <1>0, TypesAre DEF ReportsFit, BatchFits
  <2>2. \A f \in {checkpoint, batch.done, batch.resumed} : AgreesWith(f, ledger', rows')
    BY <1>0, <2>1, AgreesStays
  <2> QED  BY <2>2 DEF ReportsFit
<1>2. EndedFits'  BY DEF EndedFits, InHand
<1>3. RowsGone' /\ WrittenFits'  BY NotThere DEF InHand
<1>4. DoneFits'
  <2>1. \A a \in DOMAIN batch'.done : a < batch'.at  BY <1>0 DEF DoneFits
  <2>2. batch'.pc \notin {"resuming", "ended"}  BY DEF InHand
  <2> QED  BY <1>0, <2>1, <2>2, DoneGoesOn
<1>5. ResumeFits'
  <2>1. ASSUME batch.resume, NEW a \in batch.plan \ DOMAIN batch'.done
        PROVE  ledger'[a].status = "not_started" \/ a = batch'.at
    <3>1. a \in Attempts  BY <1>0, TypesAre
    <3>2. ledger[a].status = "not_started" \/ a = batch.at  BY <1>0, <2>1 DEF ResumeFits
    <3> QED  BY <3>1, <3>2
  <2>2. /\ batch.pc \notin {"off", "resuming"}
        /\ batch'.pc \notin {"off", "resuming", "publishing", "republishing", "published"}
    BY DEF InHand
  <2> QED  BY <1>0, <2>1, <2>2, PlanGoesOn
<1> QED  BY <1>1, <1>2, <1>3, <1>4, <1>5 DEF BatchInv

LEMMA StartKeeps == ASSUME BatchInv, Start PROVE BatchInv'
<1>0. BatchFits /\ LedgerFits /\ HandFits  BY DEF BatchInv
<1>1. /\ batch.pc = "loop" /\ batch.at \in batch.plan /\ batch.at \in Attempts
      /\ UNCHANGED <<checkpoint, rows, givenBack>> /\ NewRows
      /\ ledger \in Ledgers /\ starts \in [Attempts -> Nat] /\ batch \in Batches
  BY <1>0, TypesAre DEF Start, Here, NewRows, BatchFits
<1>2. CASE ~MayStart(ledger[batch.at])
  <2>1. batch' = Dies(batch) /\ UNCHANGED <<ledger, starts>>  BY <1>2 DEF Start, Here
  <2> QED  BY <1>1, <2>1, DiesKeeps, SameLedgerEnds
<1>3. CASE MayStart(ledger[batch.at])
  <2>1. /\ ledger' = [ledger EXCEPT ![batch.at] =
                         [status |-> "started", ended |-> FALSE, run |-> 0]]
        /\ starts' = [starts EXCEPT ![batch.at] = starts[batch.at] + 1]
        /\ batch' = [batch EXCEPT !.pc = "creating"]
        /\ ledger[batch.at].status = "not_started"
    BY <1>3 DEF Start, Here, MayStart
  <2>2. [status |-> "started", ended |-> FALSE, run |-> 0] \in LedgerEntries
    BY DEF LedgerEntries, Statuses
  <2>3. /\ ledger' \in Ledgers /\ ledger'[batch.at].status = "started"
        /\ ledger'[batch.at].run = 0
        /\ \A a \in Attempts : a # batch.at => ledger'[a] = ledger[a]
    BY ONLY <1>1, <2>1, <2>2 DEF Ledgers
  <2>4. /\ starts' \in [Attempts -> Nat] /\ starts'[batch.at] = starts[batch.at] + 1
        /\ \A a \in Attempts : a # batch.at => starts'[a] = starts[a]
    BY ONLY <1>1, <2>1
  <2>5. /\ batch' \in Batches /\ SamePlan /\ batch'.pc = "creating" /\ batch'.at = batch.at
        /\ batch'.done = batch.done /\ batch'.resumed = batch.resumed
    <3>1. "creating" \in Stages  BY DEF Stages
    <3> QED  BY ONLY <1>1, <2>1, <3>1 DEF Batches, SamePlan
  <2>6. BatchFits'  BY <1>0, <1>1, <2>3, <2>4, <2>5 DEF BatchFits
  <2>7. Kept  BY <1>1, <2>1, <2>3 DEF Kept
  <2>8. LedgerFits'
    <3>1. ASSUME NEW a \in Attempts
          PROVE  /\ ledger'[a].run <= starts'[a]
                 /\ ledger'[a].status = "not_started" => ledger'[a].run = 0
                 /\ a \notin givenBack' => starts'[a] <= 1
                 /\ a \notin givenBack' /\ starts'[a] # 0 => ledger'[a].status # "not_started"
      <4>1. starts[a] \in Nat /\ ledger[a].run \in Nat  BY <1>0, TypesAre
      <4>2. CASE a = batch.at  BY <1>0, <1>1, <2>1, <2>3, <2>4, <4>1, <4>2 DEF LedgerFits
      <4>3. CASE a # batch.at  BY <1>0, <1>1, <2>3, <2>4, <4>3 DEF LedgerFits
      <4> QED  BY <4>2, <4>3
    <3>2. ASSUME NEW a \in Attempts, NEW n \in Nat, <<a, n>> \in rows'
          PROVE  n # 0 /\ n <= starts'[a]
      <4>1. n # 0 /\ n <= starts[a]  BY <1>0, <1>1, <3>2 DEF LedgerFits
      <4> QED  BY <1>1, <2>4, <4>1
    <3> QED  BY <3>1, <3>2 DEF LedgerFits
  <2>9. HandFits'
    <3>1. starts'[batch.at] # 0  BY <1>1, <2>4
    <3> QED  BY <1>1, <2>3, <2>5, <3>1 DEF HandFits, SamePlan
  <2>10. batch.pc \in InHand \cup {"loop"} /\ batch'.pc \in InHand  BY <1>1, <2>5 DEF InHand
  <2> QED  BY <1>1, <2>3, <2>5, <2>6, <2>7, <2>8, <2>9, <2>10, HandGoesOn
<1> QED  BY <1>2, <1>3

LEMMA RunCreatedKeeps == ASSUME BatchInv, RunCreated PROVE BatchInv'
<1>0. BatchFits /\ LedgerFits /\ HandFits  BY DEF BatchInv
<1>1. /\ batch.pc = "creating" /\ UNCHANGED <<ledger, checkpoint, starts, givenBack>>
      /\ rows' = rows \cup {<<batch.at, starts[batch.at]>>}
      /\ batch' = [batch EXCEPT !.pc = "created"]
  BY DEF RunCreated, Run, Here
<1>2. /\ batch.at \in batch.plan /\ batch.at \in Attempts /\ ledger[batch.at].run = 0
      /\ ledger[batch.at].status = "started" /\ starts[batch.at] # 0
      /\ starts[batch.at] \in Nat
  BY <1>0, <1>1, TypesAre DEF HandFits, InHand
<1>3. /\ batch' \in Batches /\ SamePlan /\ batch'.pc = "created" /\ batch'.at = batch.at
      /\ batch'.done = batch.done /\ batch'.resumed = batch.resumed
  <2>1. batch \in Batches /\ "created" \in Stages  BY <1>0 DEF BatchFits, Stages
  <2> QED  BY ONLY <1>1, <2>1 DEF Batches, SamePlan
<1>4. Ending /\ NewRows  BY <1>1 DEF Ending, NewRows
<1>5. LedgerFits' /\ Kept  BY <1>0, <1>1, <1>4, EndingKeeps
<1>6. BatchFits'  BY <1>0, <1>1, <1>2, <1>3 DEF BatchFits
<1>7. HandFits'  BY <1>1, <1>2, <1>3 DEF HandFits, SamePlan
<1>8. batch.pc \in InHand \cup {"loop"} /\ batch'.pc \in InHand  BY <1>1, <1>3 DEF InHand
<1> QED  BY <1>1, <1>3, <1>4, <1>5, <1>6, <1>7, <1>8, HandGoesOn

LEMMA AttachRunKeeps == ASSUME BatchInv, AttachRun PROVE BatchInv'
<1>0. BatchFits /\ LedgerFits /\ HandFits  BY DEF BatchInv
<1>1. /\ batch.pc = "created" /\ UNCHANGED <<checkpoint, rows, starts, givenBack>>
      /\ ledger' = [ledger EXCEPT ![batch.at].run = starts[batch.at]]
      /\ batch' = [batch EXCEPT !.pc = "playing"]
  BY DEF AttachRun, Here
<1>2. /\ batch.at \in batch.plan /\ batch.at \in Attempts
      /\ ledger[batch.at].status = "started" /\ starts[batch.at] # 0
      /\ starts[batch.at] \in Nat /\ ledger \in Ledgers
  BY <1>0, <1>1, TypesAre DEF HandFits, InHand, BatchFits
<1>3. /\ batch' \in Batches /\ SamePlan /\ batch'.pc = "playing" /\ batch'.at = batch.at
      /\ batch'.done = batch.done /\ batch'.resumed = batch.resumed
  <2>1. batch \in Batches /\ "playing" \in Stages  BY <1>0 DEF BatchFits, Stages
  <2> QED  BY ONLY <1>1, <2>1 DEF Batches, SamePlan
<1>4. /\ ledger' \in Ledgers /\ ledger'[batch.at].status = "started"
      /\ ledger'[batch.at].run = starts[batch.at]
      /\ \A a \in Attempts : a # batch.at => ledger'[a] = ledger[a]
  BY ONLY <1>1, <1>2 DEF Ledgers, LedgerEntries
<1>5. ~Terminal(ledger[batch.at])
  BY <1>2 DEF Terminal, Ends
<1>6. Ending /\ NewRows  BY <1>1, <1>2, <1>4, <1>5 DEF Ending, NewRows
<1>7. LedgerFits' /\ Kept  BY <1>0, <1>1, <1>6, EndingKeeps
<1>8. BatchFits'  BY <1>0, <1>1, <1>3, <1>4 DEF BatchFits
<1>9. HandFits'  BY <1>1, <1>2, <1>3, <1>4 DEF HandFits, SamePlan
<1>10. batch.pc \in InHand \cup {"loop"} /\ batch'.pc \in InHand  BY <1>1, <1>3 DEF InHand
<1> QED  BY <1>1, <1>3, <1>4, <1>6, <1>7, <1>8, <1>9, <1>10, HandGoesOn

\* An attempt that started is over, with its report.
LEMMA AttemptOver ==
    ASSUME BatchInv, batch.pc \in InHand, NEW status \in Ends, NEW run \in Nat, NEW calls \in Nat,
           FinishesHere(status, run), run <= starts[batch.at], NewRows,
           rows' \subseteq Attempts \X Nat, UNCHANGED <<checkpoint, starts, givenBack>>,
           batch' = [batch EXCEPT !.pc = "ended",
                        !.done = With(batch.done, batch.at, Report(status, run, calls))]
    PROVE  BatchInv'
<1> DEFINE r == Report(status, run, calls)
           f == With(batch.done, batch.at, r)
<1>0. BatchFits /\ LedgerFits /\ HandFits  BY DEF BatchInv
<1>1. /\ batch.at \in batch.plan /\ batch.at \in Attempts
      /\ ledger[batch.at].status = "started" /\ batch.done \in ReportsOf
  BY <1>0, TypesAre DEF HandFits
<1>2. status \in TERMINAL_ATTEMPT_STATUSES /\ status # "not_started"
      /\ ~Terminal(ledger[batch.at])
  BY <1>1 DEF TERMINAL_ATTEMPT_STATUSES, Ends, Terminal
<1>3. r \in Reports /\ r.status = status /\ r.run = run /\ ~r.deleted  BY <1>2, ReportType
<1>4. f \in ReportsOf
  <2>1. \A q \in Reports, a \in Attempts : With(batch.done, a, q) \in ReportsOf
    BY ONLY <1>1, WithDoes
  <2> QED  BY ONLY <1>1, <1>3, <2>1
<1>5. /\ ledger' \in Ledgers /\ Ending /\ Terminal(ledger'[batch.at])
      /\ \A a \in Attempts : a # batch.at => ledger'[a] = ledger[a]
      /\ ledger'[batch.at].status = status /\ ledger'[batch.at].run = run
  BY <1>0, <1>1, <1>2, FinishHereDoes
<1>6. batch' = [batch EXCEPT !.pc = "ended", !.done = f]  OBVIOUS
<1> HIDE DEF f, r
<1>7. /\ batch' \in Batches /\ SamePlan /\ batch'.resumed = batch.resumed
      /\ batch'.pc = "ended" /\ batch'.at = batch.at /\ batch'.done = f
  <2>1. batch \in Batches /\ "ended" \in Stages  BY <1>0 DEF BatchFits, Stages
  <2> QED  BY ONLY <1>4, <1>6, <2>1 DEF Batches, SamePlan
<1>8. BatchFits'  BY <1>0, <1>5, <1>7 DEF BatchFits
<1>9. LedgerFits' /\ Kept  BY <1>0, <1>5, EndingKeeps
<1>10. batch'.done = With(batch.done, batch.at, r)  BY <1>7 DEF f
<1> QED  BY <1>1, <1>3, <1>5, <1>7, <1>8, <1>9, <1>10, AttemptEnds

LEMMA CreationFailsKeeps == ASSUME BatchInv, CreationFails PROVE BatchInv'
<1>0. BatchFits  BY DEF BatchInv
<1>1. PICK status \in {"timeout", "runner_failed"}, stored \in BOOLEAN :
        /\ rows' = IF stored THEN rows \cup {<<batch.at, starts[batch.at]>>} ELSE rows
        /\ ledger' = [ledger EXCEPT ![batch.at] = Finished(ledger[batch.at], status, 0)]
        /\ batch' = [batch EXCEPT !.pc = "ended",
                        !.done = With(batch.done, batch.at, Report(status, 0, 0))]
  BY DEF CreationFails, Run, Here
<1>2. batch.pc = "creating" /\ UNCHANGED <<checkpoint, starts, givenBack>>
  BY DEF CreationFails
<1>3. status \in Ends /\ batch.pc \in InHand  BY <1>1, <1>2 DEF Ends, InHand
<1>4. batch.at \in Attempts /\ starts[batch.at] \in Nat
  BY <1>0, <1>3, TypesAre DEF BatchInv, HandFits
<1>5. FinishesHere(status, 0)  BY <1>1 DEF FinishesHere
<1>6. NewRows /\ rows' \subseteq Attempts \X Nat
  BY <1>0, <1>1, <1>2, <1>4 DEF NewRows, BatchFits
<1>7. 0 \in Nat /\ 0 <= starts[batch.at]  BY <1>4
<1> QED  BY <1>1, <1>2, <1>3, <1>5, <1>6, <1>7, AttemptOver

LEMMA PlayEndsKeeps == ASSUME BatchInv, PlayEnds PROVE BatchInv'
<1>0. BatchFits  BY DEF BatchInv
<1>1. PICK status \in Ends, calls \in 0 .. CallLimit + MaxRepeats :
        /\ ledger' = [ledger EXCEPT ![batch.at] =
                         Finished(ledger[batch.at], status, starts[batch.at])]
        /\ batch' = [batch EXCEPT !.pc = "ended",
                        !.done = With(batch.done, batch.at,
                                      Report(status, starts[batch.at], calls))]
  BY DEF PlayEnds, Here
<1>2. batch.pc = "playing" /\ UNCHANGED <<checkpoint, rows, starts, givenBack>>
  BY DEF PlayEnds
<1>3. batch.pc \in InHand /\ calls \in Nat  BY <1>2 DEF InHand
<1>4. batch.at \in Attempts /\ starts[batch.at] \in Nat /\ starts[batch.at] <= starts[batch.at]
  BY <1>0, <1>3, TypesAre DEF BatchInv, HandFits
<1>5. FinishesHere(status, starts[batch.at])  BY <1>1 DEF FinishesHere
<1>6. NewRows /\ rows' \subseteq Attempts \X Nat  BY <1>0, <1>2 DEF NewRows, BatchFits
<1> QED  BY <1>1, <1>2, <1>3, <1>4, <1>5, <1>6, AttemptOver

LEMMA InterruptedKeeps == ASSUME BatchInv, Interrupted PROVE BatchInv'
<1> DEFINE run == IF batch.pc = "creating" THEN 0 ELSE starts[batch.at]
<1>0. BatchFits /\ LedgerFits /\ HandFits  BY DEF BatchInv
<1>1. /\ batch.pc \in InHand /\ UNCHANGED <<checkpoint, rows, starts, givenBack>>
      /\ batch' = Dies(batch)
      /\ ledger' = [ledger EXCEPT ![batch.at] =
                       Finished(ledger[batch.at], "runner_failed", run)]
  BY DEF Interrupted, InHand, Here
<1>2. batch.at \in Attempts /\ run \in Nat /\ run <= starts[batch.at]
  BY <1>0, <1>1, TypesAre DEF HandFits
<1>3. FinishesHere("runner_failed", run)  BY <1>1 DEF FinishesHere
<1>4. "runner_failed" \in TERMINAL_ATTEMPT_STATUSES  BY DEF TERMINAL_ATTEMPT_STATUSES, Ends
<1> HIDE DEF run
<1>5. ledger' \in Ledgers /\ Ending  BY <1>0, <1>2, <1>3, <1>4, FinishHereDoes
<1> QED  BY <1>1, <1>5, DiesKeeps

-----------------------------------------------------------------------------
(* The batch is closed and published *)

LEMMA CheckedAgrees ==
    ASSUME NEW f \in ReportsOf, NEW l, NEW left, NEW left0, AgreesWith(f, l, left0)
    PROVE  AgreesWith(CheckedRuns(f, left), l, left)
<1> DEFINE g == CheckedRuns(f, left)
<1>1. /\ DOMAIN g = DOMAIN f
      /\ \A a \in DOMAIN f : g[a].status = f[a].status /\ g[a].run = f[a].run
  BY CheckedStays
<1>2. \A a \in DOMAIN f : f[a].run # 0 => (g[a].deleted <=> <<a, f[a].run>> \notin left)
  BY CheckedDeletes
<1> HIDE DEF g
<1>3. AgreesWith(g, l, left)  BY <1>1, <1>2 DEF AgreesWith
<1> QED  BY <1>3 DEF g

\* A stage after the loop: nothing of the attempts is written but that they are ended.
LEMMA ClosingGoesOn ==
    ASSUME BatchInv, BatchFits', Ending, NewRows, starts' = starts, givenBack' = givenBack,
           batch.pc \in {"closing", "settling", "publishing", "republishing"},
           batch'.pc \in {"settling", "publishing", "republishing", "published"},
           SamePlan, ReportsFit',
           DOMAIN batch'.done = DOMAIN batch.done,
           \A a \in DOMAIN batch.done : /\ batch'.done[a].status = batch.done[a].status
                                        /\ batch'.done[a].run = batch.done[a].run,
           DOMAIN batch'.resumed = DOMAIN batch.resumed,
           \A a \in DOMAIN batch.resumed : batch'.resumed[a].status = batch.resumed[a].status,
           \A a \in Attempts : ledger[a].status = "not_started" =>
               /\ ledger'[a].status = "not_started"
               /\ batch'.pc \in {"publishing", "republishing", "published"} => ledger'[a].ended,
           RowsGone', WrittenFits'
    PROVE  BatchInv'
<1>0. /\ BatchFits /\ LedgerFits /\ HandFits /\ ReportsFit /\ DoneFits /\ ResumeFits
  BY DEF BatchInv
<1>1. LedgerFits' /\ Kept  BY <1>0, EndingKeeps
<1>2. HandFits' /\ EndedFits'  BY DEF HandFits, EndedFits, InHand
<1>3. DoneFits'
  <2>1. batch'.pc \notin {"resuming", "loop", "ended", "creating", "created", "playing"}
    OBVIOUS
  <2> QED  BY <1>0, <1>1, <2>1, DoneGoesOn DEF InHand
<1>4. ResumeFits'
  <2>1. ASSUME batch.resume, NEW a \in batch.plan \ DOMAIN batch'.done
        PROVE  /\ ledger'[a].status = "not_started"
               /\ batch'.pc \in {"publishing", "republishing", "published"} => ledger'[a].ended
    <3>1. a \in Attempts  BY <1>0, TypesAre
    <3>2. ledger[a].status = "not_started"  BY <1>0, <2>1 DEF ResumeFits, InHand
    <3> QED  BY <3>1, <3>2
  <2>2. batch.pc \notin {"off", "resuming"} /\ batch'.pc \notin {"off", "resuming"}  OBVIOUS
  <2> QED  BY <1>0, <1>1, <2>1, <2>2, PlanGoesOn
<1> QED  BY <1>1, <1>2, <1>3, <1>4 DEF BatchInv

LEMMA DeleteRunsKeeps == ASSUME BatchInv, DeleteRuns PROVE BatchInv'
<1>0. /\ BatchFits /\ LedgerFits /\ ReportsFit /\ DoneFits /\ ResumeFits
  BY DEF BatchInv
<1>1. /\ batch.pc = "closing" /\ UNCHANGED <<ledger, checkpoint, starts, givenBack>>
      /\ batch \in Batches /\ "settling" \in Stages /\ 1 \in Nat \ {0}
      /\ batch.done \in ReportsOf /\ batch.resumed \in ReportsOf
      /\ AgreesWith(batch.done, ledger, rows) /\ AgreesWith(batch.resumed, ledger, rows)
      /\ AgreesWith(checkpoint, ledger, rows) /\ checkpoint \in ReportsOf
  BY <1>0, TypesAre DEF DeleteRuns, BatchFits, Stages, ReportsFit
<1>2. CASE ~batch.configured
  <2>1. batch' = [batch EXCEPT !.pc = "settling", !.at = 1] /\ rows' = rows
    BY <1>2 DEF DeleteRuns
  <2>2. /\ batch' \in Batches /\ SamePlan /\ batch'.pc = "settling"
        /\ batch'.done = batch.done /\ batch'.resumed = batch.resumed
    BY ONLY <1>1, <2>1 DEF Batches, SamePlan
  <2>3. RowsGone' /\ WrittenFits'
    BY <1>2, <2>2, SameFlags DEF RowsGone, WrittenFits
  <2>4. BatchFits' /\ Ending /\ NewRows /\ ReportsFit'
    BY <1>0, <1>1, <2>1, <2>2 DEF BatchFits, Ending, NewRows, ReportsFit
  <2> QED  BY <1>1, <2>2, <2>3, <2>4, ClosingGoesOn
<1>3. CASE batch.configured
  <2> DEFINE runs == CheckedRuns(batch.done, rows')
             older == CheckedRuns(batch.resumed, rows')
  <2>1. /\ rows' = rows \ DeletedRuns
        /\ batch' = [batch EXCEPT !.pc = "settling", !.at = 1, !.done = runs, !.resumed = older]
    BY <1>3 DEF DeleteRuns
  <2>2. /\ runs \in ReportsOf /\ DOMAIN runs = DOMAIN batch.done
        /\ \A a \in DOMAIN batch.done : /\ runs[a].status = batch.done[a].status
                                        /\ runs[a].run = batch.done[a].run
    BY <1>1, CheckedStays
  <2>3. /\ older \in ReportsOf /\ DOMAIN older = DOMAIN batch.resumed
        /\ \A a \in DOMAIN batch.resumed : older[a].status = batch.resumed[a].status
    BY <1>1, CheckedStays
  <2>4. AgreesWith(runs, ledger, rows') /\ AgreesWith(older, ledger, rows')
    BY <1>1, CheckedAgrees
  <2> HIDE DEF runs, older
  <2>5. /\ batch' \in Batches /\ SamePlan /\ batch'.pc = "settling"
        /\ batch'.done = runs /\ batch'.resumed = older
    BY ONLY <1>1, <2>1, <2>2, <2>3 DEF Batches, SamePlan
  <2>6. AgreesWith(checkpoint, ledger, rows')  BY <1>1, <2>1 DEF AgreesWith
  <2>7. ReportsFit'  BY <1>1, <2>4, <2>5, <2>6 DEF ReportsFit
  <2>8. BatchFits' /\ Ending /\ NewRows
    BY <1>0, <1>1, <2>1, <2>5 DEF BatchFits, Ending, NewRows
  <2>9. RowsGone'
    <3>1. Accounted' = Accounted  BY <2>2, <2>5, SameFlags DEF Accounted, SamePlan
    <3>2. ASSUME NEW a \in Accounted PROVE <<a, ledger[a].run>> \notin rows'
      <4>1. a \in Attempts /\ ledger[a].run \in Nat
        BY <1>0, TypesAre DEF Accounted
      <4>2. CASE ledger[a].run = 0  BY <1>0, <2>1, <4>1, <4>2 DEF LedgerFits
      <4>3. CASE ledger[a].run # 0
        <5>1. CASE a \in DOMAIN batch.done
          <6>1. batch.done[a].run = ledger[a].run  BY <1>0, <5>1 DEF DoneFits
          <6>2. <<a, ledger[a].run>> \in Owned(batch.done)  BY <4>3, <5>1, <6>1 DEF Owned
          <6> QED  BY <2>1, <6>2 DEF DeletedRuns
        <5>2. CASE a \notin DOMAIN batch.done
          <6>1. batch.resume /\ a \in batch.selected \ batch.plan  BY <3>2, <5>2 DEF Accounted
          <6>2. Settled(a)  BY <1>0, <1>1, <6>1 DEF ResumeFits, Taken
          <6>3. <<a, ledger[a].run>> \in batch.stale
            BY <4>3, <6>2 DEF Settled, SettledWith
          <6> QED  BY <2>1, <6>3 DEF DeletedRuns
        <5> QED  BY <5>1, <5>2
      <4> QED  BY <4>2, <4>3
    <3> QED  BY <1>1, <3>1, <3>2 DEF RowsGone
  <2>10. WrittenFits'  BY <2>5 DEF WrittenFits
  <2> QED  BY <1>1, <2>2, <2>3, <2>5, <2>7, <2>8, <2>9, <2>10, ClosingGoesOn
<1> QED  BY <1>2, <1>3

LEMMA SettlePlannedKeeps == ASSUME BatchInv, SettlePlanned PROVE BatchInv'
<1>0. /\ BatchFits /\ LedgerFits /\ HandFits /\ ReportsFit /\ RowsGone /\ DoneFits
      /\ batch.pc = "settling" /\ UNCHANGED <<checkpoint, rows, starts, givenBack>>
      /\ batch \in Batches /\ "publishing" \in Stages /\ 1 \in Nat \ {0}
  BY DEF BatchInv, SettlePlanned, BatchFits, Stages
<1>1. /\ batch' \in Batches /\ SamePlan /\ batch'.done = batch.done
      /\ batch'.resumed = batch.resumed /\ batch'.pc \in {"settling", "publishing"}
      /\ batch'.pc = "publishing" => batch'.at = 1 /\ Unsettled = {} /\ ledger' = ledger
  <2>1. CASE batch' = batch
    BY ONLY <1>0, <2>1 DEF SamePlan
  <2>2. CASE /\ Unsettled = {} /\ batch' = [batch EXCEPT !.pc = "publishing", !.at = 1]
             /\ ledger' = ledger
    BY ONLY <1>0, <2>2 DEF Batches, SamePlan
  <2> QED  BY <2>1, <2>2 DEF SettlePlanned
<1>2. ASSUME NEW a \in Attempts
      PROVE  /\ ledger'[a] \in LedgerEntries /\ ledger'[a].run = ledger[a].run
             /\ ledger[a].status = "not_started" =>
                   /\ ledger'[a].status = "not_started"
                   /\ ledger[a].ended => ledger'[a].ended
             /\ \/ ledger'[a] = ledger[a]
                \/ ~Terminal(ledger[a]) /\ ledger[a].status = "not_started"
  <2>1. ledger[a] \in LedgerEntries /\ ledger \in [Attempts -> LedgerEntries]
    BY <1>0, TypesAre DEF BatchFits, Ledgers
  <2>2. CASE ledger'[a] = ledger[a]  BY <2>1, <2>2
  <2>3. CASE a \in Unsettled /\ ledger'[a] = Finished(ledger[a], "not_started", 0)
    <3>1. ~Terminal(ledger[a]) /\ "not_started" \in TERMINAL_ATTEMPT_STATUSES
          /\ ledger[a].status = "not_started"
      BY <2>3 DEF Unsettled, Terminal, Ends, TERMINAL_ATTEMPT_STATUSES
    <3>2. /\ ledger'[a] \in LedgerEntries /\ ledger'[a].status = "not_started"
          /\ ledger'[a].run = 0 /\ ledger'[a].ended
      BY <2>1, <2>3, <3>1, FinishedDoes
    <3>3. ledger[a].run = 0  BY <1>0, <3>1 DEF LedgerFits
    <3> QED  BY <3>1, <3>2, <3>3
  <2>4. CASE \E b \in Unsettled :
               ledger' = [ledger EXCEPT ![b] = Finished(ledger[b], "not_started", 0)]
    <3>1. PICK b \in Unsettled :
            ledger' = [ledger EXCEPT ![b] = Finished(ledger[b], "not_started", 0)]
      BY <2>4
    <3> QED  BY <2>1, <2>2, <2>3, <3>1
  <2> QED  BY <2>2, <2>4 DEF SettlePlanned
<1>3. ledger' \in Ledgers
  <2>1. ASSUME NEW b \in Unsettled
        PROVE  [ledger EXCEPT ![b] = Finished(ledger[b], "not_started", 0)]
                  = [a \in Attempts |->
                        IF a = b THEN Finished(ledger[b], "not_started", 0) ELSE ledger[a]]
    BY <1>0 DEF BatchFits, Ledgers
  <2>2. ledger' = [a \in Attempts |-> ledger'[a]]
    BY <1>0, <2>1 DEF SettlePlanned, BatchFits, Ledgers
  <2> QED  BY <1>2, <2>2 DEF Ledgers
<1>4. Ending /\ NewRows  BY <1>0, <1>2 DEF Ending, NewRows, LedgerFits
<1>5. BatchFits'  BY <1>0, <1>1, <1>3 DEF BatchFits
<1>6. ReportsFit'
  <2>1. \A f \in {checkpoint, batch.done, batch.resumed} :
          f \in ReportsOf /\ AgreesWith(f, ledger, rows)
    BY <1>0, TypesAre DEF ReportsFit, BatchFits
  <2>2. Kept  BY <1>0, <1>4, EndingKeeps
  <2>3. \A f \in {checkpoint, batch.done, batch.resumed} : AgreesWith(f, ledger', rows')
    BY <1>0, <1>4, <2>1, <2>2, AgreesStays
  <2> QED  BY <1>0, <1>1, <2>3 DEF ReportsFit
<1>7. RowsGone'
  <2>1. Accounted' = Accounted  BY <1>1, SameFlags DEF Accounted, SamePlan
  <2>2. Accounted \subseteq Attempts  BY <1>0, TypesAre DEF Accounted
  <2> QED  BY <1>0, <1>1, <1>2, <2>1, <2>2, SameFlags DEF RowsGone
<1>8. WrittenFits'
  <2>1. \A a \in DOMAIN batch.done : a \in Nat /\ ~(a < 1)
    BY <1>0, TypesAre, SimulationAssumption DEF Attempts
  <2> QED  BY <1>1, <2>1 DEF WrittenFits
<1>9. ASSUME NEW a \in Attempts, ledger[a].status = "not_started"
      PROVE  /\ ledger'[a].status = "not_started"
             /\ batch'.pc \in {"publishing", "republishing", "published"} => ledger'[a].ended
  <2>1. ledger'[a].status = "not_started"  BY <1>2, <1>9
  <2>2. ASSUME batch'.pc = "publishing" PROVE ledger'[a].ended
    BY <1>1, <1>9, <2>2 DEF Unsettled
  <2> QED  BY <1>1, <2>1, <2>2
<1>10. /\ batch.pc \in {"closing", "settling", "publishing", "republishing"}
       /\ batch'.pc \in {"settling", "publishing", "republishing", "published"}
       /\ starts' = starts /\ givenBack' = givenBack
  BY <1>0, <1>1
<1> QED  BY <1>1, <1>4, <1>5, <1>6, <1>7, <1>8, <1>9, <1>10, ClosingGoesOn

\* One file of the evidence: what is written again says what the records say.
LEMMA RewrittenDoes ==
    ASSUME BatchFits, ReportsFit, NEW reports \in ReportsOf, AgreesWith(reports, ledger, rows),
           NEW from, NEW next \in Stages, Rewritten(reports, from, next),
           \A a \in DOMAIN reports : reports[a].status = ledger[a].status
    PROVE  /\ batch.pc = from /\ UNCHANGED <<ledger, rows, starts, givenBack>>
           /\ checkpoint' \in ReportsOf /\ AgreesWith(checkpoint', ledger, rows)
           /\ \A a \in Attempts : Backed(a) => Backed(a)'
           /\ batch' \in Batches /\ SamePlan
           /\ batch'.done = batch.done /\ batch'.resumed = batch.resumed
           /\ \/ /\ batch'.pc = next /\ batch'.at = 1
                 /\ \A a \in DOMAIN reports : a < batch.at
              \/ /\ batch'.pc = from
                 /\ \A a \in DOMAIN reports : a < batch'.at => a < batch.at \/ Backed(a)'
<1>0. /\ batch.pc = from /\ UNCHANGED <<ledger, rows, starts, givenBack>>
      /\ batch \in Batches /\ 1 \in Nat \ {0}
      /\ checkpoint \in ReportsOf /\ AgreesWith(checkpoint, ledger, rows)
      /\ batch.at \in Nat /\ \A a \in DOMAIN reports : a \in Attempts /\ a \in Nat
  BY TypesAre, ReportsAre, SimulationAssumption DEF Rewritten, BatchFits, ReportsFit, Attempts
<1>1. CASE /\ {a \in DOMAIN reports : batch.at <= a} = {}
           /\ batch' = [batch EXCEPT !.pc = next, !.at = 1] /\ checkpoint' = checkpoint
  <2>1. \A a \in DOMAIN reports : a < batch.at  BY <1>0, <1>1
  <2>2. /\ batch' \in Batches /\ SamePlan /\ batch'.done = batch.done
        /\ batch'.resumed = batch.resumed /\ batch'.pc = next /\ batch'.at = 1
    BY ONLY <1>0, <1>1, next \in Stages DEF Batches, SamePlan
  <2> QED  BY <1>0, <1>1, <2>1, <2>2 DEF Backed
<1>2. ASSUME NEW a \in DOMAIN reports, batch.at <= a,
             \A b \in {c \in DOMAIN reports : batch.at <= c} : a <= b,
             checkpoint' = With(checkpoint, a, reports[a]),
             batch' = [batch EXCEPT !.at = a + 1]
      PROVE  /\ checkpoint' \in ReportsOf /\ AgreesWith(checkpoint', ledger, rows)
             /\ \A b \in Attempts : Backed(b) => Backed(b)'
             /\ batch' \in Batches /\ SamePlan
             /\ batch'.done = batch.done /\ batch'.resumed = batch.resumed
             /\ batch'.pc = from
             /\ \A b \in DOMAIN reports : b < batch'.at => b < batch.at \/ Backed(b)'
  <2>1. a \in Attempts /\ a \in Nat /\ reports[a] \in Reports  BY <1>0, ReportsAre
  <2>2. /\ reports[a].status = ledger[a].status
        /\ reports[a].status = "completed" =>
              /\ ledger[a].status = "completed" /\ ledger[a].run = reports[a].run
              /\ reports[a].deleted /\ reports[a].run # 0 => <<a, reports[a].run>> \notin rows
    BY DEF AgreesWith
  <2>3. AgreesWith(With(checkpoint, a, reports[a]), ledger, rows)
    BY <1>0, <2>1, <2>2, AgreesWithOne
  <2>4. /\ With(checkpoint, a, reports[a]) \in ReportsOf
        /\ DOMAIN With(checkpoint, a, reports[a]) = DOMAIN checkpoint \cup {a}
        /\ With(checkpoint, a, reports[a])[a] = reports[a]
        /\ \A b \in DOMAIN checkpoint : b # a =>
              With(checkpoint, a, reports[a])[b] = checkpoint[b]
    BY <1>0, <2>1, WithDoes
  <2>5. Backed(a)'  BY <1>0, <1>2, <2>2, <2>4 DEF Backed
  <2>6. \A b \in Attempts : Backed(b) => Backed(b)'
    BY <1>0, <1>2, <2>4, <2>5 DEF Backed
  <2>7. /\ batch' \in Batches /\ SamePlan /\ batch'.done = batch.done /\ batch'.at = a + 1
        /\ batch'.resumed = batch.resumed /\ batch'.pc = batch.pc
    BY ONLY <1>0, <1>2, <2>1 DEF Batches, SamePlan
  <2>8. ASSUME NEW b \in DOMAIN reports, b < batch'.at, ~(b < batch.at) PROVE b = a
    BY <1>0, <1>2, <2>1, <2>7, <2>8
  <2> QED  BY <1>0, <1>2, <2>3, <2>4, <2>5, <2>6, <2>7, <2>8
<1>3. \/ /\ {a \in DOMAIN reports : batch.at <= a} = {}
         /\ batch' = [batch EXCEPT !.pc = next, !.at = 1] /\ checkpoint' = checkpoint
      \/ \E a \in DOMAIN reports :
            /\ batch.at <= a /\ \A b \in {c \in DOMAIN reports : batch.at <= c} : a <= b
            /\ checkpoint' = With(checkpoint, a, reports[a])
            /\ batch' = [batch EXCEPT !.at = a + 1]
  BY DEF Rewritten, First
<1> QED  BY <1>0, <1>1, <1>2, <1>3

LEMMA PublishEvidenceKeeps == ASSUME BatchInv, PublishEvidence PROVE BatchInv'
<1>0. /\ BatchFits /\ LedgerFits /\ HandFits /\ ReportsFit /\ DoneFits /\ ResumeFits /\ RowsGone
      /\ WrittenFits /\ batch.done \in ReportsOf /\ batch.resumed \in ReportsOf
      /\ AgreesWith(batch.done, ledger, rows) /\ AgreesWith(batch.resumed, ledger, rows)
      /\ DOMAIN batch.done \subseteq Attempts /\ DOMAIN batch.resumed \subseteq Attempts
      /\ {"publishing", "republishing", "published"} \subseteq Stages
  BY TypesAre DEF BatchInv, ReportsFit, Stages
<1>1. \A a \in DOMAIN batch.done : batch.done[a].status = ledger[a].status
  BY <1>0 DEF DoneFits
<1>2. \A a \in DOMAIN batch.resumed :
        /\ batch.resumed[a].status = "completed"
        /\ batch.resumed[a].status = ledger[a].status
  BY <1>0 DEF ResumeFits, AgreesWith
\* what both kinds of file keep
<1> DEFINE Keeps ==
      /\ UNCHANGED <<ledger, rows, starts, givenBack>>
      /\ checkpoint' \in ReportsOf /\ AgreesWith(checkpoint', ledger, rows)
      /\ batch' \in Batches /\ SamePlan
      /\ batch'.done = batch.done /\ batch'.resumed = batch.resumed
      /\ batch.pc \in {"publishing", "republishing"}
      /\ batch'.pc \in {"publishing", "republishing", "published"}
      /\ WrittenFits'
<1>3. ASSUME Rewritten(batch.done, "publishing", "republishing") PROVE Keeps
  <2>1. /\ batch.pc = "publishing" /\ UNCHANGED <<ledger, rows, starts, givenBack>>
        /\ checkpoint' \in ReportsOf /\ AgreesWith(checkpoint', ledger, rows)
        /\ \A a \in Attempts : Backed(a) => Backed(a)'
        /\ batch' \in Batches /\ SamePlan
        /\ batch'.done = batch.done /\ batch'.resumed = batch.resumed
        /\ \/ /\ batch'.pc = "republishing" /\ batch'.at = 1
              /\ \A a \in DOMAIN batch.done : a < batch.at
           \/ /\ batch'.pc = "publishing"
              /\ \A a \in DOMAIN batch.done : a < batch'.at => a < batch.at \/ Backed(a)'
    BY <1>0, <1>1, <1>3, RewrittenDoes
  <2>2. \A a \in DOMAIN batch.done : a < batch.at => Backed(a)'
    BY <1>0, <2>1 DEF WrittenFits
  <2>3. \A a \in DOMAIN batch.resumed : ~(a < 1)
    BY <1>0, SimulationAssumption DEF Attempts
  <2>4. WrittenFits'
    <3>1. CASE batch'.pc = "republishing" /\ batch'.at = 1
               /\ \A a \in DOMAIN batch.done : a < batch.at
      BY <2>1, <2>2, <2>3, <3>1 DEF WrittenFits
    <3>2. CASE /\ batch'.pc = "publishing"
               /\ \A a \in DOMAIN batch.done : a < batch'.at => a < batch.at \/ Backed(a)'
      BY <2>1, <2>2, <3>2 DEF WrittenFits
    <3> QED  BY <2>1, <3>1, <3>2
  <2> QED  BY <2>1, <2>4
<1>4. ASSUME Rewritten(batch.resumed, "republishing", "published") PROVE Keeps
  <2>1. /\ batch.pc = "republishing" /\ UNCHANGED <<ledger, rows, starts, givenBack>>
        /\ checkpoint' \in ReportsOf /\ AgreesWith(checkpoint', ledger, rows)
        /\ \A a \in Attempts : Backed(a) => Backed(a)'
        /\ batch' \in Batches /\ SamePlan
        /\ batch'.done = batch.done /\ batch'.resumed = batch.resumed
        /\ \/ /\ batch'.pc = "published" /\ batch'.at = 1
              /\ \A a \in DOMAIN batch.resumed : a < batch.at
           \/ /\ batch'.pc = "republishing"
              /\ \A a \in DOMAIN batch.resumed : a < batch'.at => a < batch.at \/ Backed(a)'
    BY <1>0, <1>2, <1>4, RewrittenDoes
  <2>2. /\ \A a \in DOMAIN batch.done : Backed(a)'
        /\ \A a \in DOMAIN batch.resumed : a < batch.at => Backed(a)'
    BY <1>0, <2>1 DEF WrittenFits
  <2>3. ASSUME batch'.pc = "published", \A a \in DOMAIN batch.resumed : a < batch.at
        PROVE  RecordsAccounted'
    <3>1. \A a \in DOMAIN batch.done \cup DOMAIN batch.resumed : Backed(a)'  BY <2>2, <2>3
    <3>3. SUFFICES ASSUME NEW a \in IF batch.resume THEN batch.selected ELSE DOMAIN batch.done
                   PROVE  /\ Terminal(ledger[a])
                          /\ ledger[a].status = "completed" =>
                                a \in DOMAIN checkpoint' /\ checkpoint'[a].run = ledger[a].run
                                                  /\ checkpoint'[a].status = "completed"
                          /\ batch.configured => <<a, ledger[a].run>> \notin rows
      BY <2>1, SameFlags DEF RecordsAccounted, SamePlan
    <3>4. a \in Attempts  BY <1>0, <3>3, TypesAre
    <3>5. ASSUME a \in DOMAIN batch.done \cup DOMAIN batch.resumed,
                 ledger[a].status = "completed"
          PROVE  a \in DOMAIN checkpoint' /\ checkpoint'[a].run = ledger[a].run
                                          /\ checkpoint'[a].status = "completed"
      BY <2>1, <3>1, <3>5 DEF Backed, AgreesWith
    <3>6. CASE a \in DOMAIN batch.done
      BY <1>0, <2>1, <3>5, <3>6 DEF DoneFits, RowsGone, Accounted
    <3>7. CASE a \in batch.selected \ batch.plan /\ batch.resume
      <4>1. Settled(a)  BY <1>0, <2>1, <3>7 DEF ResumeFits, Taken
      <4>2. batch.configured => <<a, ledger[a].run>> \notin rows
        BY <1>0, <2>1, <3>7 DEF RowsGone, Accounted
      <4> QED  BY <3>5, <4>1, <4>2 DEF Settled, SettledWith
    <3>8. CASE a \in batch.plan \ DOMAIN batch.done /\ batch.resume
      <4>1. ledger[a].status = "not_started" /\ ledger[a].ended
        BY <1>0, <2>1, <3>8 DEF ResumeFits, InHand
      <4>2. ledger[a].run = 0 /\ <<a, 0>> \notin rows  BY <1>0, <3>4, <4>1 DEF LedgerFits
      <4> QED  BY <4>1, <4>2 DEF Terminal
    <3> QED  BY <3>3, <3>6, <3>7, <3>8
  <2>4. ASSUME batch'.pc = "republishing",
               \A a \in DOMAIN batch.resumed : a < batch'.at => a < batch.at \/ Backed(a)'
        PROVE  WrittenFits'
    BY <2>1, <2>2, <2>4 DEF WrittenFits
  <2>5. WrittenFits'  BY <2>1, <2>3, <2>4 DEF WrittenFits
  <2> QED  BY <2>1, <2>5
<1>5. Keeps  BY <1>3, <1>4 DEF PublishEvidence
<1>6. BatchFits' /\ Ending /\ NewRows  BY <1>0, <1>5 DEF BatchFits, Ending, NewRows
<1>7. ReportsFit'  BY <1>0, <1>5 DEF ReportsFit
<1>8. RowsGone'
  <2>1. Accounted' = Accounted  BY <1>5, SameFlags DEF Accounted, SamePlan
  <2> QED  BY <1>0, <1>5, <2>1, SameFlags DEF RowsGone
<1>9. ResumeFits' /\ DoneFits'
  BY <1>0, <1>5, SameFlags
     DEF ResumeFits, DoneFits, Taken, Settled, SettledWith, SamePlan, InHand
<1>10. LedgerFits' /\ HandFits' /\ EndedFits'
  BY <1>0, <1>5, <1>6, EndingKeeps DEF HandFits, EndedFits, InHand
<1> QED  BY <1>5, <1>6, <1>7, <1>8, <1>9, <1>10 DEF BatchInv

-----------------------------------------------------------------------------
(* The theorems *)

LEMMA BatchInitInv == SimInit => BatchInv
<1> SUFFICES ASSUME SimInit PROVE BatchInv  OBVIOUS
<1> DEFINE entry == [status |-> "not_started", ended |-> FALSE, run |-> 0]
<1>1. entry \in LedgerEntries
  BY DEF LedgerEntries, Statuses, TERMINAL_ATTEMPT_STATUSES
<1>2. entry.status = "not_started" /\ entry.run = 0  OBVIOUS
<1> HIDE DEF entry
<1>3. ledger = [a \in Attempts |-> entry]  BY DEF SimInit, entry
<1>4. /\ checkpoint = NoReports /\ rows = {} /\ givenBack = {} /\ starts = [a \in Attempts |-> 0]
      /\ batch = Off(0)
  BY DEF SimInit
<1>5. /\ batch \in Batches /\ batch.pc = "off" /\ batch.done = NoReports
      /\ batch.resumed = NoReports /\ batch.plan = {} /\ batch.selected = {}
  BY <1>4, OffDoes
<1>6. BatchFits  BY <1>1, <1>3, <1>4, <1>5, NoReportsDoes DEF BatchFits, Ledgers
<1>7. LedgerFits  BY <1>2, <1>3, <1>4 DEF LedgerFits
<1>8. HandFits /\ EndedFits /\ RowsGone /\ WrittenFits
  BY <1>5 DEF HandFits, EndedFits, RowsGone, InHand, WrittenFits
<1>9. ReportsFit  BY <1>4, <1>5, AgreesNone DEF ReportsFit
<1>10. DoneFits  BY <1>5, NoReportsDoes DEF DoneFits
<1>11. ResumeFits  BY <1>5, NoReportsDoes DEF ResumeFits
<1> QED  BY <1>5, <1>6, <1>7, <1>8, <1>9, <1>10, <1>11 DEF BatchInv

LEMMA BatchStep == BatchInv /\ [SimNext]_simVars => BatchInv'
<1> SUFFICES ASSUME BatchInv, [SimNext]_simVars PROVE BatchInv'  OBVIOUS
<1>1. ASSUME SimNext PROVE BatchInv'
  BY <1>1, LaunchKeeps, UnconfiguredKeeps, ResumeNextKeeps, LoopSkipsKeeps, RejectedKeeps,
     StartKeeps, CreationFailsKeeps, RunCreatedKeeps, AttachRunKeeps, PlayEndsKeeps,
     AttemptReportedKeeps, DeleteRunsKeeps, SettlePlannedKeeps, PublishEvidenceKeeps,
     KilledKeeps, InterruptedKeeps DEF SimNext
<1>2. CASE UNCHANGED simVars
  BY <1>2 DEF simVars, BatchInv, BatchFits, LedgerFits, HandFits, ReportsFit, DoneFits, EndedFits,
     ResumeFits, RowsGone, WrittenFits, Backed, RecordsAccounted, AgreesWith,
     Accounted, Taken, Settled, SettledWith
<1> QED  BY <1>1, <1>2

\* The inductive invariant: over every kill, interrupt, resume and invocation, the records,
\* the reports, the rows and what the running invocation holds fit each other.
THEOREM BatchInvariant == SimSpec => []BatchInv
BY BatchInitInv, BatchStep, PTL DEF SimSpec

\* The types of the batch: a record names no run its attempt did not start, and the reports
\* are reports of planned attempts.
THEOREM SimTypeCorrect == SimSpec => []SimTypeOK
<1>1. BatchInv => SimTypeOK
  <2> SUFFICES ASSUME BatchInv PROVE SimTypeOK  OBVIOUS
  <2>1. BatchFits /\ LedgerFits  BY DEF BatchInv
  <2>2. \A a \in Attempts : /\ ledger[a].status \in Ends \cup {"not_started", "started"}
                            /\ ledger[a].run \in 0 .. starts[a]
    BY <2>1, TypesAre DEF LedgerFits, Statuses, TERMINAL_ATTEMPT_STATUSES
  <2>3. \A f \in {checkpoint, batch.done, batch.resumed} :
          DOMAIN f \subseteq Attempts /\ \A a \in DOMAIN f : f[a] \in Reports
    BY <2>1, TypesAre, ReportsAre DEF BatchFits
  <2> QED  BY <2>1, <2>2, <2>3, TypesAre DEF SimTypeOK, BatchFits
<1> QED  BY <1>1, BatchInvariant, PTL

\* A seed is run once ("terminalize a stale started attempt without rerunning its seed"),
\* however often the batch is killed, interrupted, launched and resumed, for any number of
\* attempts and launches: an attempt started twice was given back by an invocation that
\* had no models.
THEOREM SeedsRunOnce == SimSpec => []SeedRunOnce
<1>1. BatchInv => SeedRunOnce
  <2> SUFFICES ASSUME BatchInv, NEW a \in Attempts, a \notin givenBack PROVE ~(starts[a] > 1)
    BY DEF SeedRunOnce
  <2>1. starts[a] \in Nat /\ starts[a] <= 1  BY TypesAre DEF BatchInv, LedgerFits
  <2> QED  BY <2>1
<1> QED  BY <1>1, BatchInvariant, PTL

\* A published batch accounts for its attempts: each has a terminal record, a completed one
\* its report under the same run, and no row of theirs is left; and an attempt the evidence
\* counts as a pass was started once, and the database keeps no run of it.
THEOREM BatchesAccount == SimSpec => []BatchAccounts
<1>1. BatchInv => BatchAccounts
  <2> SUFFICES ASSUME BatchInv, batch.pc = "published",
                      NEW a \in Attempts \ givenBack, GameplayPass(a)
               PROVE  starts[a] = 1 /\ \A n \in 1 .. MaxLaunches : <<a, n>> \notin rows
    BY DEF BatchAccounts, EvidenceIsClean, BatchInv, WrittenFits
  <2>1. /\ BatchFits /\ LedgerFits /\ batch.done \in ReportsOf /\ batch.resumed \in ReportsOf
        /\ AgreesWith(batch.done, ledger, rows) /\ AgreesWith(batch.resumed, ledger, rows)
    BY TypesAre DEF BatchInv, ReportsFit
  <2>2. AgreesWith(Published, ledger, rows)
    BY ONLY <2>1, AgreesWithBoth DEF Published
  <2>3. /\ a \in DOMAIN Published /\ Published[a].status = "completed"
        /\ Published[a].deleted /\ Published[a].run # 0
    BY DEF GameplayPass, TechnicallySound
  <2>4. ledger[a].run # 0 /\ <<a, ledger[a].run>> \notin rows
    BY <2>2, <2>3 DEF AgreesWith
  <2>5. starts[a] = 1 /\ ledger[a].run = 1
    <3>1. ledger[a].run \in Nat /\ starts[a] \in Nat  BY <2>1, TypesAre
    <3>2. ledger[a].run <= starts[a] /\ starts[a] <= 1  BY <2>1 DEF LedgerFits
    <3> QED  BY <2>4, <3>1, <3>2
  <2>6. ASSUME NEW n \in 1 .. MaxLaunches, <<a, n>> \in rows PROVE FALSE
    <3>1. n \in Nat /\ n # 0 /\ n <= 1
      BY <2>1, <2>5, <2>6, SimulationAssumption DEF LedgerFits
    <3> QED  BY <2>4, <2>5, <2>6, <3>1
  <2> QED  BY <2>5, <2>6
<1> QED  BY <1>1, BatchInvariant, PTL

-----------------------------------------------------------------------------
(* The evaluation of the agents *)

Modes == {"dry-run", "offline", "live"}
CaseStages == {"retrieval", "candidate", "judge", "embedding", "close"}
EvalStages == {"off", "case", "ending", "ended"} \cup CaseStages
Purposes == {"none", "evaluation", "resume", "profile", "qualified", "merged", "written"}
Stops == {"none", "judge_calls", "timeout", "cost_cny"}
Verdicts == [Items -> {"none", "scored", "unscored"}]
Reasons == {"required", "embedding_failed", "judge_failed", "judge_schema_failure",
            "rule_hard_failure"}

Observations == [error : BOOLEAN, judged : Seq(JudgeScores)]
CaseResults == [status : {"skipped", "completed", "partial"},
                observations : Seq(Observations), reasons : SUBSET Reasons]
Evaluations ==
    [stage : EvalStages, cases : Seq(Cases), results : Seq(CaseResults), ordinal : Nat,
     skip : BOOLEAN, observations : Seq(Observations), reasons : SUBSET Reasons,
     position : Nat \ {0}, attempt : Nat]
Executions ==
    [mode : Modes, budget : Budgets, calls : [Kinds -> Nat], cost : Nat, maxCost : Nat,
     completed : Nat, complete : BOOLEAN, exhausted : BOOLEAN, timedOut : BOOLEAN,
     errors : SUBSET {"evaluation", "judge_calibration"}, resumed : BOOLEAN]
Calibrations ==
    [purpose : Purposes, todo : SUBSET Items, verdict : Verdicts, calls : Nat, cost : Nat,
     existing : Nat, maxCalls : Nat, maxCost : Nat, stop : Stops, complete : BOOLEAN,
     judged : Seq(JudgeScores)]
ReportFiles == [execution : Executions, results : Seq(CaseResults), cases : Seq(Cases),
                skip : BOOLEAN, verdict : Verdicts]
CalibrationFiles == [verdict : Verdicts, calls : Nat, cost : Nat]
CompletionFiles == [verdict : Verdicts, completed : BOOLEAN]
Artifacts == [report : Seq(ReportFiles), calibration : Seq(CalibrationFiles),
              completion : Seq(CompletionFiles)]

\* The results are of cases selected, one each; one more is on its way.
EvaluationFits(e) ==
    /\ e \in Evaluations /\ Len(e.results) <= Len(e.cases)
    /\ e.stage \in CaseStages => Len(e.results) < Len(e.cases)

\* What was spent: a limit is passed by the repeated requests of one answer at most.  The
\* limits of calls are those of the evaluation itself; a resume has a limit of cost only.
ExecutionFits(x) ==
    /\ x \in Executions /\ x.cost <= x.maxCost + Overrun
    /\ x.resumed = FALSE =>
           /\ x.maxCost = x.budget.cost
           /\ \A kind \in Kinds : x.calls[kind] <= x.budget[kind] + Overrun

\* What the calibration spends counts with what the evaluation it belongs to has spent.
CalibrationFits ==
    /\ calibration \in Calibrations
    /\ calibration.purpose = "evaluation" =>
           /\ evaluation.stage = "ended"
           /\ calibration.existing = execution.cost /\ calibration.maxCost = execution.budget.cost
           /\ calibration.maxCalls = LeftOf(execution.budget.judge, execution.calls.judge)
           /\ calibration.calls + execution.calls.judge <= execution.budget.judge + Overrun
           /\ calibration.cost + execution.cost <= execution.maxCost + Overrun
    /\ calibration.purpose = "resume" =>
           /\ calibration.existing = 0 /\ calibration.maxCost = ResumeCap
           /\ calibration.cost <= ResumeCap + Overrun

ArtifactsFit ==
    /\ artifacts \in Artifacts
    /\ Len(artifacts.report) <= 1 /\ Len(artifacts.calibration) <= 1
    /\ Len(artifacts.completion) <= 1
    /\ artifacts.report # << >> =>
           Len(Baseline.results) <= Len(Baseline.cases)

EvalInv ==
    /\ EvaluationFits(evaluation) /\ ExecutionFits(execution) /\ CalibrationFits /\ ArtifactsFit
    /\ scripts \in [resumes : Nat, kills : Nat]
    /\ evaluation.stage # "off" => execution.resumed = FALSE
    /\ calibration.purpose = "resume" => artifacts.report # << >> /\ artifacts.calibration # << >>

-----------------------------------------------------------------------------
(* Limits and counters *)

LEMMA RequestsAre ==
    /\ MaxRequests \in Nat \ {0} /\ Overrun \in Nat /\ Overrun = MaxRequests - 1
    /\ ResumeCap \in Nat
BY EvaluationAssumption DEF MaxRequests, Overrun

LEMMA LimitsAre ==
    ASSUME NEW b \in Budgets
    PROVE  /\ b.cost \in Nat /\ b.judge \in Nat /\ b.judge = b["judge"]
           /\ \A kind \in Kinds : b[kind] \in Nat
BY EvaluationAssumption DEF EvaluationBudgets, Kinds

LEMMA CountersAre ==
    ASSUME NEW x \in Executions
    PROVE  /\ x.budget \in Budgets /\ x.cost \in Nat /\ x.maxCost \in Nat
           /\ x.calls \in [Kinds -> Nat] /\ \A kind \in Kinds : x.calls[kind] \in Nat
           /\ x.calls.judge \in Nat /\ x.calls.judge = x.calls["judge"]
           /\ x.budget.cost \in Nat /\ x.budget.judge \in Nat
           /\ x.budget.judge = x.budget["judge"]
           /\ \A kind \in Kinds : x.budget[kind] \in Nat
<1>1. x.budget \in Budgets /\ x.calls \in [Kinds -> Nat] /\ x.cost \in Nat /\ x.maxCost \in Nat
  BY DEF Executions
<1>2. "judge" \in Kinds  BY DEF Kinds
<1> QED  BY <1>1, <1>2, LimitsAre

\* A flag raised in an execution: what was spent stays.
LEMMA FlagsKeep ==
    ASSUME NEW x, NEW y, ExecutionFits(x), y \in Executions,
           y.calls = x.calls, y.cost = x.cost, y.maxCost = x.maxCost, y.budget = x.budget,
           y.resumed = x.resumed
    PROVE  ExecutionFits(y)
BY DEF ExecutionFits

\* One call of a model, whatever becomes of it.
LEMMA FailedDoes ==
    ASSUME NEW x \in Executions
    PROVE  /\ Failed(x) \in Executions /\ Failed(x).calls = x.calls /\ Failed(x).cost = x.cost
           /\ Failed(x).maxCost = x.maxCost /\ Failed(x).budget = x.budget
           /\ Failed(x).resumed = x.resumed
BY DEF Failed, Executions

LEMMA SentDoes ==
    ASSUME NEW x, ExecutionFits(x), x.resumed = FALSE, NEW kind \in Kinds, ~Exceeded(x, kind)
    PROVE  LET sent == [x EXCEPT !.calls[kind] = @ + 1]
           IN  ExecutionFits(sent) /\ sent.resumed = FALSE
<1> DEFINE calls == [x.calls EXCEPT ![kind] = x.calls[kind] + 1]
           y == [x EXCEPT !.calls = calls]
<1>1. x \in Executions  BY DEF ExecutionFits
<1>2. calls \in [Kinds -> Nat] /\ calls[kind] = x.calls[kind] + 1
      /\ \A k \in Kinds : k # kind => calls[k] = x.calls[k]
  BY <1>1, CountersAre
<1>3. [x EXCEPT !.calls[kind] = @ + 1] = y  BY <1>1
<1> HIDE DEF calls
<1>4. /\ y \in Executions /\ y.calls = calls /\ y.cost = x.cost /\ y.maxCost = x.maxCost
      /\ y.budget = x.budget /\ y.resumed = x.resumed
  BY ONLY <1>1, <1>2 DEF Executions
<1> HIDE DEF y
<1>5. \A k \in Kinds : calls[k] <= x.budget[k] + Overrun
  BY <1>1, <1>2, CountersAre, RequestsAre DEF ExecutionFits, Exceeded
<1>6. ExecutionFits(y)  BY <1>4, <1>5 DEF ExecutionFits
<1> QED  BY <1>3, <1>4, <1>6

LEMMA ChargedDoes ==
    ASSUME NEW x, ExecutionFits(x), x.resumed = FALSE, NEW kind \in Kinds, ~Exceeded(x, kind),
           NEW n \in 1 .. MaxRequests, kind = "embedding" => n = 1
    PROVE  ExecutionFits(Charged(x, kind, n)) /\ Charged(x, kind, n).resumed = FALSE
<1> DEFINE calls == [x.calls EXCEPT ![kind] = x.calls[kind] + n]
           cost == IF x.mode = "offline" THEN x.cost ELSE x.cost + n * ReservedCost[kind]
           over == x.exhausted \/ x.calls[kind] + n > x.budget[kind] \/ cost >= x.budget.cost
           y == [x EXCEPT !.calls = calls, !.cost = cost, !.exhausted = over]
<1>1. x \in Executions  BY DEF ExecutionFits
<1>2. /\ calls \in [Kinds -> Nat] /\ calls[kind] = x.calls[kind] + n
      /\ \A k \in Kinds : k # kind => calls[k] = x.calls[k]
  BY <1>1, CountersAre, RequestsAre
<1>3. ReservedCost[kind] = 0 \/ ReservedCost[kind] = 1  BY DEF ReservedCost, Kinds
<1>4. cost \in Nat /\ cost <= x.maxCost + Overrun
  <2>1. x.cost \in Nat /\ x.maxCost \in Nat /\ x.maxCost = x.budget.cost /\ n \in Nat
        /\ x.cost <= x.maxCost + Overrun /\ n <= MaxRequests
    BY <1>1, CountersAre, RequestsAre DEF ExecutionFits
  <2>2. CASE ReservedCost[kind] = 0 \/ x.mode = "offline"  BY <2>1, <2>2
  <2>3. CASE ReservedCost[kind] = 1 /\ x.mode # "offline"
    <3>1. x.cost + 1 <= x.maxCost /\ cost = x.cost + n
      BY <2>1, <2>3, CountersAre DEF Exceeded
    <3> QED  BY <2>1, <3>1, RequestsAre
  <2> QED  BY <1>3, <2>2, <2>3
<1>5. Charged(x, kind, n) = y  BY <1>1 DEF Charged
<1>6. over \in BOOLEAN  OBVIOUS
<1> HIDE DEF calls, cost, over
<1>7. /\ y \in Executions /\ y.calls = calls /\ y.cost = cost /\ y.maxCost = x.maxCost
      /\ y.budget = x.budget /\ y.resumed = x.resumed
  BY ONLY <1>1, <1>2, <1>4, <1>6 DEF Executions
<1> HIDE DEF y
<1>8. \A k \in Kinds : calls[k] <= x.budget[k] + Overrun
  <2>1. x.calls[kind] < x.budget[kind] /\ n \in Nat /\ n <= MaxRequests
    BY <1>1, CountersAre, RequestsAre DEF Exceeded
  <2> QED  BY <1>1, <1>2, <2>1, CountersAre, RequestsAre DEF ExecutionFits
<1>9. ExecutionFits(y)  BY <1>4, <1>7, <1>8 DEF ExecutionFits
<1> QED  BY <1>5, <1>7, <1>9

LEMMA CallKeeps ==
    ASSUME NEW x, ExecutionFits(x), x.resumed = FALSE, NEW kind \in Kinds,
           NEW call \in CallOutcomes(x, kind)
    PROVE  ExecutionFits(call.after) /\ call.after.resumed = FALSE
<1>1. x \in Executions  BY DEF ExecutionFits
<1>2. CASE Exceeded(x, kind)
  <2>1. call.after = [x EXCEPT !.complete = FALSE, !.exhausted = TRUE]
    BY <1>2 DEF CallOutcomes
  <2>2. /\ call.after \in Executions /\ call.after.calls = x.calls /\ call.after.cost = x.cost
        /\ call.after.maxCost = x.maxCost /\ call.after.budget = x.budget
        /\ call.after.resumed = x.resumed
    BY <1>1, <2>1 DEF Executions
  <2> QED  BY <2>2, FlagsKeep
<1>3. CASE ~Exceeded(x, kind)
  <2> DEFINE sent == [x EXCEPT !.calls[kind] = @ + 1]
  <2>1. ExecutionFits(sent) /\ sent.resumed = FALSE  BY <1>3, SentDoes
  <2>2. \/ \E n \in Requests(x.mode, kind) : call.after = Charged(x, kind, n)
        \/ \E s \in {x, sent} : call.after = [Failed(s) EXCEPT !.timedOut = TRUE]
        \/ call.after = Failed(sent)
    <3> DEFINE answered == {[how |-> "answered", after |-> Charged(x, kind, n)] :
                               n \in Requests(x.mode, kind)}
               late == {[how |-> "late", after |-> [Failed(s) EXCEPT !.timedOut = TRUE]] :
                           s \in IF x.mode = "offline" THEN {x} ELSE {x, sent}}
               failed == IF x.mode = "offline" THEN {}
                         ELSE {[how |-> "failed", after |-> Failed(sent)]}
    <3>1. call \in answered \cup late \cup failed  BY <1>3 DEF CallOutcomes
    <3> HIDE DEF sent
    <3>2. CASE call \in answered  BY <3>2
    <3>3. CASE call \in late
      <4>1. PICK s \in IF x.mode = "offline" THEN {x} ELSE {x, sent} :
              call = [how |-> "late", after |-> [Failed(s) EXCEPT !.timedOut = TRUE]]
        BY <3>3, Zenon
      <4>2. s \in {x, sent}  OBVIOUS
      <4>3. call.after = [Failed(s) EXCEPT !.timedOut = TRUE]
        <5> DEFINE r == [Failed(s) EXCEPT !.timedOut = TRUE]
        <5>1. call = [how |-> "late", after |-> r]  BY <4>1
        <5> HIDE DEF r
        <5>2. call.after = r  BY <5>1
        <5> QED  BY <5>2 DEF r
      <4> QED  BY <4>2, <4>3, Zenon
    <3>4. CASE call \in failed  BY <3>4
    <3> QED  BY <3>1, <3>2, <3>3, <3>4
  <2> HIDE DEF sent
  <2>3. ASSUME NEW n \in Requests(x.mode, kind), call.after = Charged(x, kind, n)
        PROVE  ExecutionFits(call.after) /\ call.after.resumed = FALSE
    <3>1. n \in 1 .. MaxRequests /\ (kind = "embedding" => n = 1)
      BY RequestsAre DEF Requests
    <3> QED  BY <1>3, <2>3, <3>1, ChargedDoes
  <2>4. ASSUME NEW s \in {x, sent}
        PROVE  /\ ExecutionFits(Failed(s)) /\ Failed(s).resumed = FALSE
               /\ Failed(s) \in Executions
    <3>1. s \in Executions /\ ExecutionFits(s) /\ s.resumed = FALSE
      BY <1>1, <2>1 DEF ExecutionFits
    <3> QED  BY <3>1, FailedDoes, FlagsKeep
  <2>5. ASSUME NEW s \in {x, sent}, call.after = [Failed(s) EXCEPT !.timedOut = TRUE]
        PROVE  ExecutionFits(call.after) /\ call.after.resumed = FALSE
    <3> DEFINE f == Failed(s)
    <3>1. f \in Executions /\ call.after = [f EXCEPT !.timedOut = TRUE]  BY <2>4, <2>5
    <3> HIDE DEF f
    <3>2. /\ call.after \in Executions /\ call.after.calls = f.calls /\ call.after.cost = f.cost
          /\ call.after.maxCost = f.maxCost /\ call.after.budget = f.budget
          /\ call.after.resumed = f.resumed
      BY <3>1 DEF Executions
    <3>3. ExecutionFits(f) /\ f.resumed = FALSE  BY <2>4 DEF f
    <3> QED  BY <3>2, <3>3, FlagsKeep
  <2> QED  BY <2>2, <2>3, <2>4, <2>5
<1> QED  BY <1>2, <1>3

-----------------------------------------------------------------------------
(* One evaluation, case after case *)

\* The case goes on: its result and the cases are not touched.
InTheCase(e) ==
    /\ e \in Evaluations /\ e.results = evaluation.results /\ e.cases = evaluation.cases
    /\ e.stage \in CaseStages

LEMMA CaseGoesOn ==
    ASSUME EvalInv, evaluation.stage \in CaseStages, InTheCase(evaluation'),
           ExecutionFits(execution'), execution'.resumed = FALSE,
           UNCHANGED <<calibration, artifacts, scripts>>
    PROVE  EvalInv'
<1>1. EvaluationFits(evaluation')  BY DEF InTheCase, EvalInv, EvaluationFits
<1>2. CalibrationFits'  BY DEF EvalInv, CalibrationFits, CaseStages
<1>3. ArtifactsFit'  BY DEF EvalInv, ArtifactsFit, Baseline
<1> QED  BY <1>1, <1>2, <1>3 DEF EvalInv

\* What the case has of the invariant
LEMMA InCaseIs ==
    ASSUME EvalInv, evaluation.stage # "off"
    PROVE  /\ evaluation \in Evaluations /\ ExecutionFits(execution)
           /\ execution \in Executions /\ execution.resumed = FALSE
           /\ evaluation.stage \in CaseStages => InTheCase(evaluation)
BY DEF EvalInv, EvaluationFits, ExecutionFits, InTheCase

LEMMA ToDoes ==
    ASSUME evaluation \in Evaluations, NEW stage \in CaseStages
    PROVE  InTheCase(To(stage))
BY DEF To, InTheCase, Evaluations, EvalStages

LEMMA ReasonDoes ==
    ASSUME NEW e, InTheCase(e), NEW reason \in Reasons
    PROVE  InTheCase([e EXCEPT !.reasons = @ \cup {reason}])
BY DEF InTheCase, Evaluations

LEMMA ObservedDoes ==
    ASSUME NEW e, InTheCase(e), NEW error \in BOOLEAN
    PROVE  InTheCase(Observed(e, error))
<1> DEFINE o == [error |-> error, judged |-> << >>]
<1>1. o \in Observations  BY DEF Observations
<1>2. e \in Evaluations  BY DEF InTheCase
<1>3. Append(e.observations, o) \in Seq(Observations) /\ e.ordinal + 1 \in Nat
  BY <1>1, <1>2 DEF Evaluations
<1>4. Observed(e, error) = [e EXCEPT !.observations = Append(e.observations, o),
                                     !.ordinal = e.ordinal + 1]
  BY DEF Observed
<1> HIDE DEF o
<1> QED  BY <1>2, <1>3, <1>4 DEF InTheCase, Evaluations

LEMMA ScoredDoes ==
    ASSUME NEW e, InTheCase(e), NEW verdict \in JudgeScores, e.position <= Len(e.observations)
    PROVE  InTheCase(Scored(e, verdict))
<1> DEFINE o == e.observations[e.position]
           q == [o EXCEPT !.judged = Append(o.judged, verdict)]
           s == [e.observations EXCEPT ![e.position] = q]
<1>1. /\ e \in Evaluations /\ e.position \in 1 .. Len(e.observations) /\ e.attempt + 1 \in Nat
      /\ e.observations \in Seq(Observations)
  BY DEF InTheCase, Evaluations
<1>2. o \in Observations  BY <1>1
<1>3. Append(o.judged, verdict) \in Seq(JudgeScores)  BY <1>2 DEF Observations
<1>4. q \in Observations  BY <1>2, <1>3 DEF Observations
<1>5. Scored(e, verdict) = [e EXCEPT !.observations = s, !.attempt = e.attempt + 1]
  BY DEF Scored
<1> HIDE DEF q
<1>6. s \in Seq(Observations)  BY <1>1, <1>4
<1> HIDE DEF s
<1> QED  BY <1>1, <1>5, <1>6 DEF InTheCase, Evaluations

LEMMA NextPositionDoes ==
    ASSUME NEW e, InTheCase(e), NEW x
    PROVE  InTheCase(NextPosition(e, x))
<1>1. e \in Evaluations /\ e.position + 1 \in Nat \ {0}  BY DEF InTheCase, Evaluations
<1>2. InTheCase([e EXCEPT !.stage = "embedding"])
  BY <1>1 DEF InTheCase, Evaluations, EvalStages, CaseStages
<1>3. InTheCase([e EXCEPT !.position = @ + 1, !.attempt = 0])
  BY <1>1 DEF InTheCase, Evaluations
<1> QED  BY <1>2, <1>3 DEF NextPosition

LEMMA CompleteKeeps ==
    ASSUME NEW x, ExecutionFits(x), x.resumed = FALSE, NEW b \in BOOLEAN
    PROVE  /\ ExecutionFits([x EXCEPT !.complete = b])
           /\ [x EXCEPT !.complete = b].resumed = FALSE
<1> DEFINE y == [x EXCEPT !.complete = b]
<1>1. x \in Executions  BY DEF ExecutionFits
<1>2. /\ y \in Executions /\ y.calls = x.calls /\ y.cost = x.cost /\ y.maxCost = x.maxCost
      /\ y.budget = x.budget /\ y.resumed = x.resumed
  BY <1>1 DEF Executions
<1> HIDE DEF y
<1>3. ExecutionFits(y) /\ y.resumed = FALSE  BY <1>2, FlagsKeep
<1> QED  BY <1>3 DEF y

LEMMA NewExecutionFits ==
    ASSUME NEW mode \in Modes, NEW budget \in Budgets
    PROVE  /\ ExecutionFits(NewExecution(mode, budget))
           /\ NewExecution(mode, budget).resumed = FALSE
<1> DEFINE x == NewExecution(mode, budget)
           none == [kind \in Kinds |-> 0]
<1>1. none \in [Kinds -> Nat] /\ \A kind \in Kinds : none[kind] = 0  OBVIOUS
<1>2. x = [mode |-> mode, budget |-> budget, calls |-> none, cost |-> 0,
           maxCost |-> budget.cost, completed |-> 0, complete |-> TRUE, exhausted |-> FALSE,
           timedOut |-> FALSE, errors |-> {}, resumed |-> FALSE]
  BY DEF NewExecution
<1> HIDE DEF x, none
<1>3. budget.cost \in Nat /\ \A kind \in Kinds : budget[kind] \in Nat  BY LimitsAre
<1>4. /\ x \in Executions /\ x.calls = none /\ x.cost = 0 /\ x.maxCost = budget.cost
      /\ x.budget = budget /\ x.resumed = FALSE
  BY <1>1, <1>2, <1>3 DEF Executions
<1>5. ExecutionFits(x)  BY <1>1, <1>3, <1>4, RequestsAre DEF ExecutionFits
<1> QED  BY <1>4, <1>5 DEF x

LEMMA NothingFits ==
    /\ NoEvaluation \in Evaluations /\ NoEvaluation.stage = "off"
    /\ NoEvaluation.results = << >> /\ EvaluationFits(NoEvaluation)
    /\ NoCalibration \in Calibrations /\ NoCalibration.purpose = "none"
<1>1. /\ NoEvaluation \in Evaluations /\ NoEvaluation.stage = "off"
      /\ NoEvaluation.results = << >> /\ NoEvaluation.cases = << >>
  BY DEF NoEvaluation, Evaluations, EvalStages
<1>2. EvaluationFits(NoEvaluation)  BY <1>1 DEF EvaluationFits, CaseStages
<1>3. [i \in Items |-> "none"] \in Verdicts  BY DEF Verdicts
<1>4. NoCalibration \in Calibrations /\ NoCalibration.purpose = "none"
  BY <1>3 DEF NoCalibration, Calibrations, Purposes, Stops
<1> QED  BY <1>1, <1>2, <1>4

LEMMA StartEvaluationKeeps == ASSUME EvalInv, StartEvaluation PROVE EvalInv'
<1>1. PICK mode \in Modes, cases \in CaseFiles, budget \in Budgets, skip \in BOOLEAN :
        /\ execution' = NewExecution(mode, budget)
        /\ evaluation' = [NoEvaluation EXCEPT
               !.stage = IF mode = "dry-run" THEN "ended" ELSE "case",
               !.cases = cases, !.skip = skip]
  BY DEF StartEvaluation, Modes
<1>2. calibration.purpose = "none" /\ UNCHANGED <<calibration, artifacts, scripts>>
  BY DEF StartEvaluation
<1>3. ExecutionFits(execution') /\ execution'.resumed = FALSE  BY <1>1, NewExecutionFits
<1>4. cases \in Seq(Cases)  BY EvaluationAssumption
<1>5. /\ evaluation' \in Evaluations /\ evaluation'.results = << >> /\ evaluation'.cases = cases
      /\ evaluation'.stage \in {"ended", "case"}
  BY <1>1, <1>4, NothingFits DEF Evaluations, EvalStages
<1>6. EvaluationFits(evaluation')  BY <1>4, <1>5 DEF EvaluationFits, CaseStages
<1>7. CalibrationFits' /\ ArtifactsFit'
  BY <1>2 DEF EvalInv, CalibrationFits, ArtifactsFit, Baseline
<1> QED  BY <1>2, <1>3, <1>6, <1>7 DEF EvalInv

\* Nothing is known of the next case yet.
LEMMA NextCaseDoes ==
    ASSUME NEW e \in Evaluations, NEW y,
           y = [e EXCEPT !.observations = << >>, !.reasons = {}, !.position = 1, !.attempt = 0]
    PROVE  /\ y \in Evaluations /\ y.cases = e.cases /\ y.results = e.results
           /\ y.stage = e.stage
<1> DEFINE none == << >>
<1>1. none \in Seq(Observations)  OBVIOUS
<1> HIDE DEF none
<1> DEFINE f == [e EXCEPT !.observations = none, !.reasons = {}]
<1>2. /\ f \in Evaluations /\ f.cases = e.cases /\ f.results = e.results /\ f.stage = e.stage
  BY <1>1 DEF Evaluations
<1>3. y = [f EXCEPT !.position = 1, !.attempt = 0]  BY DEF none
<1> HIDE DEF f
<1>4. 1 \in Nat \ {0} /\ 0 \in Nat  OBVIOUS
<1>5. /\ y \in Evaluations /\ y.cases = f.cases /\ y.results = f.results /\ y.stage = f.stage
  BY ONLY <1>2, <1>3, <1>4 DEF Evaluations
<1> QED  BY ONLY <1>2, <1>5

LEMMA ResultDoes ==
    ASSUME NEW e \in Evaluations, NEW results, results \in Seq(CaseResults)
    PROVE  LET y == [e EXCEPT !.results = results]
           IN  /\ y \in Evaluations /\ y.cases = e.cases /\ y.results = results
               /\ y.stage = e.stage
BY DEF Evaluations

\* The loop over the cases: no calibration is of an evaluation that is not over.
LEMMA LoopGoesOn ==
    ASSUME EvalInv, evaluation.stage \notin {"off", "ended"}, EvaluationFits(evaluation'),
           ExecutionFits(execution'), execution'.resumed = FALSE,
           UNCHANGED <<calibration, artifacts, scripts>>
    PROVE  EvalInv'
<1>1. CalibrationFits' /\ ArtifactsFit'
  BY DEF EvalInv, CalibrationFits, ArtifactsFit, Baseline
<1> QED  BY <1>1 DEF EvalInv

LEMMA BeginCaseKeeps == ASSUME EvalInv, BeginCase PROVE EvalInv'
<1>1. /\ evaluation.stage = "case" /\ Len(evaluation.results) < Len(evaluation.cases)
      /\ UNCHANGED <<execution, calibration, artifacts, scripts>>
  BY DEF BeginCase, InCase
<1>2. /\ evaluation \in Evaluations /\ ExecutionFits(execution) /\ execution.resumed = FALSE
  BY <1>1, InCaseIs
<1>3. EvaluationFits(evaluation')
  <2>1. CASE Skipped(Case, execution.mode)
    <3> DEFINE result == CaseResult("skipped", << >>, {"required"})
    <3>1. result \in CaseResults  BY DEF CaseResult, CaseResults, Reasons
    <3>2. evaluation' = [evaluation EXCEPT !.results = Append(evaluation.results, result)]
      BY <2>1 DEF BeginCase
    <3> HIDE DEF result
    <3>3. evaluation.results \in Seq(CaseResults) /\ evaluation.cases \in Seq(Cases)
      BY <1>2 DEF Evaluations
    <3>4. /\ Append(evaluation.results, result) \in Seq(CaseResults)
          /\ Len(Append(evaluation.results, result)) = Len(evaluation.results) + 1
          /\ Len(evaluation.results) \in Nat /\ Len(evaluation.cases) \in Nat
      BY <3>1, <3>3
    <3>5. /\ evaluation' \in Evaluations /\ evaluation'.cases = evaluation.cases
          /\ evaluation'.results = Append(evaluation.results, result)
          /\ evaluation'.stage = "case"
      BY ONLY <1>1, <1>2, <3>2, <3>4 DEF Evaluations
    <3> QED  BY <1>1, <3>4, <3>5 DEF EvaluationFits, CaseStages
  <2>2. CASE ~Skipped(Case, execution.mode)
    <3>1. PICK stage \in {"candidate", "retrieval"} :
            evaluation' = [[evaluation EXCEPT !.stage = stage]
                EXCEPT !.observations = << >>, !.reasons = {}, !.position = 1, !.attempt = 0]
      BY <2>2 DEF BeginCase, To
    <3> DEFINE e == [evaluation EXCEPT !.stage = stage]
    <3>2. /\ e \in Evaluations /\ e.cases = evaluation.cases /\ e.results = evaluation.results
          /\ e.stage \in CaseStages
      BY <1>2 DEF Evaluations, EvalStages, CaseStages
    <3>3. evaluation' = [e EXCEPT !.observations = << >>, !.reasons = {}, !.position = 1,
                                  !.attempt = 0]
      BY <3>1
    <3> HIDE DEF e
    <3>5. /\ evaluation' \in Evaluations /\ evaluation'.cases = e.cases
          /\ evaluation'.results = e.results /\ evaluation'.stage = e.stage
      BY ONLY <3>2, <3>3, NextCaseDoes
    <3> QED  BY <1>1, <3>2, <3>5 DEF EvaluationFits
  <2> QED  BY <2>1, <2>2
<1> QED  BY <1>1, <1>2, <1>3, LoopGoesOn

LEMMA RetrieveKeeps == ASSUME EvalInv, Retrieve PROVE EvalInv'
<1>1. evaluation.stage = "retrieval" /\ UNCHANGED <<calibration, artifacts, scripts>>
  BY DEF Retrieve, InCase
<1>2. /\ evaluation \in Evaluations /\ ExecutionFits(execution) /\ execution.resumed = FALSE
      /\ evaluation.stage \in CaseStages
  BY <1>1, InCaseIs DEF CaseStages
<1> DEFINE e == To("close")
<1>3. InTheCase(e)  BY <1>2, ToDoes DEF CaseStages
<1>4. InTheCase(Observed(e, FALSE)) /\ InTheCase([e EXCEPT !.reasons = @ \cup {"embedding_failed"}])
  BY <1>3, ObservedDoes, ReasonDoes DEF Reasons
<1> HIDE DEF e
<1>5. CASE Case.available
  <2>1. PICK call \in CallOutcomes(execution, "embedding") :
          /\ execution' = call.after
          /\ evaluation' = CASE call.how = "answered" -> Observed(e, FALSE)
                             [] call.how = "failed" ->
                                    [e EXCEPT !.reasons = @ \cup {"embedding_failed"}]
                             [] OTHER -> e
    BY <1>5 DEF Retrieve, e
  <2>2. ExecutionFits(execution') /\ execution'.resumed = FALSE
    BY <1>2, <2>1, CallKeeps DEF Kinds
  <2>3. InTheCase(evaluation')
    BY <1>3, <1>4, <2>1
  <2> QED  BY <1>1, <1>2, <2>2, <2>3, CaseGoesOn
<1>6. CASE ~Case.available
  <2>1. evaluation' = Observed(e, FALSE) /\ execution' = execution
    BY <1>6 DEF Retrieve, e
  <2> QED  BY <1>1, <1>2, <1>4, <2>1, CaseGoesOn
<1> QED  BY <1>5, <1>6

LEMMA AskCandidateKeeps == ASSUME EvalInv, AskCandidate PROVE EvalInv'
<1>1. evaluation.stage = "candidate" /\ UNCHANGED <<calibration, artifacts, scripts>>
  BY DEF AskCandidate, InCase
<1>2. /\ evaluation \in Evaluations /\ ExecutionFits(execution) /\ execution.resumed = FALSE
      /\ evaluation.stage \in CaseStages /\ InTheCase(evaluation)
  BY <1>1, InCaseIs DEF CaseStages
<1> DEFINE e == To("judge")
<1>3. InTheCase(e)  BY <1>2, ToDoes DEF CaseStages
<1>4. InTheCase(Observed(evaluation, FALSE)) /\ InTheCase(Observed(evaluation, TRUE))
  BY <1>2, ObservedDoes
<1> HIDE DEF e
<1>5. PICK call \in CallOutcomes(execution, "candidate") :
        /\ execution' = call.after
        /\ evaluation' = CASE call.how = "answered" -> Observed(evaluation, FALSE)
                           [] call.how = "failed" -> Observed(evaluation, TRUE)
                           [] OTHER -> e
  BY DEF AskCandidate, e
<1>6. ExecutionFits(execution') /\ execution'.resumed = FALSE
  BY <1>2, <1>5, CallKeeps DEF Kinds
<1>7. InTheCase(evaluation')  BY <1>3, <1>4, <1>5
<1> QED  BY <1>1, <1>2, <1>6, <1>7, CaseGoesOn

LEMMA CandidateDoneKeeps == ASSUME EvalInv, CandidateDone PROVE EvalInv'
<1> DEFINE all == /\ execution.complete
                  /\ Len(evaluation.observations) = CandidateRepetitions
<1>1. /\ evaluation.stage = "candidate" /\ UNCHANGED <<calibration, artifacts, scripts>>
      /\ execution' = [execution EXCEPT !.complete = all] /\ evaluation' = To("judge")
  BY DEF CandidateDone, InCase
<1>2. /\ evaluation \in Evaluations /\ ExecutionFits(execution) /\ execution.resumed = FALSE
      /\ evaluation.stage \in CaseStages
  BY <1>1, InCaseIs DEF CaseStages
<1>3. all \in BOOLEAN  BY Zenon
<1> HIDE DEF all
<1>4. ExecutionFits(execution') /\ execution'.resumed = FALSE
  BY <1>1, <1>2, <1>3, CompleteKeeps
<1>5. InTheCase(evaluation')  BY <1>1, <1>2, ToDoes DEF CaseStages
<1> QED  BY <1>1, <1>2, <1>4, <1>5, CaseGoesOn

LEMMA SkipObservationKeeps == ASSUME EvalInv, SkipObservation PROVE EvalInv'
<1>1. /\ evaluation.stage = "judge" /\ UNCHANGED <<execution, calibration, artifacts, scripts>>
      /\ evaluation' = [evaluation EXCEPT !.position = @ + 1]
  BY DEF SkipObservation, Judging, InCase
<1>2. /\ evaluation \in Evaluations /\ ExecutionFits(execution) /\ execution.resumed = FALSE
      /\ evaluation.stage \in CaseStages /\ InTheCase(evaluation)
  BY <1>1, InCaseIs DEF CaseStages
<1>3. evaluation.position + 1 \in Nat \ {0}  BY <1>2 DEF Evaluations
<1>4. InTheCase(evaluation')  BY <1>1, <1>2, <1>3 DEF InTheCase, Evaluations
<1> QED  BY <1>1, <1>2, <1>4, CaseGoesOn

LEMMA StopJudgingKeeps == ASSUME EvalInv, StopJudging PROVE EvalInv'
<1>1. /\ evaluation.stage = "judge" /\ UNCHANGED <<calibration, artifacts, scripts>>
      /\ execution' = [execution EXCEPT !.complete = FALSE] /\ evaluation' = To("embedding")
  BY DEF StopJudging, Judging, InCase
<1>2. /\ evaluation \in Evaluations /\ ExecutionFits(execution) /\ execution.resumed = FALSE
      /\ evaluation.stage \in CaseStages
  BY <1>1, InCaseIs DEF CaseStages
<1>3. ExecutionFits(execution') /\ execution'.resumed = FALSE
  BY <1>1, <1>2, CompleteKeeps
<1>4. InTheCase(evaluation')  BY <1>1, <1>2, ToDoes DEF CaseStages
<1> QED  BY <1>1, <1>2, <1>3, <1>4, CaseGoesOn

LEMMA AskJudgeKeeps == ASSUME EvalInv, AskJudge PROVE EvalInv'
<1>1. /\ evaluation.stage = "judge" /\ UNCHANGED <<calibration, artifacts, scripts>>
      /\ evaluation.position <= Len(evaluation.observations)
  BY DEF AskJudge, Judging, InCase
<1>2. /\ evaluation \in Evaluations /\ ExecutionFits(execution) /\ execution.resumed = FALSE
      /\ evaluation.stage \in CaseStages /\ InTheCase(evaluation)
  BY <1>1, InCaseIs DEF CaseStages
<1> DEFINE out == To("embedding")
           failed == [evaluation EXCEPT !.reasons = @ \cup {"judge_failed"}]
<1>3. InTheCase(out) /\ InTheCase(failed)  BY <1>2, ToDoes, ReasonDoes DEF CaseStages, Reasons
<1>4. \A verdict \in JudgeScores : InTheCase(Scored(evaluation, verdict))
  BY <1>1, <1>2, ScoredDoes
<1> HIDE DEF out, failed
<1>5. PICK call \in CallOutcomes(execution, "judge"), verdict \in JudgeScores :
        /\ execution' = IF verdict = "unscored" THEN Failed(call.after) ELSE call.after
        /\ evaluation' =
             CASE call.how = "answered" ->
                      LET e == Scored(evaluation, verdict)
                      IN  IF e.attempt = Owed THEN NextPosition(e, execution') ELSE e
               [] call.how = "failed" -> NextPosition(failed, execution')
               [] OTHER -> out
  BY DEF AskJudge, failed, out
<1>6. ExecutionFits(execution') /\ execution'.resumed = FALSE
  <2>1. /\ ExecutionFits(call.after) /\ call.after.resumed = FALSE
        /\ call.after \in Executions
    BY <1>2, CallKeeps DEF Kinds, ExecutionFits
  <2>2. ExecutionFits(Failed(call.after)) /\ Failed(call.after).resumed = FALSE
    BY <2>1, FailedDoes, FlagsKeep
  <2> QED  BY <1>5, <2>1, <2>2
<1>7. InTheCase(evaluation')
  <2> DEFINE e == Scored(evaluation, verdict)
             x == execution'
  <2>1. InTheCase(e)  BY <1>4
  <2>2. evaluation' \in {e, NextPosition(e, x), NextPosition(failed, x), out}
    BY <1>5
  <2> HIDE DEF e, x
  <2>3. InTheCase(NextPosition(e, x)) /\ InTheCase(NextPosition(failed, x))
    BY <1>3, <2>1, NextPositionDoes
  <2> QED  BY <1>3, <2>1, <2>2, <2>3
<1> QED  BY <1>1, <1>2, <1>6, <1>7, CaseGoesOn

LEMMA JudgeDoneKeeps == ASSUME EvalInv, JudgeDone PROVE EvalInv'
<1>1. /\ evaluation.stage = "judge" /\ UNCHANGED <<execution, calibration, artifacts, scripts>>
      /\ evaluation' = To("embedding")
  BY DEF JudgeDone, InCase
<1>2. /\ evaluation \in Evaluations /\ ExecutionFits(execution) /\ execution.resumed = FALSE
      /\ evaluation.stage \in CaseStages
  BY <1>1, InCaseIs DEF CaseStages
<1>3. InTheCase(evaluation')  BY <1>1, <1>2, ToDoes DEF CaseStages
<1> QED  BY <1>1, <1>2, <1>3, CaseGoesOn

LEMMA AskEmbeddingKeeps == ASSUME EvalInv, AskEmbedding PROVE EvalInv'
<1>1. evaluation.stage = "embedding" /\ UNCHANGED <<calibration, artifacts, scripts>>
  BY DEF AskEmbedding, InCase
<1>2. /\ evaluation \in Evaluations /\ ExecutionFits(execution) /\ execution.resumed = FALSE
      /\ evaluation.stage \in CaseStages
  BY <1>1, InCaseIs DEF CaseStages
<1> DEFINE e == To("close")
<1>3. InTheCase(e)  BY <1>2, ToDoes DEF CaseStages
<1>4. InTheCase([e EXCEPT !.reasons = @ \cup {"embedding_failed"}])
  BY <1>3, ReasonDoes DEF Reasons
<1> HIDE DEF e
<1>5. CASE "embedding" \in Case.needs /\ ~execution.timedOut
  <2>1. PICK call \in CallOutcomes(execution, "embedding") :
          /\ execution' = call.after
          /\ evaluation' = [e EXCEPT !.reasons =
                 IF call.how = "failed" THEN @ \cup {"embedding_failed"} ELSE @]
    BY <1>5 DEF AskEmbedding, e
  <2>2. ExecutionFits(execution') /\ execution'.resumed = FALSE
    BY <1>2, <2>1, CallKeeps DEF Kinds
  <2>3. InTheCase(evaluation')
    BY <1>3, <2>1 DEF InTheCase, Evaluations, Reasons
  <2> QED  BY <1>1, <1>2, <2>2, <2>3, CaseGoesOn
<1>6. CASE ~("embedding" \in Case.needs /\ ~execution.timedOut)
  <2>1. evaluation' = e /\ execution' = execution  BY <1>6 DEF AskEmbedding, e
  <2> QED  BY <1>1, <1>2, <1>3, <2>1, CaseGoesOn
<1> QED  BY <1>5, <1>6

LEMMA CloseCaseKeeps == ASSUME EvalInv, CloseCase PROVE EvalInv'
<1> DEFINE reasons == evaluation.reasons \cup JudgeReasons(evaluation.observations)
                      \cup RuleReasons(evaluation.observations)
           stopped == execution.exhausted \/ execution.timedOut
           result == CaseResult(CaseStatus(evaluation.observations, reasons),
                                evaluation.observations, reasons)
           stage == IF stopped THEN "ending" ELSE "case"
           all == execution.complete /\ ~stopped
           results == Append(evaluation.results, result)
<1>1. /\ evaluation.stage = "close" /\ UNCHANGED <<calibration, artifacts, scripts>>
      /\ execution' = [execution EXCEPT !.completed = execution.completed + 1,
                                        !.complete = all]
      /\ evaluation' = [To(stage) EXCEPT !.results = results,
               !.observations = << >>, !.reasons = {}, !.position = 1, !.attempt = 0]
  BY DEF CloseCase, InCase, To
<1>2. /\ evaluation \in Evaluations /\ ExecutionFits(execution) /\ execution.resumed = FALSE
      /\ evaluation.stage \in CaseStages /\ execution \in Executions
  BY <1>1, InCaseIs DEF CaseStages
<1>3. /\ evaluation.observations \in Seq(Observations) /\ reasons \in SUBSET Reasons
      /\ evaluation.results \in Seq(CaseResults) /\ evaluation.cases \in Seq(Cases)
  BY <1>2 DEF Evaluations, JudgeReasons, RuleReasons, Reasons
<1>4. result \in CaseResults  BY <1>3 DEF CaseResult, CaseStatus, CaseResults
<1>5. all \in BOOLEAN /\ stage \in {"ending", "case"}  BY Zenon
<1> HIDE DEF reasons, stopped, result, stage, all
<1>6. /\ results \in Seq(CaseResults) /\ Len(results) = Len(evaluation.results) + 1
      /\ Len(evaluation.results) \in Nat /\ Len(evaluation.cases) \in Nat
  BY <1>3, <1>4
<1> HIDE DEF results
<1>7. /\ evaluation' \in Evaluations /\ evaluation'.cases = evaluation.cases
      /\ evaluation'.results = results /\ evaluation'.stage = stage
  <2> DEFINE e == To(stage)
  <2>1. /\ e \in Evaluations /\ e.cases = evaluation.cases /\ e.stage = stage
    BY <1>2, <1>5 DEF To, Evaluations, EvalStages
  <2> DEFINE f == [e EXCEPT !.results = results]
  <2>2. f \in Evaluations /\ f.cases = e.cases /\ f.results = results /\ f.stage = e.stage
    BY <1>6, <2>1, ResultDoes
  <2>3. evaluation' = [f EXCEPT !.observations = << >>, !.reasons = {}, !.position = 1,
                                !.attempt = 0]
    BY <1>1
  <2> HIDE DEF e, f
  <2>4. /\ evaluation' \in Evaluations /\ evaluation'.cases = f.cases
        /\ evaluation'.results = f.results /\ evaluation'.stage = f.stage
    BY ONLY <2>2, <2>3, NextCaseDoes
  <2> QED  BY <2>1, <2>2, <2>4
<1>8. Len(evaluation.results) < Len(evaluation.cases)
  BY <1>2 DEF EvalInv, EvaluationFits
<1>9. EvaluationFits(evaluation')
  BY <1>5, <1>6, <1>7, <1>8 DEF EvaluationFits, CaseStages
<1>10. ExecutionFits(execution') /\ execution'.resumed = FALSE
  <2>1. execution.completed + 1 \in Nat  BY <1>2 DEF Executions
  <2>2. /\ execution' \in Executions /\ execution'.calls = execution.calls
        /\ execution'.cost = execution.cost /\ execution'.maxCost = execution.maxCost
        /\ execution'.budget = execution.budget /\ execution'.resumed = execution.resumed
    BY ONLY <1>1, <1>2, <1>5, <2>1 DEF Executions
  <2> QED  BY <1>2, <2>2, FlagsKeep
<1> QED  BY <1>1, <1>9, <1>10, LoopGoesOn

LEMMA EndEvaluationKeeps == ASSUME EvalInv, EndEvaluation PROVE EvalInv'
<1> DEFINE all == execution.complete /\ execution.completed = Len(evaluation.cases)
<1>1. /\ evaluation.stage \in {"ending", "case"} /\ UNCHANGED <<calibration, artifacts, scripts>>
      /\ execution' = [execution EXCEPT !.complete = all]
      /\ evaluation' = [evaluation EXCEPT !.stage = "ended"]
  BY DEF EndEvaluation, To
<1>2. /\ evaluation \in Evaluations /\ ExecutionFits(execution) /\ execution.resumed = FALSE
  BY <1>1, InCaseIs
<1>3. all \in BOOLEAN  BY Zenon
<1> HIDE DEF all
<1>4. ExecutionFits(execution') /\ execution'.resumed = FALSE
  BY <1>1, <1>2, <1>3, CompleteKeeps
<1>5. /\ evaluation' \in Evaluations /\ evaluation'.cases = evaluation.cases
      /\ evaluation'.results = evaluation.results /\ evaluation'.stage = "ended"
  BY <1>1, <1>2 DEF Evaluations, EvalStages
<1>6. EvaluationFits(evaluation')  BY <1>5 DEF EvalInv, EvaluationFits, CaseStages
<1> QED  BY <1>1, <1>4, <1>6, LoopGoesOn

-----------------------------------------------------------------------------
(* The calibration of the judge *)

\* What has been spent, and what may be, stays.
SameAccount(c, d) ==
    /\ d \in Calibrations /\ d.purpose = c.purpose /\ d.calls = c.calls /\ d.cost = c.cost
    /\ d.existing = c.existing /\ d.maxCalls = c.maxCalls /\ d.maxCost = c.maxCost

LEMMA AccountKeeps ==
    ASSUME EvalInv, SameAccount(calibration, calibration'),
           UNCHANGED <<evaluation, execution, artifacts, scripts>>
    PROVE  EvalInv'
<1>1. CalibrationFits'  BY DEF EvalInv, CalibrationFits, SameAccount
<1>2. ArtifactsFit'  BY DEF EvalInv, ArtifactsFit, Baseline
<1> QED  BY <1>1, <1>2 DEF EvalInv, SameAccount

LEMMA StoppedDoes ==
    ASSUME NEW c \in Calibrations, NEW reason \in Stops
    PROVE  SameAccount(c, StoppedBy(c, reason))
BY DEF StoppedBy, SameAccount, Calibrations

LEMMA ItemDoes ==
    ASSUME NEW c \in Calibrations, NEW verdict \in JudgeScores
    PROVE  SameAccount(c, Result(c, verdict))
<1> DEFINE verdicts == [c.verdict EXCEPT ![Item(c)] = verdict]
           left == c.todo \ {Item(c)}
<1>1. verdicts \in Verdicts /\ left \in SUBSET Items
  BY DEF Calibrations, Verdicts, JudgeScores
<1>2. Result(c, verdict) = [c EXCEPT !.verdict = verdicts, !.todo = left]  BY DEF Result
<1> HIDE DEF verdicts, left
<1> QED  BY <1>1, <1>2 DEF SameAccount, Calibrations

LEMMA CalibrateDoes ==
    ASSUME NEW purpose \in Purposes, NEW todo \in SUBSET Items, NEW existing \in Nat,
           NEW maxCalls \in Nat, NEW maxCost \in Nat
    PROVE  LET c == Calibrate(purpose, todo, existing, maxCalls, maxCost)
           IN  /\ c \in Calibrations /\ c.purpose = purpose /\ c.existing = existing
               /\ c.maxCalls = maxCalls /\ c.maxCost = maxCost /\ c.calls = 0 /\ c.cost = 0
<1>1. NoCalibration \in Calibrations /\ NoCalibration.calls = 0 /\ NoCalibration.cost = 0
  BY NothingFits DEF NoCalibration
<1> QED  BY <1>1 DEF Calibrate, Calibrations

LEMMA CalibrateAfterRunKeeps == ASSUME EvalInv, CalibrateAfterRun PROVE EvalInv'
<1> DEFINE left == LeftOf(execution.budget.judge, execution.calls.judge)
<1>1. /\ evaluation.stage = "ended" /\ UNCHANGED <<evaluation, execution, artifacts, scripts>>
      /\ \/ calibration' = Calibrate("evaluation", Items, execution.cost, left,
                                     execution.budget.cost)
         \/ calibration' = [NoCalibration EXCEPT !.purpose = "merged"]
  BY DEF CalibrateAfterRun
<1>2. execution \in Executions /\ execution.resumed = FALSE /\ ExecutionFits(execution)
  BY <1>1, InCaseIs
<1>3. ArtifactsFit'  BY <1>1 DEF EvalInv, ArtifactsFit, Baseline
<1>4. CASE calibration' = Calibrate("evaluation", Items, execution.cost, left,
                                    execution.budget.cost)
  <2>1. left \in Nat /\ execution.cost \in Nat /\ execution.budget.cost \in Nat
    BY <1>2, CountersAre DEF LeftOf
  <2>2. /\ calibration' \in Calibrations /\ calibration'.purpose = "evaluation"
        /\ calibration'.existing = execution.cost /\ calibration'.maxCalls = left
        /\ calibration'.maxCost = execution.budget.cost
        /\ calibration'.calls = 0 /\ calibration'.cost = 0
    <3>1. "evaluation" \in Purposes /\ Items \in SUBSET Items  BY DEF Purposes
    <3> HIDE DEF left
    <3> QED  BY ONLY <1>4, <2>1, <3>1, CalibrateDoes
  <2>3. /\ execution.calls.judge <= execution.budget.judge + Overrun
        /\ execution.cost <= execution.maxCost + Overrun
    BY <1>2, CountersAre DEF ExecutionFits, Kinds
  <2>4. CalibrationFits'
    BY <1>1, <1>2, <2>2, <2>3, CountersAre DEF CalibrationFits
  <2> QED  BY <1>1, <1>3, <2>2, <2>4 DEF EvalInv
<1>5. CASE calibration' = [NoCalibration EXCEPT !.purpose = "merged"]
  <2>1. calibration' \in Calibrations /\ calibration'.purpose = "merged"
    BY <1>5, NothingFits DEF Calibrations, Purposes
  <2>2. CalibrationFits'  BY <2>1 DEF CalibrationFits
  <2> QED  BY <1>1, <1>3, <2>1, <2>2 DEF EvalInv
<1> QED  BY <1>1, <1>4, <1>5

LEMMA CalibrationStopsKeeps == ASSUME EvalInv, CalibrationStops PROVE EvalInv'
<1>1. PICK reason \in Stops : calibration' = StoppedBy(calibration, reason)
  BY DEF CalibrationStops, Stops
<1>2. UNCHANGED <<evaluation, execution, artifacts, scripts>>
  BY DEF CalibrationStops, Calibrating
<1>3. calibration \in Calibrations  BY DEF EvalInv, CalibrationFits
<1>4. SameAccount(calibration, calibration')  BY <1>1, <1>3, StoppedDoes
<1> QED  BY <1>2, <1>4, AccountKeeps

LEMMA ItemFailsKeeps == ASSUME EvalInv, ItemFails PROVE EvalInv'
<1> DEFINE c == Result(calibration, "unscored")
           d == [c EXCEPT !.complete = FALSE]
<1>1. calibration' \in {d, StoppedBy(d, "timeout")}  BY DEF ItemFails
<1>2. UNCHANGED <<evaluation, execution, artifacts, scripts>>
  BY DEF ItemFails, MayScore, Calibrating
<1>3. calibration \in Calibrations  BY DEF EvalInv, CalibrationFits
<1>4. SameAccount(calibration, c)  BY <1>3, ItemDoes DEF JudgeScores
<1> HIDE DEF c
<1>5. SameAccount(calibration, d)  BY <1>4 DEF SameAccount, Calibrations
<1> HIDE DEF d
<1>6. d \in Calibrations /\ "timeout" \in Stops  BY <1>5 DEF SameAccount, Stops
<1>7. SameAccount(d, StoppedBy(d, "timeout"))  BY <1>6, StoppedDoes
<1>8. SameAccount(calibration, calibration')  BY <1>1, <1>5, <1>7 DEF SameAccount
<1> QED  BY <1>2, <1>8, AccountKeeps

\* The requests of one answer, the repeated ones too, are within the limits and the overrun.
LEMMA ScoreItemKeeps == ASSUME EvalInv, ScoreItem PROVE EvalInv'
<1>1. PICK n \in 1 .. MaxRequests, verdict \in JudgeScores :
        LET c == [Result(calibration, verdict) EXCEPT
                        !.calls = @ + n, !.cost = @ + n * ReservedCost.judge,
                        !.complete = @ /\ verdict = "scored"]
        IN  calibration' = IF c.calls > c.maxCalls THEN StoppedBy(c, "judge_calls")
                           ELSE IF CostSpent(c) >= c.maxCost THEN StoppedBy(c, "cost_cny")
                           ELSE c
  BY DEF ScoreItem
<1>2. /\ calibration \in Calibrations /\ n \in Nat /\ n <= MaxRequests
      /\ calibration.calls \in Nat /\ calibration.cost \in Nat /\ calibration.existing \in Nat
      /\ calibration.maxCalls \in Nat /\ calibration.maxCost \in Nat
  BY RequestsAre DEF EvalInv, CalibrationFits, Calibrations
<1>3. /\ UNCHANGED <<evaluation, execution, artifacts, scripts>>
      /\ calibration.calls < calibration.maxCalls
      /\ calibration.existing + calibration.cost + 1 <= calibration.maxCost
  <2>1. MayScore  BY DEF ScoreItem
  <2>2. /\ UNCHANGED <<evaluation, execution, artifacts, scripts>>
        /\ calibration.calls < calibration.maxCalls
        /\ ~(calibration.existing + calibration.cost + 1 > calibration.maxCost)
    BY <2>1 DEF MayScore, Calibrating, Unaffordable, CostSpent, ReservedCost
  <2> QED  BY <1>2, <2>2
<1> DEFINE r == Result(calibration, verdict)
           c == [r EXCEPT !.calls = @ + n, !.cost = @ + n * ReservedCost.judge,
                          !.complete = @ /\ verdict = "scored"]
<1>4. SameAccount(calibration, r)  BY <1>2, ItemDoes
<1>5. calibration' \in {c, StoppedBy(c, "judge_calls"), StoppedBy(c, "cost_cny")}  BY <1>1
<1> HIDE DEF r
<1>6. /\ c \in Calibrations /\ c.purpose = calibration.purpose
      /\ c.calls = calibration.calls + n /\ c.cost = calibration.cost + n
      /\ c.existing = calibration.existing /\ c.maxCalls = calibration.maxCalls
      /\ c.maxCost = calibration.maxCost
  <2>1. n * ReservedCost.judge = n  BY <1>2 DEF ReservedCost
  <2>2. r \in Calibrations /\ r.calls + n \in Nat /\ r.cost + n \in Nat
    BY <1>2, <1>4 DEF SameAccount
  <2>3. c = [r EXCEPT !.calls = r.calls + n, !.cost = r.cost + n,
                      !.complete = r.complete /\ verdict = "scored"]
    BY <2>1, <2>2
  <2> HIDE DEF c
  <2>4. /\ c \in Calibrations /\ c.purpose = r.purpose /\ c.calls = r.calls + n
        /\ c.cost = r.cost + n /\ c.existing = r.existing /\ c.maxCalls = r.maxCalls
        /\ c.maxCost = r.maxCost
    BY ONLY <2>2, <2>3 DEF Calibrations
  <2> QED  BY <1>4, <2>4 DEF SameAccount
<1> HIDE DEF c
<1>7. SameAccount(c, calibration')
  <2>1. {"judge_calls", "cost_cny"} \subseteq Stops  BY DEF Stops
  <2>2. SameAccount(c, c)  BY <1>6 DEF SameAccount
  <2> QED  BY <1>5, <1>6, <2>1, <2>2, StoppedDoes
<1>8. CalibrationFits'
  <2>1. /\ calibration' \in Calibrations /\ calibration'.purpose = calibration.purpose
        /\ calibration'.calls = calibration.calls + n
        /\ calibration'.cost = calibration.cost + n
        /\ calibration'.existing = calibration.existing
        /\ calibration'.maxCalls = calibration.maxCalls
        /\ calibration'.maxCost = calibration.maxCost
    BY <1>6, <1>7 DEF SameAccount
  <2>2. ASSUME calibration.purpose = "evaluation"
        PROVE  /\ calibration.calls + n + execution.calls.judge
                      <= execution.budget.judge + Overrun
               /\ calibration.cost + n + execution.cost <= execution.maxCost + Overrun
    <3>1. /\ calibration.existing = execution.cost
          /\ calibration.maxCost = execution.budget.cost
          /\ calibration.maxCalls = LeftOf(execution.budget.judge, execution.calls.judge)
          /\ evaluation.stage = "ended"
      BY <2>2 DEF EvalInv, CalibrationFits
    <3>2. execution \in Executions /\ execution.maxCost = execution.budget.cost
      BY <3>1, InCaseIs DEF ExecutionFits
    <3>3. calibration.calls + execution.calls.judge < execution.budget.judge
      BY <1>3, <1>2, <3>1, <3>2, CountersAre DEF LeftOf
    <3> QED  BY <1>3, <1>2, <3>1, <3>2, <3>3, CountersAre, RequestsAre
  <2>3. calibration.purpose = "resume" =>
          /\ calibration.existing = 0 /\ calibration.maxCost = ResumeCap
          /\ calibration.cost + n <= ResumeCap + Overrun
    BY <1>3, <1>2, RequestsAre DEF EvalInv, CalibrationFits
  <2> QED  BY <1>3, <2>1, <2>2, <2>3 DEF EvalInv, CalibrationFits
<1>9. ArtifactsFit'  BY <1>3 DEF EvalInv, ArtifactsFit, Baseline
<1> QED  BY <1>3, <1>6, <1>7, <1>8, <1>9 DEF EvalInv, SameAccount

LEMMA MoreCallsDo ==
    ASSUME NEW x \in Executions, NEW n \in Nat
    PROVE  LET calls == [x.calls EXCEPT !.judge = x.calls.judge + n]
           IN  /\ calls \in [Kinds -> Nat] /\ calls["judge"] = x.calls.judge + n
               /\ \A kind \in Kinds : kind # "judge" => calls[kind] = x.calls[kind]
<1>1. x.calls \in [Kinds -> Nat] /\ x.calls.judge \in Nat /\ "judge" \in Kinds
  BY CountersAre DEF Kinds
<1>2. x.calls.judge + n \in Nat  BY <1>1
<1> QED  BY <1>1, <1>2

LEMMA WithCalibrationDoes ==
    ASSUME NEW x \in Executions, NEW c \in Calibrations
    PROVE  LET y == WithCalibration(x, c)
           IN  /\ y \in Executions /\ y.calls = [x.calls EXCEPT !.judge = x.calls.judge + c.calls]
               /\ y.cost = x.cost + c.cost /\ y.maxCost = x.maxCost /\ y.budget = x.budget
               /\ y.resumed = x.resumed
<1> DEFINE calls == [x.calls EXCEPT !.judge = x.calls.judge + c.calls]
           late == x.timedOut \/ c.stop = "timeout"
           out == x.exhausted \/ c.stop \in {"judge_calls", "cost_cny"}
           all == x.complete /\ Complete(c)
           errors == IF Complete(c) THEN x.errors ELSE x.errors \cup {"judge_calibration"}
           y == WithCalibration(x, c)
<1>1. c.calls \in Nat /\ c.cost \in Nat /\ x.cost + c.cost \in Nat
  BY CountersAre DEF Calibrations
<1>2. calls \in [Kinds -> Nat]  BY <1>1, MoreCallsDo
<1>3. late \in BOOLEAN /\ out \in BOOLEAN /\ all \in BOOLEAN  BY Zenon
<1>4. errors \in SUBSET {"evaluation", "judge_calibration"}  BY DEF Executions
<1>5. y = [x EXCEPT !.calls = calls, !.cost = x.cost + c.cost, !.timedOut = late,
                    !.exhausted = out, !.complete = all, !.errors = errors]
  BY DEF WithCalibration
<1> HIDE DEF calls, late, out, all, errors, y
<1>6. /\ y \in Executions /\ y.calls = calls /\ y.cost = x.cost + c.cost
      /\ y.maxCost = x.maxCost /\ y.budget = x.budget /\ y.resumed = x.resumed
  BY ONLY x \in Executions, <1>1, <1>2, <1>3, <1>4, <1>5 DEF Executions
<1> QED  BY <1>6 DEF calls, y

LEMMA ResumedDoes ==
    ASSUME NEW x \in Executions, NEW c \in Calibrations, NEW verdict
    PROVE  LET y == Resumed(x, c, verdict)
           IN  /\ y \in Executions /\ y.cost = x.cost + c.cost
               /\ y.maxCost = x.cost + ResumeCap /\ y.resumed = TRUE
<1> DEFINE calls == [x.calls EXCEPT !.judge = x.calls.judge + c.calls]
           all == /\ ScoredItems(verdict) = Items /\ ~x.timedOut
                  /\ x.completed = Len(Baseline.cases)
           out == x.exhausted /\ ~all
           errors == IF all THEN x.errors \ {"judge_calibration"} ELSE x.errors
           y == Resumed(x, c, verdict)
<1>1. /\ c.calls \in Nat /\ c.cost \in Nat /\ x.cost + c.cost \in Nat
      /\ x.cost + ResumeCap \in Nat
  BY CountersAre, RequestsAre DEF Calibrations
<1>2. calls \in [Kinds -> Nat]  BY <1>1, MoreCallsDo
<1>3. all \in BOOLEAN /\ out \in BOOLEAN  BY Zenon
<1>4. errors \in SUBSET {"evaluation", "judge_calibration"}  BY DEF Executions
<1>5. y = [x EXCEPT !.calls = calls, !.cost = x.cost + c.cost,
                    !.maxCost = x.cost + ResumeCap, !.resumed = TRUE, !.complete = all,
                    !.exhausted = out, !.errors = errors]
  BY DEF Resumed
<1> HIDE DEF calls, all, out, errors, y
<1>6. /\ y \in Executions /\ y.cost = x.cost + c.cost /\ y.maxCost = x.cost + ResumeCap
      /\ y.resumed = TRUE
  BY ONLY x \in Executions, <1>1, <1>2, <1>3, <1>4, <1>5 DEF Executions
<1> QED  BY <1>6 DEF y

LEMMA MergeCalibrationKeeps == ASSUME EvalInv, MergeCalibration PROVE EvalInv'
<1>1. /\ calibration.purpose = "evaluation" /\ UNCHANGED <<evaluation, artifacts, scripts>>
      /\ execution' = WithCalibration(execution, calibration)
      /\ calibration' = [NoCalibration EXCEPT !.purpose = "merged",
             !.verdict = calibration.verdict, !.calls = calibration.calls,
             !.cost = calibration.cost]
  BY DEF MergeCalibration
<1>2. /\ evaluation.stage = "ended" /\ calibration \in Calibrations
      /\ calibration.calls + execution.calls.judge <= execution.budget.judge + Overrun
      /\ calibration.cost + execution.cost <= execution.maxCost + Overrun
  BY <1>1 DEF EvalInv, CalibrationFits
<1>3. execution \in Executions /\ execution.resumed = FALSE /\ ExecutionFits(execution)
  BY <1>2, InCaseIs
<1>4. /\ calibration.calls \in Nat /\ calibration.cost \in Nat
      /\ calibration.verdict \in Verdicts
  BY <1>2 DEF Calibrations
<1>5. ExecutionFits(execution') /\ execution'.resumed = FALSE
  <2> DEFINE calls == [execution.calls EXCEPT !.judge =
                           execution.calls.judge + calibration.calls]
  <2>1. /\ execution' \in Executions /\ execution'.calls = calls
        /\ execution'.cost = execution.cost + calibration.cost
        /\ execution'.maxCost = execution.maxCost /\ execution'.budget = execution.budget
        /\ execution'.resumed = execution.resumed
    BY <1>1, <1>2, <1>3, WithCalibrationDoes
  <2>2. /\ calls["judge"] = execution.calls.judge + calibration.calls
        /\ \A kind \in Kinds : kind # "judge" => calls[kind] = execution.calls[kind]
    BY <1>3, <1>4, MoreCallsDo
  <2> HIDE DEF calls
  <2>3. \A kind \in Kinds : calls[kind] <= execution.budget[kind] + Overrun
    <3>1. ASSUME NEW kind \in Kinds PROVE calls[kind] <= execution.budget[kind] + Overrun
      <4>1. CASE kind = "judge"
        <5>1. calls[kind] <= execution.budget.judge + Overrun
          BY <1>2, <1>3, <1>4, <2>2, <4>1, CountersAre, RequestsAre
        <5> QED  BY <1>3, <4>1, <5>1, CountersAre
      <4>2. CASE kind # "judge"  BY <1>3, <2>2, <4>2 DEF ExecutionFits
      <4> QED  BY <4>1, <4>2
    <3> QED  BY <3>1
  <2>4. execution'.cost <= execution'.maxCost + Overrun
    BY <1>2, <1>3, <1>4, <2>1, CountersAre, RequestsAre
  <2> QED  BY <1>3, <2>1, <2>3, <2>4 DEF ExecutionFits
<1>6. calibration' \in Calibrations /\ calibration'.purpose = "merged"
  BY <1>1, <1>4, NothingFits DEF Calibrations, Purposes
<1>7. CalibrationFits'  BY <1>6 DEF CalibrationFits
<1>8. ArtifactsFit'  BY <1>1 DEF EvalInv, ArtifactsFit, Baseline
<1> QED  BY <1>1, <1>2, <1>5, <1>6, <1>7, <1>8 DEF EvalInv

-----------------------------------------------------------------------------
(* The files, and the scripts that come back to them *)

LEMMA FilesAre ==
    ASSUME EvalInv
    PROVE  /\ artifacts.report # << >> =>
                 Baseline \in ReportFiles /\ Len(Baseline.results) <= Len(Baseline.cases)
           /\ artifacts.calibration # << >> => Calibrated \in CalibrationFiles
<1>1. /\ artifacts.report \in Seq(ReportFiles) /\ artifacts.calibration \in Seq(CalibrationFiles)
      /\ Len(artifacts.report) <= 1 /\ Len(artifacts.calibration) <= 1
      /\ artifacts.report # << >> => Len(Baseline.results) <= Len(Baseline.cases)
  BY DEF EvalInv, ArtifactsFit, Artifacts
<1>2. artifacts.report # << >> => artifacts.report[1] \in ReportFiles  BY <1>1
<1>3. artifacts.calibration # << >> => artifacts.calibration[1] \in CalibrationFiles  BY <1>1
<1> QED  BY <1>1, <1>2, <1>3 DEF Baseline, Calibrated

\* A script ends, or is killed: nothing is in memory any more.
LEMMA ScriptEndsKeeps ==
    ASSUME EvalInv, NEW k \in Nat, ScriptEnds(k), ArtifactsFit'
    PROVE  EvalInv'
<1>1. /\ evaluation' = NoEvaluation /\ calibration' = NoCalibration
      /\ execution' = NewExecution("dry-run", CHOOSE b \in Budgets : TRUE)
      /\ scripts' = [scripts EXCEPT !.kills = @ + k]
  BY DEF ScriptEnds
<1>2. (CHOOSE b \in Budgets : TRUE) \in Budgets /\ "dry-run" \in Modes
  BY EvaluationAssumption DEF Modes
<1>3. ExecutionFits(execution') /\ execution'.resumed = FALSE
  BY <1>1, <1>2, NewExecutionFits
<1>4. scripts' \in [resumes : Nat, kills : Nat]  BY <1>1 DEF EvalInv
<1>5. CalibrationFits' /\ EvaluationFits(evaluation')
  BY <1>1, NothingFits DEF CalibrationFits
<1> QED  BY <1>1, <1>3, <1>4, <1>5, NothingFits DEF EvalInv

LEMMA KillScriptKeeps == ASSUME EvalInv, KillScript PROVE EvalInv'
<1>1. ScriptEnds(1) /\ artifacts' = artifacts  BY DEF KillScript
<1>2. ArtifactsFit'  BY <1>1 DEF EvalInv, ArtifactsFit, Baseline
<1> QED  BY <1>1, <1>2, ScriptEndsKeeps

LEMMA WriteReportKeeps == ASSUME EvalInv, WriteReport PROVE EvalInv'
<1> DEFINE report == ReportOf(execution, evaluation, calibration)
<1>1. /\ calibration.purpose = "merged" /\ UNCHANGED <<evaluation, execution, scripts>>
      /\ artifacts' = [artifacts EXCEPT !.report = <<report>>]
      /\ calibration' = [calibration EXCEPT !.purpose = "written"]
  BY DEF WriteReport
<1>2. /\ evaluation \in Evaluations /\ execution \in Executions /\ calibration \in Calibrations
      /\ Len(evaluation.results) <= Len(evaluation.cases) /\ artifacts \in Artifacts
  BY DEF EvalInv, EvaluationFits, ExecutionFits, CalibrationFits, ArtifactsFit
<1>3. /\ report \in ReportFiles /\ report.results = evaluation.results
      /\ report.cases = evaluation.cases
  BY <1>2 DEF ReportOf, ReportFiles, Evaluations, Calibrations
<1> HIDE DEF report
<1>4. <<report>> \in Seq(ReportFiles) /\ Len(<<report>>) = 1 /\ <<report>>[1] = report
  BY <1>3
<1> DEFINE file == <<report>>
<1> HIDE DEF file
<1>5. /\ artifacts' \in Artifacts /\ artifacts'.report = file
      /\ artifacts'.calibration = artifacts.calibration
      /\ artifacts'.completion = artifacts.completion
  <2>1. file \in Seq(ReportFiles) /\ artifacts' = [artifacts EXCEPT !.report = file]
    BY <1>1, <1>4 DEF file
  <2> QED  BY ONLY <1>2, <2>1 DEF Artifacts
<1>6. ArtifactsFit'
  <2>1. Len(file) = 1 /\ file[1] = report  BY <1>4 DEF file
  <2>2. (Baseline)' = report  BY <1>5, <2>1 DEF Baseline
  <2> QED  BY <1>2, <1>3, <1>5, <2>1, <2>2 DEF EvalInv, ArtifactsFit
<1>7. calibration' \in Calibrations /\ calibration'.purpose = "written"
  BY <1>1, <1>2 DEF Calibrations, Purposes
<1>8. CalibrationFits'  BY <1>7 DEF CalibrationFits
<1> QED  BY <1>1, <1>6, <1>7, <1>8 DEF EvalInv

\* The report is what it was: the other two files may be written.
LEMMA ReportKeeps ==
    ASSUME EvalInv, artifacts' \in Artifacts, artifacts'.report = artifacts.report,
           Len(artifacts'.calibration) <= 1, Len(artifacts'.completion) <= 1
    PROVE  ArtifactsFit'
<1>1. /\ Len(artifacts.report) <= 1
      /\ artifacts.report # << >> => Len(Baseline.results) <= Len(Baseline.cases)
  BY DEF EvalInv, ArtifactsFit
<1>2. (Baseline)' = Baseline  BY DEF Baseline
<1>3. Len(artifacts'.report) <= 1  BY ONLY <1>1, artifacts'.report = artifacts.report
<1> QED  BY <1>1, <1>2, <1>3 DEF ArtifactsFit

LEMMA WriteCalibrationKeeps == ASSUME EvalInv, WriteCalibration PROVE EvalInv'
<1> DEFINE content == [verdict |-> calibration.verdict, calls |-> calibration.calls,
                       cost |-> calibration.cost]
           file == <<content>>
<1>1. /\ ScriptEnds(0) /\ artifacts' = [artifacts EXCEPT !.calibration = file]
  BY DEF WriteCalibration
<1>2. calibration \in Calibrations /\ artifacts \in Artifacts
  BY DEF EvalInv, CalibrationFits, ArtifactsFit
<1>3. content \in CalibrationFiles  BY <1>2 DEF Calibrations, CalibrationFiles
<1> HIDE DEF content
<1>4. file \in Seq(CalibrationFiles) /\ Len(file) = 1  BY <1>3
<1> HIDE DEF file
<1>5. /\ artifacts' \in Artifacts /\ artifacts'.report = artifacts.report
      /\ artifacts'.calibration = file /\ artifacts'.completion = artifacts.completion
  BY ONLY <1>1, <1>2, <1>4 DEF Artifacts
<1>6. Len(artifacts.completion) <= 1  BY DEF EvalInv, ArtifactsFit
<1>7. ArtifactsFit'
  <2>1. Len(artifacts'.calibration) <= 1
    <3>1. Len(artifacts'.calibration) = 1  BY ONLY <1>4, <1>5, Zenon
    <3> QED  BY ONLY <3>1
  <2>2. Len(artifacts'.completion) <= 1  BY ONLY <1>5, <1>6
  <2> QED  BY ONLY EvalInv, <1>5, <2>1, <2>2, ReportKeeps
<1> QED  BY <1>1, <1>7, ScriptEndsKeeps

\* Another calibration of a judge, by a script of its own.
LEMMA CalibrationBegins ==
    ASSUME EvalInv, UNCHANGED <<evaluation, execution, artifacts>>,
           scripts' = [scripts EXCEPT !.resumes = @ + 1],
           calibration' \in Calibrations, CalibrationFits', calibration'.purpose = "resume" =>
               artifacts.report # << >> /\ artifacts.calibration # << >>
    PROVE  EvalInv'
<1>1. ArtifactsFit'  BY DEF EvalInv, ArtifactsFit, Baseline
<1>2. scripts' \in [resumes : Nat, kills : Nat]  BY DEF EvalInv
<1> QED  BY <1>1, <1>2 DEF EvalInv

LEMMA ResumeCalibrationKeeps == ASSUME EvalInv, ResumeCalibration PROVE EvalInv'
<1> DEFINE missing == Missing(Calibrated.verdict)
           asked == 2 * Cardinality(missing)
<1>1. /\ artifacts.report # << >> /\ artifacts.calibration # << >>
      /\ calibration' = Calibrate("resume", missing, 0, asked, ResumeCap)
      /\ scripts' = [scripts EXCEPT !.resumes = @ + 1]
      /\ UNCHANGED <<evaluation, execution, artifacts>>
  BY DEF ResumeCalibration
<1>2. missing \in SUBSET Items  BY DEF Missing
<1>3. asked \in Nat
  <2>1. IsFiniteSet(Items)  BY FS_Interval, EvaluationAssumption DEF Items
  <2>2. IsFiniteSet(missing)  BY <1>2, <2>1, FS_Subset
  <2>3. Cardinality(missing) \in Nat  BY <2>2, FS_CardinalityType
  <2> HIDE DEF missing
  <2> QED  BY <2>3
<1>4. ResumeCap \in Nat /\ 0 \in Nat /\ "resume" \in Purposes  BY EvaluationAssumption DEF Purposes
<1> HIDE DEF missing, asked
<1>5. /\ calibration' \in Calibrations /\ calibration'.purpose = "resume"
      /\ calibration'.existing = 0 /\ calibration'.maxCost = ResumeCap
      /\ calibration'.calls = 0 /\ calibration'.cost = 0
  BY ONLY <1>1, <1>2, <1>3, <1>4, CalibrateDoes
<1>6. CalibrationFits'  BY <1>4, <1>5, RequestsAre DEF CalibrationFits
<1> QED  BY <1>1, <1>5, <1>6, CalibrationBegins

LEMMA QualifyJudgeKeeps == ASSUME EvalInv, QualifyJudge PROVE EvalInv'
<1> DEFINE calls == 2 * CalibrationItems
           cost == MaxRequests * CalibrationItems + 1
<1>1. /\ calibration' = Calibrate("profile", Items, 0, calls, cost)
      /\ scripts' = [scripts EXCEPT !.resumes = @ + 1]
      /\ UNCHANGED <<evaluation, execution, artifacts>>
  BY DEF QualifyJudge
<1>2. calls \in Nat /\ cost \in Nat  BY EvaluationAssumption, RequestsAre
<1>3. 0 \in Nat /\ "profile" \in Purposes /\ Items \in SUBSET Items  BY DEF Purposes
<1> HIDE DEF calls, cost
<1>4. calibration' \in Calibrations /\ calibration'.purpose = "profile"
  BY ONLY <1>1, <1>2, <1>3, CalibrateDoes
<1>5. CalibrationFits'  BY <1>4 DEF CalibrationFits
<1> QED  BY <1>1, <1>4, <1>5, CalibrationBegins

LEMMA MergeResumeKeeps == ASSUME EvalInv, MergeResume PROVE EvalInv'
<1> DEFINE verdict == Joined(Calibrated, calibration)
           calls == calibration.calls + Calibrated.calls
           cost == calibration.cost + Calibrated.cost
<1>1. /\ calibration.purpose = "resume" /\ UNCHANGED <<artifacts, scripts>>
      /\ execution' = Resumed(Baseline.execution, calibration, verdict)
      /\ evaluation' = [NoEvaluation EXCEPT !.results = Baseline.results,
                            !.cases = Baseline.cases, !.skip = Baseline.skip]
      /\ calibration' = [NoCalibration EXCEPT !.purpose = "merged", !.verdict = verdict,
                            !.calls = calls, !.cost = cost]
  BY DEF MergeResume
<1>2. /\ calibration \in Calibrations /\ calibration.cost <= ResumeCap + Overrun
      /\ artifacts.report # << >> /\ artifacts.calibration # << >>
  BY <1>1 DEF EvalInv, CalibrationFits
<1>3. /\ Baseline \in ReportFiles /\ Len(Baseline.results) <= Len(Baseline.cases)
      /\ Calibrated \in CalibrationFiles
  BY <1>2, FilesAre
<1>4. /\ verdict \in Verdicts /\ calls \in Nat /\ cost \in Nat
  BY <1>2, <1>3 DEF Joined, Verdicts, Calibrations, CalibrationFiles
<1>5. ExecutionFits(execution')
  <2>1. Baseline.execution \in Executions  BY <1>3 DEF ReportFiles
  <2> HIDE DEF verdict
  <2>2. /\ execution' \in Executions
        /\ execution'.cost = Baseline.execution.cost + calibration.cost
        /\ execution'.maxCost = Baseline.execution.cost + ResumeCap
        /\ execution'.resumed = TRUE
    BY ONLY <1>1, <1>2, <2>1, ResumedDoes
  <2>3. calibration.cost \in Nat /\ Baseline.execution.cost \in Nat
    BY <1>2, <2>1, CountersAre DEF Calibrations
  <2> QED  BY <1>2, <2>2, <2>3, RequestsAre DEF ExecutionFits
<1> HIDE DEF verdict, calls, cost
<1>6. EvaluationFits(evaluation') /\ evaluation'.stage = "off"
  <2>1. /\ Baseline.results \in Seq(CaseResults) /\ Baseline.cases \in Seq(Cases)
        /\ Baseline.skip \in BOOLEAN
    BY <1>3 DEF ReportFiles
  <2>2. NoEvaluation \in Evaluations /\ NoEvaluation.stage = "off"
    BY NothingFits DEF EvaluationFits, NoEvaluation
  <2>3. /\ evaluation' \in Evaluations /\ evaluation'.results = Baseline.results
        /\ evaluation'.cases = Baseline.cases /\ evaluation'.stage = "off"
    BY ONLY <1>1, <2>1, <2>2 DEF Evaluations
  <2> QED  BY <1>3, <2>3 DEF EvaluationFits, CaseStages
<1>7. calibration' \in Calibrations /\ calibration'.purpose = "merged"
  BY <1>1, <1>4, NothingFits DEF Calibrations, Purposes
<1>8. CalibrationFits'  BY <1>7 DEF CalibrationFits
<1>9. ArtifactsFit'  BY <1>1 DEF EvalInv, ArtifactsFit, Baseline
<1> QED  BY <1>1, <1>5, <1>6, <1>7, <1>8, <1>9 DEF EvalInv

\* Judging the saved answers spends nothing of the evaluation.
LEMMA SavedAnswersKeep ==
    ASSUME EvalInv, UNCHANGED <<evaluation, execution, artifacts, scripts>>,
           calibration' \in Calibrations, calibration'.purpose = "qualified"
    PROVE  EvalInv'
<1>1. CalibrationFits'  BY DEF CalibrationFits
<1>2. ArtifactsFit'  BY DEF EvalInv, ArtifactsFit, Baseline
<1> QED  BY <1>1, <1>2 DEF EvalInv

LEMMA PassGateKeeps == ASSUME EvalInv, PassGate PROVE EvalInv'
<1>1. /\ calibration' = [NoCalibration EXCEPT !.purpose = "qualified",
                             !.verdict = calibration.verdict]
      /\ UNCHANGED <<evaluation, execution, artifacts, scripts>>
  BY DEF PassGate
<1>2. calibration.verdict \in Verdicts  BY DEF EvalInv, CalibrationFits, Calibrations
<1>3. calibration' \in Calibrations /\ calibration'.purpose = "qualified"
  BY <1>1, <1>2, NothingFits DEF Calibrations, Purposes
<1> QED  BY <1>1, <1>3, SavedAnswersKeep

LEMMA JudgeSavedKeeps == ASSUME EvalInv, JudgeSaved PROVE EvalInv'
<1>1. artifacts' = artifacts /\ calibration.purpose = "qualified"  BY DEF JudgeSaved
<1>2. CASE ScriptEnds(0)
  <2>1. ArtifactsFit'  BY <1>1 DEF EvalInv, ArtifactsFit, Baseline
  <2> QED  BY <1>2, <2>1, ScriptEndsKeeps
<1>3. ASSUME NEW verdict \in JudgeScores,
             calibration' = [calibration EXCEPT !.judged = Append(@, verdict)],
             UNCHANGED <<evaluation, execution, scripts>>
      PROVE  EvalInv'
  <2>1. calibration \in Calibrations  BY DEF EvalInv, CalibrationFits
  <2> DEFINE judged == Append(calibration.judged, verdict)
  <2>2. judged \in Seq(JudgeScores)  BY <2>1 DEF Calibrations
  <2>3. calibration' = [calibration EXCEPT !.judged = judged]  BY <1>3
  <2> HIDE DEF judged
  <2>4. calibration' \in Calibrations /\ calibration'.purpose = calibration.purpose
    BY ONLY <2>1, <2>2, <2>3 DEF Calibrations
  <2> QED  BY <1>1, <1>3, <2>4, SavedAnswersKeep
<1> QED  BY <1>2, <1>3 DEF JudgeSaved

LEMMA WriteCompletionKeeps == ASSUME EvalInv, WriteCompletion PROVE EvalInv'
<1> DEFINE completed == /\ calibration.purpose = "qualified"
                        /\ "unscored" \notin Range(calibration.judged)
           content == [verdict |-> calibration.verdict, completed |-> completed]
           file == <<content>>
<1>1. ScriptEnds(0) /\ artifacts' = [artifacts EXCEPT !.completion = file]
  BY DEF WriteCompletion
<1>2. calibration.verdict \in Verdicts /\ artifacts \in Artifacts
  BY DEF EvalInv, CalibrationFits, Calibrations, ArtifactsFit
<1>3. completed \in BOOLEAN  BY Zenon
<1> HIDE DEF completed
<1>4. content \in CompletionFiles  BY <1>2, <1>3 DEF CompletionFiles
<1> HIDE DEF content
<1>5. file \in Seq(CompletionFiles) /\ Len(file) = 1  BY <1>4
<1> HIDE DEF file
<1>6. /\ artifacts' \in Artifacts /\ artifacts'.report = artifacts.report
      /\ artifacts'.calibration = artifacts.calibration /\ artifacts'.completion = file
  BY ONLY <1>1, <1>2, <1>5 DEF Artifacts
<1>7. Len(artifacts.calibration) <= 1  BY DEF EvalInv, ArtifactsFit
<1>8. ArtifactsFit'
  <2>1. Len(artifacts'.completion) <= 1
    <3>1. Len(artifacts'.completion) = 1  BY ONLY <1>5, <1>6, Zenon
    <3> QED  BY ONLY <3>1
  <2>2. Len(artifacts'.calibration) <= 1  BY ONLY <1>6, <1>7
  <2> QED  BY ONLY EvalInv, <1>6, <2>1, <2>2, ReportKeeps
<1> QED  BY <1>1, <1>8, ScriptEndsKeeps

-----------------------------------------------------------------------------
LEMMA EvalInitInv == EvalInit => EvalInv
<1> SUFFICES ASSUME EvalInit PROVE EvalInv
  OBVIOUS
<1>1. (CHOOSE b \in Budgets : TRUE) \in Budgets /\ "dry-run" \in Modes
  BY EvaluationAssumption DEF Modes
<1>2. ExecutionFits(execution) /\ execution.resumed = FALSE
  BY <1>1, NewExecutionFits DEF EvalInit
<1>3. EvaluationFits(evaluation) /\ CalibrationFits /\ calibration.purpose = "none"
  BY NothingFits DEF EvalInit, CalibrationFits
<1>4. ArtifactsFit  BY DEF EvalInit, ArtifactsFit, Artifacts
<1>5. scripts \in [resumes : Nat, kills : Nat]  BY DEF EvalInit
<1> QED  BY <1>2, <1>3, <1>4, <1>5 DEF EvalInv

LEMMA EvalStep == EvalInv /\ [EvalNext]_evalVars => EvalInv'
<1> SUFFICES ASSUME EvalInv, [EvalNext]_evalVars PROVE EvalInv'
  OBVIOUS
<1>1. CASE UNCHANGED evalVars
  BY <1>1 DEF evalVars, EvalInv, CalibrationFits, ArtifactsFit, Baseline
<1>2. CASE EvalNext
  BY <1>2, StartEvaluationKeeps, BeginCaseKeeps, RetrieveKeeps, AskCandidateKeeps,
     CandidateDoneKeeps, SkipObservationKeeps, StopJudgingKeeps, AskJudgeKeeps,
     JudgeDoneKeeps, AskEmbeddingKeeps, CloseCaseKeeps, EndEvaluationKeeps,
     CalibrateAfterRunKeeps, CalibrationStopsKeeps, ScoreItemKeeps, ItemFailsKeeps,
     MergeCalibrationKeeps, WriteReportKeeps, WriteCalibrationKeeps,
     ResumeCalibrationKeeps, MergeResumeKeeps, QualifyJudgeKeeps, PassGateKeeps,
     JudgeSavedKeeps, WriteCompletionKeeps, KillScriptKeeps, Zenon DEF EvalNext
<1> QED  BY <1>1, <1>2

\* Whatever the scripts of an evaluation do, what they have spent fits the limits they were
\* given: this is what the two theorems below follow from.
THEOREM EvalInvariant == EvalSpec => []EvalInv
<1> QED  BY EvalInitInv, EvalStep, PTL DEF EvalSpec

\* The type invariant of the evaluation scripts.
THEOREM EvalTypeCorrect == EvalSpec => []EvalTypeOK
<1>1. ASSUME EvalInv PROVE EvalTypeOK
  <2>1. /\ evaluation \in Evaluations /\ execution \in Executions
        /\ calibration \in Calibrations /\ artifacts \in Artifacts
        /\ Len(evaluation.results) <= Len(evaluation.cases)
        /\ Len(artifacts.report) <= 1 /\ Len(artifacts.calibration) <= 1
        /\ Len(artifacts.completion) <= 1
    BY <1>1 DEF EvalInv, EvaluationFits, ExecutionFits, CalibrationFits, ArtifactsFit
  <2>2. \A kind \in Kinds : execution.calls[kind] \in Nat
    BY <2>1, CountersAre
  <2>3. {execution.cost, calibration.cost, calibration.calls} \subseteq Nat
    BY <2>1, CountersAre DEF Calibrations
  <2>4. \A file \in DOMAIN artifacts : Len(artifacts[file]) <= 1
    BY <2>1 DEF Artifacts
  <2>5. evaluation.stage \in EvalStages /\ calibration.purpose \in Purposes
    BY <2>1 DEF Evaluations, Calibrations
  <2> QED  BY <2>1, <2>2, <2>3, <2>4, <2>5 DEF EvalTypeOK, EvalStages, CaseStages, Purposes
<1> QED  BY <1>1, EvalInvariant, PTL

\* Limits of calls and of cost are overrun by the repeated requests of one answer at most,
\* the evaluation and the calibration after it counted together (runner.py:1278-1363,
\* run_agent_semantic_evaluation.py:1090-1115): for every budget and every number of
\* retries, cases and resumes.
THEOREM BudgetsAreShared == EvalSpec => []BudgetIsShared
<1>1. ASSUME EvalInv PROVE BudgetIsShared
  <2> DEFINE more == IF calibration.purpose = "evaluation" THEN calibration.calls ELSE 0
             cost == IF calibration.purpose = "evaluation" THEN calibration.cost ELSE 0
  <2>1. /\ execution \in Executions /\ ExecutionFits(execution) /\ calibration \in Calibrations
    BY <1>1 DEF EvalInv, ExecutionFits, CalibrationFits
  <2>2. WithinCost(execution, cost)
    <3>1. calibration.cost \in Nat /\ execution.cost \in Nat
      BY <2>1, CountersAre DEF Calibrations
    <3>2. /\ execution.cost <= execution.maxCost + Overrun
          /\ calibration.purpose = "evaluation" =>
                calibration.cost + execution.cost <= execution.maxCost + Overrun
      BY <1>1, <2>1 DEF EvalInv, ExecutionFits, CalibrationFits
    <3>3. execution.cost + cost <= execution.maxCost + Overrun  BY <3>1, <3>2
    <3> QED  BY <3>3 DEF WithinCost
  <2>3. execution.resumed = FALSE => WithinCalls(execution, more)
    <3>1. "judge" \in Kinds  BY DEF Kinds
    <3>2. execution.calls.judge + 0 = execution.calls.judge  BY <2>1, CountersAre
    <3>3. calibration.calls \in Nat  BY <2>1 DEF Calibrations
    <3>4. execution.calls.judge + calibration.calls = calibration.calls + execution.calls.judge
      BY <2>1, <3>3, CountersAre
    <3> QED
      BY <1>1, <2>1, <3>1, <3>2, <3>4
      DEF EvalInv, ExecutionFits, CalibrationFits, WithinCalls
  <2>4. execution.resumed = TRUE \/ execution.resumed = FALSE  BY <2>1 DEF Executions
  <2> HIDE DEF more, cost
  <2>5. execution.resumed \/ WithinCalls(execution, more)  BY ONLY <2>3, <2>4, Zenon
  <2> QED  BY <2>2, <2>5 DEF BudgetIsShared, more, cost
<1> QED  BY <1>1, EvalInvariant, PTL

-----------------------------------------------------------------------------
(* The evaluation: what a report says of itself *)

\* What may have stopped an evaluation, and the reasons it gives for not being complete.
Stopped(x) == x.exhausted = TRUE \/ x.timedOut = TRUE
Explained(x) == x.complete = FALSE => Stopped(x) \/ x.errors # {}

\* The observations of the case in progress are the last of the stream the samples of the
\* judge are taken from.
OrdinalFits(e) ==
    LET before == Before(e.results, Len(e.results) + 1) IN
    IsFiniteSet(before) /\ e.ordinal = Cardinality(before) + Len(e.observations)

\* A result as Whole asks for it, and the observations of the case in progress.
Current(e) == e.cases[Len(e.results) + 1]
Scores(n) == [a \in 1 .. n |-> "scored"]
WholeIn(mode, cases, results, i) ==
    /\ Observes(cases[i], results[i])
    /\ cases[i].protocol = "text" =>
           \A p \in DOMAIN results[i].observations :
               results[i].observations[p].judged =
                   Scores(JudgeCount(mode, OrdinalOf(results, i, p)))
ToJudge(e, mode, p) == JudgeCount(mode, OrdinalAt(e, p))
JudgedBefore(e, mode, n) ==
    \A p \in DOMAIN e.observations :
        p < n => e.observations[p].judged = Scores(ToJudge(e, mode, p))

\* The case in progress: how many observations there are of it ...
StageFits(e, x) ==
    LET case == Current(e)
        n == Len(e.observations) IN
    /\ e.stage \in {"candidate", "judge", "embedding"} => case.protocol = "text"
    /\ e.stage = "retrieval" => case.protocol # "text" /\ n = 0
    /\ case.protocol # "text" => n <= 1
    /\ case.protocol = "text" /\ e.stage # "candidate" =>
           n = CandidateRepetitions \/ Stopped(x)
    /\ e.stage = "candidate" =>
           /\ n <= CandidateRepetitions /\ e.position = 1 /\ e.attempt = 0
           /\ \A p \in DOMAIN e.observations : e.observations[p].judged = << >>

\* ... and, as long as nothing is missing, how much of them is judged.
JudgeFits(e, mode) ==
    /\ e.position <= Len(e.observations) + 1 /\ JudgedBefore(e, mode, e.position)
    /\ e.attempt <= ToJudge(e, mode, e.position)
    /\ \A p \in DOMAIN e.observations :
           p >= e.position => e.observations[p].judged =
               Scores(IF p = e.position THEN e.attempt ELSE 0)
CaseFits(e, x) ==
    LET text == Current(e).protocol = "text"
        n == Len(e.observations) IN
    x.complete = TRUE =>
        /\ \A p \in DOMAIN e.observations : e.observations[p].error = FALSE
        /\ e.stage = "close" /\ ~text => n = 1
        /\ e.stage = "judge" => JudgeFits(e, x.mode)
        /\ e.stage \in {"embedding", "close"} /\ text /\ ~Stopped(x) =>
               JudgedBefore(e, x.mode, n + 1)

\* The cases behind: completed counts those that were not skipped, and as long as nothing
\* is missing these are whole.
ResultsFit(e, x) ==
    /\ x.completed <= Len(e.results)
    /\ x.completed = Len(e.results) =>
           \A i \in DOMAIN e.results : e.results[i].status # "skipped"
    /\ x.complete = TRUE =>
           \A i \in DOMAIN e.results : e.results[i].status # "skipped" =>
               WholeIn(x.mode, e.cases, e.results, i)
    /\ \A i \in DOMAIN e.results :
           e.results[i].status = "completed" =>
               \/ i = Len(e.results) /\ e.stage \in {"ending", "ended"}
               \/ Observes(e.cases[i], e.results[i])

RunFits(e, x) ==
    /\ e.stage \notin {"off", "ended"} =>
           /\ x.mode # "dry-run" /\ Explained(x)
           /\ OrdinalFits(e) /\ ResultsFit(e, x)
    /\ e.stage \notin CaseStages => e.observations = << >>
    /\ e.stage \in CaseStages => StageFits(e, x) /\ CaseFits(e, x)
    /\ e.stage = "ending" => x.complete = FALSE

\* The cases of an evaluation that is over, and of the report of one.
CasesDone(x, cases, results) ==
    /\ Len(results) <= Len(cases) /\ x.completed <= Len(cases)
    /\ x.complete = TRUE /\ x.mode # "dry-run" /\ x.resumed = FALSE =>
           Len(results) = Len(cases) /\ \A i \in DOMAIN results : WholeIn(x.mode, cases, results, i)
    /\ \A i \in DOMAIN results : results[i].status = "completed" /\ i < Len(results) =>
           Observes(cases[i], results[i])

\* What SaidAndDone asks of a report, but for the file of the calibration.
Honest(x, cases, results, skip, verdict) ==
    /\ CasesDone(x, cases, results)
    /\ x.complete = TRUE /\ x.mode = "live" /\ x.resumed = FALSE /\ skip = FALSE =>
           ScoredItems(verdict) = Items
    /\ x.complete = TRUE /\ x.resumed = TRUE => ScoredItems(verdict) = Items
    /\ x.complete = FALSE => \/ Stopped(x) \/ x.errors # {} \/ x.completed < Len(cases)
                             \/ ScoredItems(verdict) # Items

\* The evaluation that is over and has not been merged with its calibration.
OverFits ==
    evaluation.stage = "ended" /\ calibration.purpose \in {"none", "evaluation"} =>
        /\ CasesDone(execution, evaluation.cases, evaluation.results)
        /\ Explained(execution) \/ execution.completed < Len(evaluation.cases)

\* The calibration: as long as it is complete, the cases that are no longer to do are scored.
\* A resume asks for no case the file has a score of.
ScoresFit ==
    /\ calibration.purpose = "evaluation" =>
           /\ execution.mode = "live" /\ evaluation.skip = FALSE
           /\ calibration.complete = TRUE =>
                  Items \ calibration.todo \subseteq ScoredItems(calibration.verdict)
    /\ calibration.purpose = "resume" =>
           \A i \in ScoredItems(Calibrated.verdict) :
               i \notin calibration.todo /\ calibration.verdict[i] = "none"
    /\ calibration.purpose = "merged" =>
           Honest(execution, evaluation.cases, evaluation.results, evaluation.skip,
                  calibration.verdict)
    /\ calibration.purpose = "qualified" => ScoredItems(calibration.verdict) = Items
    /\ evaluation.stage \notin {"off", "ended"} => calibration.purpose = "none"

\* The files: of the report, of the calibration written after it, and of a qualification.
FilesFit ==
    /\ artifacts.report = << >> => artifacts.calibration = << >>
    /\ evaluation.stage # "off" /\ artifacts.report # << >> => calibration.purpose = "written"
    /\ calibration.purpose = "merged" /\ artifacts.calibration # << >> =>
           ScoredItems(Calibrated.verdict) \subseteq ScoredItems(calibration.verdict)
    /\ calibration.purpose = "written" =>
           artifacts.report # << >> /\ calibration.verdict = Baseline.verdict
    /\ artifacts.report # << >> =>
           Honest(Baseline.execution, Baseline.cases, Baseline.results, Baseline.skip,
                  Baseline.verdict)
    /\ << >> \notin {artifacts.report, artifacts.calibration} =>
           ScoredItems(Calibrated.verdict) \subseteq ScoredItems(Baseline.verdict)
    /\ artifacts.completion # << >> => (artifacts.completion[1].completed = TRUE =>
           ScoredItems(artifacts.completion[1].verdict) = Items)

HonestInv == RunFits(evaluation, execution) /\ OverFits /\ ScoresFit /\ FilesFit

-----------------------------------------------------------------------------
(* The stream of the observations *)

\* The observations before a case are those of the results before it, whatever follows.
LEMMA NothingBefore ==
    ASSUME NEW results
    PROVE  Before(results, 1) = {} /\ IsFiniteSet(Before(results, 1))
           /\ Cardinality(Before(results, 1)) = 0
<1>1. Before(results, 1) = {}  BY DEF Before
<1> QED  BY <1>1, FS_EmptySet

LEMMA BeforeStays ==
    ASSUME NEW results \in Seq(CaseResults), NEW result \in CaseResults,
           NEW i \in 1 .. Len(results) + 1
    PROVE  Before(Append(results, result), i) = Before(results, i)
<1> DEFINE more == Append(results, result)
<1>1. \A j \in 1 .. i - 1 : more[j] = results[j]  OBVIOUS
<1> HIDE DEF more
<1>2. Before(more, i) = Before(results, i)  BY <1>1 DEF Before
<1> QED  BY <1>2 DEF more

LEMMA OneMoreBefore ==
    ASSUME NEW results \in Seq(CaseResults), NEW result \in CaseResults,
           IsFiniteSet(Before(results, Len(results) + 1))
    PROVE  LET more == Append(results, result)
           IN  /\ IsFiniteSet(Before(more, Len(more) + 1))
               /\ Cardinality(Before(more, Len(more) + 1)) =
                      Cardinality(Before(results, Len(results) + 1)) + Len(result.observations)
<1> DEFINE more == Append(results, result)
           n == Len(results) + 1
           old == Before(results, n)
           new == {n} \X DOMAIN result.observations
<1>1. /\ n \in Nat /\ n \in 1 .. n /\ Len(more) = n /\ more[n] = result
      /\ \A j \in 1 .. n - 1 : more[j] = results[j]
  OBVIOUS
<1>2. /\ Len(result.observations) \in Nat
      /\ DOMAIN result.observations = 1 .. Len(result.observations)
  BY DEF CaseResults
<1>3. \A j : j \in 1 .. n <=> j \in 1 .. n - 1 \/ j = n  BY <1>1
<1> HIDE DEF more, n
<1>4. Before(more, n + 1) = old \cup new
  <2>1. (n + 1) - 1 = n  BY <1>1
  <2>2. Before(more, n + 1) = UNION {{j} \X DOMAIN more[j].observations : j \in 1 .. n}
    BY <2>1 DEF Before
  <2>3. old = UNION {{j} \X DOMAIN results[j].observations : j \in 1 .. n - 1}
    BY DEF Before
  <2> QED  BY <1>1, <1>3, <2>2, <2>3
<1>5. old \cap new = {}
  <2>1. \A j \in 1 .. n - 1 : j # n  BY <1>1
  <2> QED  BY <2>1 DEF Before
<1>6. IsFiniteSet(new) /\ Cardinality(new) = Len(result.observations)
  <2>1. IsFiniteSet(DOMAIN result.observations)
        /\ Cardinality(DOMAIN result.observations) = Len(result.observations)
    <3> DEFINE m == Len(result.observations)
    <3>1. m \in Nat /\ 1 \in Int /\ m \in Int  BY <1>2
    <3> HIDE DEF m
    <3>2. IsFiniteSet(1 .. m) /\ Cardinality(1 .. m) = m  BY <3>1, FS_Interval
    <3> QED  BY <1>2, <3>2 DEF m
  <2>2. IsFiniteSet({n}) /\ Cardinality({n}) = 1  BY FS_Singleton
  <2> DEFINE S == {n}
             T == DOMAIN result.observations
  <2> HIDE DEF S, T
  <2>3. IsFiniteSet(S \X T) /\ Cardinality(S \X T) = Cardinality(S) * Cardinality(T)
    BY <2>1, <2>2, FS_Product DEF S, T
  <2>4. Cardinality(S) = 1 /\ Cardinality(T) = Len(result.observations)
    BY <2>1, <2>2 DEF S, T
  <2> QED  BY <1>2, <2>3, <2>4 DEF S, T
<1> HIDE DEF old, new
<1>7. IsFiniteSet(old)  BY DEF old, n
<1>8. IsFiniteSet(old \cup new)
      /\ Cardinality(old \cup new) = Cardinality(old) + Cardinality(new) - 0
  <2>1. IsFiniteSet(new) /\ Cardinality({}) = 0  BY <1>6, FS_EmptySet
  <2>2. /\ IsFiniteSet(old \cup new)
        /\ Cardinality(old \cup new) =
               Cardinality(old) + Cardinality(new) - Cardinality(old \cap new)
    BY <1>7, <2>1, FS_Union
  <2> QED  BY <1>5, <2>1, <2>2
<1>9. Cardinality(old) \in Nat  BY <1>7, FS_CardinalityType
<1>10. Cardinality(old \cup new) = Cardinality(old) + Len(result.observations)
  BY <1>2, <1>6, <1>8, <1>9
<1> QED  BY <1>1, <1>4, <1>8, <1>10 DEF more, n, old

\* A result that is whole stays so when another one follows.
LEMMA WholeStays ==
    ASSUME NEW results \in Seq(CaseResults), NEW result \in CaseResults, NEW mode, NEW cases,
           NEW i \in DOMAIN results, WholeIn(mode, cases, results, i)
    PROVE  WholeIn(mode, cases, Append(results, result), i)
<1> DEFINE more == Append(results, result)
<1>1. more[i] = results[i] /\ i \in 1 .. Len(results) + 1  OBVIOUS
<1>2. Before(more, i) = Before(results, i)  BY <1>1, BeforeStays
<1> HIDE DEF more
<1>3. \A p : OrdinalOf(more, i, p) = OrdinalOf(results, i, p)  BY <1>2 DEF OrdinalOf
<1>4. WholeIn(mode, cases, more, i)  BY <1>1, <1>3 DEF WholeIn
<1> QED  BY <1>4 DEF more

\* The scores of an observation
LEMMA ScoresAre ==
    /\ Scores(0) = << >>
    /\ \A n \in Nat : Append(Scores(n), "scored") = Scores(n + 1)
<1>1. Scores(0) = << >>
  <2>1. Scores(0) \in Seq({"scored"}) /\ Len(Scores(0)) = 0  BY DEF Scores
  <2> QED  BY <2>1
<1>2. ASSUME NEW n \in Nat PROVE Append(Scores(n), "scored") = Scores(n + 1)
  <2>1. Scores(n) \in Seq({"scored"}) /\ Len(Scores(n)) = n  BY DEF Scores
  <2>2. \A a \in 1 .. n : Scores(n)[a] = "scored"  BY DEF Scores
  <2>3. \A a \in 1 .. n + 1 : Scores(n + 1)[a] = "scored"  BY DEF Scores
  <2>4. DOMAIN Scores(n + 1) = 1 .. n + 1 /\ Scores(n + 1) \in Seq({"scored"})
        /\ Len(Scores(n + 1)) = n + 1
    BY DEF Scores
  <2> DEFINE s == Append(Scores(n), "scored")
             t == Scores(n + 1)
  <2>5. s \in Seq({"scored"}) /\ Len(s) = n + 1 /\ \A a \in 1 .. n + 1 : s[a] = "scored"
    BY <2>1, <2>2
  <2> HIDE DEF s
  <2>6. t \in Seq({"scored"}) /\ Len(t) = n + 1 /\ \A a \in 1 .. n + 1 : t[a] = "scored"
    BY <2>3, <2>4
  <2> HIDE DEF t
  <2>7. s = t  BY <2>5, <2>6
  <2> QED  BY <2>7 DEF s, t
<1> QED  BY <1>1, <1>2

-----------------------------------------------------------------------------
(* The execution: what it says of itself stays *)

GoesOn(x, y) ==
    /\ y.mode = x.mode /\ y.completed = x.completed
    /\ y.complete = TRUE => x.complete = TRUE
    /\ Stopped(x) => Stopped(y)
    /\ Explained(x) => Explained(y)

\* A call that is not answered leaves the evaluation incomplete, and stops it unless it failed.
CallSays(call) ==
    /\ call.how \in {"answered", "refused", "late", "failed"}
    /\ call.how # "answered" => call.after.complete = FALSE
    /\ call.how \in {"refused", "late"} => Stopped(call.after)

LEMMA FailedGoesOn ==
    ASSUME NEW x \in Executions
    PROVE  /\ Failed(x) \in Executions /\ GoesOn(x, Failed(x))
           /\ Failed(x).complete = FALSE /\ Failed(x).errors # {}
<1>1. /\ Failed(x) \in Executions /\ Failed(x).complete = FALSE /\ Failed(x).errors # {}
      /\ Failed(x).mode = x.mode /\ Failed(x).completed = x.completed
      /\ Failed(x).exhausted = x.exhausted /\ Failed(x).timedOut = x.timedOut
  BY DEF Failed, Executions
<1> QED  BY <1>1 DEF GoesOn, Explained, Stopped

LEMMA LateGoesOn ==
    ASSUME NEW x \in Executions
    PROVE  LET y == [Failed(x) EXCEPT !.timedOut = TRUE]
           IN  GoesOn(x, y) /\ y.complete = FALSE /\ Stopped(y)
<1> DEFINE f == Failed(x)
           y == [f EXCEPT !.timedOut = TRUE]
<1>1. f \in Executions /\ GoesOn(x, f) /\ f.complete = FALSE /\ f.errors # {}
  BY FailedGoesOn
<1> HIDE DEF f
<1>2. /\ y.complete = f.complete /\ y.errors = f.errors /\ y.timedOut = TRUE
      /\ y.mode = f.mode /\ y.completed = f.completed
  BY <1>1 DEF Executions
<1> HIDE DEF y
<1>3. GoesOn(x, y) /\ y.complete = FALSE /\ Stopped(y)
  BY <1>1, <1>2 DEF GoesOn, Explained, Stopped
<1> QED  BY <1>3 DEF y, f

LEMMA ChargedGoesOn ==
    ASSUME NEW x \in Executions, NEW kind \in Kinds, NEW n \in Nat
    PROVE  GoesOn(x, Charged(x, kind, n))
<1> DEFINE calls == [x.calls EXCEPT ![kind] = x.calls[kind] + n]
           cost == IF x.mode = "offline" THEN x.cost ELSE x.cost + n * ReservedCost[kind]
           over == x.exhausted \/ x.calls[kind] + n > x.budget[kind] \/ cost >= x.budget.cost
           y == [x EXCEPT !.calls = calls, !.cost = cost, !.exhausted = over]
<1>1. calls[kind] = x.calls[kind] + n  BY CountersAre
<1>2. Charged(x, kind, n) = y  BY <1>1 DEF Charged
<1>3. over \in BOOLEAN /\ (x.exhausted = TRUE => over = TRUE)  BY Zenon
<1> HIDE DEF calls, cost, over
<1>4. /\ y.complete = x.complete /\ y.errors = x.errors /\ y.timedOut = x.timedOut
      /\ y.mode = x.mode /\ y.completed = x.completed /\ y.exhausted = over
  BY ONLY DEF Executions
<1> HIDE DEF y
<1>5. GoesOn(x, y)  BY ONLY <1>3, <1>4 DEF GoesOn, Explained, Stopped
<1> QED  BY <1>2, <1>5

LEMMA CallGoesOn ==
    ASSUME NEW x \in Executions, NEW kind \in Kinds, NEW call \in CallOutcomes(x, kind)
    PROVE  GoesOn(x, call.after) /\ CallSays(call)
<1>1. CASE Exceeded(x, kind)
  <2> DEFINE y == [x EXCEPT !.complete = FALSE, !.exhausted = TRUE]
  <2>1. call = [how |-> "refused", after |-> y]  BY <1>1 DEF CallOutcomes
  <2>2. /\ y.complete = FALSE /\ y.exhausted = TRUE
        /\ y.mode = x.mode /\ y.completed = x.completed
    BY DEF Executions
  <2> HIDE DEF y
  <2>3. call.how = "refused" /\ call.after = y  BY <2>1
  <2> QED  BY <2>2, <2>3 DEF GoesOn, Explained, Stopped, CallSays
<1>2. CASE ~Exceeded(x, kind)
  <2> DEFINE calls == [x.calls EXCEPT ![kind] = x.calls[kind] + 1]
             sent == [x EXCEPT !.calls[kind] = @ + 1]
             s1 == [x EXCEPT !.calls = calls]
  <2>1. sent \in Executions /\ GoesOn(x, sent)
    <3>1. calls \in [Kinds -> Nat]  BY CountersAre
    <3>2. sent = s1  OBVIOUS
    <3> HIDE DEF calls, sent
    <3>3. /\ s1 \in Executions /\ s1.complete = x.complete /\ s1.errors = x.errors
          /\ s1.timedOut = x.timedOut /\ s1.mode = x.mode /\ s1.completed = x.completed
          /\ s1.exhausted = x.exhausted
      BY ONLY <3>1, x \in Executions DEF Executions
    <3> HIDE DEF s1
    <3> QED  BY <3>2, <3>3 DEF GoesOn, Explained, Stopped
  <2> DEFINE answered == {[how |-> "answered", after |-> Charged(x, kind, n)] :
                             n \in Requests(x.mode, kind)}
             late == {[how |-> "late", after |-> [Failed(s) EXCEPT !.timedOut = TRUE]] :
                         s \in IF x.mode = "offline" THEN {x} ELSE {x, sent}}
             failed == IF x.mode = "offline" THEN {}
                       ELSE {[how |-> "failed", after |-> Failed(sent)]}
  <2>2. call \in answered \cup late \cup failed  BY <1>2 DEF CallOutcomes
  <2> HIDE DEF sent
  <2>3. CASE call \in answered
    <3>1. PICK n \in Requests(x.mode, kind) :
            call = [how |-> "answered", after |-> Charged(x, kind, n)]
      BY <2>3, Zenon
    <3>2. n \in Nat  BY RequestsAre DEF Requests
    <3>3. GoesOn(x, Charged(x, kind, n))  BY <3>2, ChargedGoesOn
    <3> DEFINE y == Charged(x, kind, n)
    <3> HIDE DEF y
    <3>4. call.how = "answered" /\ call.after = y  BY <3>1 DEF y
    <3> QED  BY <3>3, <3>4 DEF CallSays, y
  <2>4. CASE call \in late
    <3>1. PICK s \in IF x.mode = "offline" THEN {x} ELSE {x, sent} :
            call = [how |-> "late", after |-> [Failed(s) EXCEPT !.timedOut = TRUE]]
      BY <2>4, Zenon
    <3> DEFINE y == [Failed(s) EXCEPT !.timedOut = TRUE]
    <3>2. s \in {x, sent}  OBVIOUS
    <3>3. s \in Executions /\ (s = x \/ GoesOn(x, s))  BY <2>1, <3>2
    <3>4. GoesOn(s, y) /\ y.complete = FALSE /\ Stopped(y)  BY <3>3, LateGoesOn
    <3> HIDE DEF y
    <3>5. call.how = "late" /\ call.after = y  BY <3>1 DEF y
    <3> QED  BY <3>3, <3>4, <3>5 DEF GoesOn, CallSays
  <2>5. CASE call \in failed
    <3> DEFINE y == Failed(sent)
    <3>1. call = [how |-> "failed", after |-> y]  BY <2>5
    <3>2. GoesOn(sent, y) /\ y.complete = FALSE  BY <2>1, FailedGoesOn
    <3> HIDE DEF y
    <3>3. call.how = "failed" /\ call.after = y  BY <3>1
    <3> QED  BY <2>1, <3>2, <3>3 DEF GoesOn, CallSays
  <2> QED  BY <2>2, <2>3, <2>4, <2>5
<1> QED  BY <1>1, <1>2

-----------------------------------------------------------------------------
(* One step within a case *)

Same(e, y) == y.results = e.results /\ y.cases = e.cases /\ y.skip = e.skip

LEMMA CaseStaysHonest ==
    ASSUME EvalInv, HonestInv, evaluation.stage \in CaseStages, evaluation'.stage \in CaseStages,
           Same(evaluation, evaluation'), GoesOn(execution, execution'),
           OrdinalFits(evaluation'), StageFits(evaluation', execution'),
           CaseFits(evaluation', execution'), UNCHANGED <<calibration, artifacts, scripts>>
    PROVE  HonestInv'
<1>1. /\ evaluation.stage \notin {"off", "ended", "ending", "case"}
      /\ evaluation'.stage \notin {"off", "ended", "ending", "case"}
  BY DEF CaseStages
<1>2. ResultsFit(evaluation', execution')
  <2>1. ResultsFit(evaluation, execution)  BY <1>1 DEF HonestInv, RunFits
  <2> QED  BY <1>1, <2>1 DEF ResultsFit, Same, GoesOn
<1>3. RunFits(evaluation', execution')
  <2>1. execution.mode # "dry-run" /\ Explained(execution)
    BY <1>1 DEF HonestInv, RunFits
  <2> QED  BY <1>1, <1>2, <2>1 DEF RunFits, GoesOn
<1>4. OverFits'  BY <1>1 DEF OverFits
<1>5. calibration.purpose = "none"  BY <1>1 DEF HonestInv, ScoresFit
<1>6. ScoresFit'  BY <1>5 DEF HonestInv, ScoresFit
<1>7. FilesFit'  BY <1>1, <1>5 DEF HonestInv, FilesFit, Baseline, Calibrated
<1> QED  BY <1>3, <1>4, <1>6, <1>7 DEF HonestInv

\* What is known of the case in progress
LEMMA CaseIs ==
    ASSUME EvalInv, HonestInv, evaluation.stage \in CaseStages
    PROVE  /\ evaluation \in Evaluations /\ execution \in Executions
           /\ OrdinalFits(evaluation) /\ StageFits(evaluation, execution)
           /\ CaseFits(evaluation, execution)
<1>1. evaluation.stage \notin {"off", "ended"}  BY DEF CaseStages
<1> QED  BY <1>1, InCaseIs DEF HonestInv, RunFits

\* The observations, and their ordinals
LEMMA OrdinalStays ==
    ASSUME NEW e, OrdinalFits(e), NEW y, y.results = e.results, y.ordinal = e.ordinal,
           Len(y.observations) = Len(e.observations)
    PROVE  OrdinalFits(y) /\ \A mode, p : ToJudge(y, mode, p) = ToJudge(e, mode, p)
BY DEF OrdinalFits, ToJudge, OrdinalAt

LEMMA OrdinalGrows ==
    ASSUME NEW e \in Evaluations, OrdinalFits(e), NEW y, y.results = e.results,
           y.ordinal = e.ordinal + 1, Len(y.observations) = Len(e.observations) + 1
    PROVE  OrdinalFits(y)
<1> DEFINE before == Before(e.results, Len(e.results) + 1)
<1>1. IsFiniteSet(before) /\ e.ordinal = Cardinality(before) + Len(e.observations)
  BY DEF OrdinalFits
<1>2. Cardinality(before) \in Nat  BY <1>1, FS_CardinalityType
<1>3. Len(e.observations) \in Nat  BY DEF Evaluations
<1> HIDE DEF before
<1>4. y.ordinal = Cardinality(before) + Len(y.observations)  BY <1>1, <1>2, <1>3
<1> QED  BY <1>1, <1>4 DEF OrdinalFits, before

LEMMA CountsAre ==
    /\ \A mode, p, e : ToJudge(e, mode, p) \in Nat
    /\ CandidateRepetitions \in Nat \ {0}
<1>1. \A mode, ordinal : JudgeCount(mode, ordinal) \in Nat  BY DEF JudgeCount
<1> QED  BY <1>1, EvaluationAssumption DEF ToJudge

LEMMA ToHas ==
    ASSUME evaluation \in Evaluations, NEW stage \in EvalStages
    PROVE  /\ To(stage) \in Evaluations /\ Same(evaluation, To(stage)) /\ To(stage).stage = stage
           /\ To(stage).ordinal = evaluation.ordinal /\ To(stage).position = evaluation.position
           /\ To(stage).attempt = evaluation.attempt
           /\ To(stage).observations = evaluation.observations
BY DEF To, Same, Evaluations

LEMMA ObservedHas ==
    ASSUME NEW e \in Evaluations, NEW error \in BOOLEAN
    PROVE  LET y == Observed(e, error)
               n == Len(e.observations) + 1
           IN  /\ Same(e, y) /\ y.stage = e.stage /\ y.ordinal = e.ordinal + 1
               /\ y.position = e.position /\ y.attempt = e.attempt
               /\ DOMAIN y.observations = 1 .. n /\ Len(y.observations) = n
               /\ n \in 1 .. n /\ \A p \in 1 .. n : p \in DOMAIN e.observations \/ p = n
               /\ \A p \in DOMAIN e.observations :
                      p # n /\ y.observations[p] = e.observations[p]
               /\ y.observations[n].error = error /\ y.observations[n].judged = << >>
<1> DEFINE o == [error |-> error, judged |-> << >>]
           s == Append(e.observations, o)
           n == Len(e.observations) + 1
           y == Observed(e, error)
<1>1. o \in Observations /\ o.error = error /\ o.judged = << >>  BY DEF Observations
<1>2. e.observations \in Seq(Observations) /\ e.ordinal \in Nat  BY DEF Evaluations
<1>3. y = [e EXCEPT !.observations = s, !.ordinal = e.ordinal + 1]
  BY DEF Observed
<1> HIDE DEF o, y
<1>4. /\ DOMAIN s = 1 .. n /\ Len(s) = n /\ n \in 1 .. n
      /\ \A p \in 1 .. n : p \in DOMAIN e.observations \/ p = n
      /\ \A p \in DOMAIN e.observations : p # n /\ s[p] = e.observations[p]
      /\ s[n] = o
  BY <1>1, <1>2
<1> HIDE DEF s
<1>5. /\ Same(e, y) /\ y.stage = e.stage /\ y.ordinal = e.ordinal + 1
      /\ y.position = e.position /\ y.attempt = e.attempt /\ y.observations = s
  BY <1>3 DEF Evaluations, Same
<1> QED  BY <1>1, <1>4, <1>5 DEF y

LEMMA RetrieveHonest == ASSUME EvalInv, HonestInv, Retrieve PROVE HonestInv'
<1>1. evaluation.stage = "retrieval" /\ UNCHANGED <<calibration, artifacts, scripts>>
  BY DEF Retrieve, InCase
<1>2. evaluation.stage \in CaseStages  BY <1>1 DEF CaseStages
<1> DEFINE e == To("close")
           y == Observed(e, FALSE)
           r == [e EXCEPT !.reasons = @ \cup {"embedding_failed"}]
<1>3. /\ evaluation \in Evaluations /\ execution \in Executions
      /\ OrdinalFits(evaluation) /\ Current(evaluation).protocol # "text"
      /\ Len(evaluation.observations) = 0
      /\ CaseFits(evaluation, execution)
  BY <1>1, <1>2, CaseIs DEF StageFits
<1>4. /\ e \in Evaluations /\ Same(evaluation, e) /\ e.stage = "close"
      /\ e.ordinal = evaluation.ordinal /\ e.observations = evaluation.observations
  BY <1>3, ToHas DEF EvalStages, CaseStages
<1> HIDE DEF e
<1>5. /\ Same(e, r) /\ r.stage = e.stage /\ r.ordinal = e.ordinal
      /\ r.observations = e.observations
  BY <1>4 DEF Evaluations, Same
<1>6. /\ Same(e, y) /\ y.stage = e.stage /\ y.ordinal = e.ordinal + 1
      /\ DOMAIN y.observations = 1 .. 1 /\ Len(y.observations) = 1
      /\ y.observations[1].error = FALSE
  <2> DEFINE n == Len(e.observations) + 1
  <2>1. n = 1  BY <1>3, <1>4
  <2>2. /\ Same(e, y) /\ y.stage = e.stage /\ y.ordinal = e.ordinal + 1
        /\ DOMAIN y.observations = 1 .. n /\ Len(y.observations) = n
        /\ y.observations[n].error = FALSE
    BY ONLY <1>4, ObservedHas
  <2> HIDE DEF y, n
  <2> QED  BY <2>1, <2>2
<1> HIDE DEF y, r
<1>7. /\ evaluation' \in {y, r, e} /\ GoesOn(execution, execution')
      /\ execution'.complete = TRUE => evaluation' = y
  <2>1. CASE Case.available
    <3>1. PICK call \in CallOutcomes(execution, "embedding") :
            /\ execution' = call.after
            /\ evaluation' = CASE call.how = "answered" -> y
                               [] call.how = "failed" -> r
                               [] OTHER -> e
      BY <2>1 DEF Retrieve, e, y, r
    <3>2. GoesOn(execution, call.after) /\ CallSays(call)
      BY <1>3, CallGoesOn DEF Kinds
    <3> QED  BY <3>1, <3>2 DEF CallSays
  <2>2. CASE ~Case.available
    <3>1. evaluation' = y /\ execution' = execution  BY <2>2 DEF Retrieve, y, e
    <3> QED  BY <3>1 DEF GoesOn
  <2> QED  BY <2>1, <2>2
<1>8. OrdinalFits(evaluation')
  <2>1. OrdinalFits(e)  BY <1>3, <1>4, OrdinalStays DEF Same
  <2>2. OrdinalFits(r)  BY <1>5, <2>1, OrdinalStays DEF Same
  <2>3. OrdinalFits(y)
    <3>1. Len(y.observations) = Len(e.observations) + 1  BY <1>3, <1>4, <1>6
    <3> QED  BY <1>4, <1>6, <2>1, <3>1, OrdinalGrows DEF Same
  <2> QED  BY <1>7, <2>1, <2>2, <2>3
<1>9. /\ Same(evaluation, evaluation') /\ evaluation'.stage = "close"
      /\ Current(evaluation').protocol # "text"
      /\ Len(evaluation'.observations) <= 1
      /\ execution'.complete = TRUE =>
             Len(evaluation'.observations) = 1 /\ DOMAIN evaluation'.observations = 1 .. 1
             /\ evaluation'.observations[1].error = FALSE
  <2>1. /\ Len(e.observations) = 0 /\ Len(r.observations) = 0 /\ Len(y.observations) = 1
    BY <1>3, <1>4, <1>5, <1>6
  <2>2. Same(evaluation, evaluation') /\ evaluation'.stage = "close"
    BY <1>4, <1>5, <1>6, <1>7 DEF Same
  <2>3. Current(evaluation').protocol # "text"  BY <1>3, <2>2 DEF Same, Current
  <2>4. Len(evaluation'.observations) <= 1
    <3>1. Len(evaluation'.observations) \in {0, 1}  BY ONLY <1>7, <2>1
    <3> DEFINE n == Len(evaluation'.observations)
    <3> HIDE DEF n
    <3>2. n = 0 \/ n = 1  BY <3>1 DEF n
    <3>3. n <= 1  BY ONLY <3>2
    <3> QED  BY <3>3 DEF n
  <2>5. ASSUME execution'.complete = TRUE
        PROVE  Len(evaluation'.observations) = 1 /\ DOMAIN evaluation'.observations = 1 .. 1
               /\ evaluation'.observations[1].error = FALSE
    BY <1>6, <1>7, <2>5
  <2> QED  BY <2>2, <2>3, <2>4, <2>5
<1>10. StageFits(evaluation', execution') /\ CaseFits(evaluation', execution')
  BY <1>9 DEF StageFits, CaseFits
<1> QED  BY <1>1, <1>2, <1>7, <1>8, <1>9, <1>10, CaseStaysHonest DEF CaseStages

LEMMA AskCandidateHonest == ASSUME EvalInv, HonestInv, AskCandidate PROVE HonestInv'
<1>1. /\ evaluation.stage = "candidate" /\ UNCHANGED <<calibration, artifacts, scripts>>
      /\ Len(evaluation.observations) < CandidateRepetitions
  BY DEF AskCandidate, InCase
<1>2. evaluation.stage \in CaseStages  BY <1>1 DEF CaseStages
<1>3. /\ evaluation \in Evaluations /\ execution \in Executions
      /\ OrdinalFits(evaluation) /\ Current(evaluation).protocol = "text"
      /\ StageFits(evaluation, execution) /\ CaseFits(evaluation, execution)
  BY <1>1, <1>2, CaseIs DEF StageFits
<1> DEFINE e == To("judge")
           n == Len(evaluation.observations) + 1
<1>4. PICK call \in CallOutcomes(execution, "candidate") :
        /\ execution' = call.after
        /\ evaluation' = CASE call.how = "answered" -> Observed(evaluation, FALSE)
                           [] call.how = "failed" -> Observed(evaluation, TRUE)
                           [] OTHER -> e
  BY DEF AskCandidate
<1>5. GoesOn(execution, execution') /\ CallSays(call)
  BY <1>3, <1>4, CallGoesOn DEF Kinds
<1>6. CASE call.how \in {"answered", "failed"}
  <2>1. PICK error \in BOOLEAN :
          /\ evaluation' = Observed(evaluation, error)
          /\ call.how = "answered" => error = FALSE
    BY <1>4, <1>6
  <2>2. /\ Same(evaluation, evaluation') /\ evaluation'.stage = "candidate"
        /\ evaluation'.ordinal = evaluation.ordinal + 1
        /\ evaluation'.position = evaluation.position
        /\ evaluation'.attempt = evaluation.attempt
        /\ DOMAIN evaluation'.observations = 1 .. n /\ Len(evaluation'.observations) = n
        /\ n \in 1 .. n /\ \A p \in 1 .. n : p \in DOMAIN evaluation.observations \/ p = n
        /\ \A p \in DOMAIN evaluation.observations :
               p # n /\ evaluation'.observations[p] = evaluation.observations[p]
        /\ evaluation'.observations[n].error = error
        /\ evaluation'.observations[n].judged = << >>
    BY <1>1, <1>3, <2>1, ObservedHas
  <2>3. OrdinalFits(evaluation')
    BY <1>3, <2>2, OrdinalGrows DEF Same
  <2>4. Current(evaluation').protocol = "text"  BY <1>3, <2>2 DEF Same, Current
  <2>5. n <= CandidateRepetitions
    <3>1. Len(evaluation.observations) \in Nat  BY <1>3 DEF Evaluations
    <3> QED  BY <1>1, <3>1, CountsAre
  <2> HIDE DEF n
  <2>6. StageFits(evaluation', execution')
    <3>1. /\ evaluation.position = 1 /\ evaluation.attempt = 0
          /\ \A p \in DOMAIN evaluation.observations : evaluation.observations[p].judged = << >>
      BY <1>1, <1>3 DEF StageFits
    <3>2. \A p \in DOMAIN evaluation'.observations : evaluation'.observations[p].judged = << >>
      BY <2>2, <3>1
    <3> QED  BY <2>2, <2>4, <2>5, <3>1, <3>2 DEF StageFits
  <2>7. CaseFits(evaluation', execution')
    <3>1. ASSUME execution'.complete = TRUE
          PROVE  \A p \in DOMAIN evaluation'.observations :
                     evaluation'.observations[p].error = FALSE
      <4>1. execution.complete = TRUE /\ error = FALSE
        BY <1>4, <1>5, <2>1, <3>1 DEF GoesOn, CallSays
      <4>2. \A p \in DOMAIN evaluation.observations : evaluation.observations[p].error = FALSE
        BY <1>3, <4>1 DEF CaseFits
      <4> QED  BY <2>2, <4>1, <4>2
    <3> QED  BY <2>2, <3>1 DEF CaseFits
  <2> QED  BY <1>1, <1>2, <1>5, <2>2, <2>3, <2>6, <2>7, CaseStaysHonest
<1>7. CASE call.how \notin {"answered", "failed"}
  <2>1. evaluation' = e  BY <1>4, <1>7
  <2>2. /\ Same(evaluation, evaluation') /\ evaluation'.stage = "judge"
        /\ evaluation'.ordinal = evaluation.ordinal
        /\ evaluation'.observations = evaluation.observations
    BY <1>3, <2>1, ToHas DEF EvalStages, CaseStages
  <2>3. execution'.complete = FALSE /\ Stopped(execution')
    BY <1>4, <1>5, <1>7 DEF CallSays
  <2>4. Current(evaluation').protocol = "text"  BY <1>3, <2>2 DEF Same, Current
  <2>5. StageFits(evaluation', execution') /\ CaseFits(evaluation', execution')
    BY <2>2, <2>3, <2>4 DEF StageFits, CaseFits
  <2>6. OrdinalFits(evaluation')  BY <1>3, <2>2, OrdinalStays DEF Same
  <2> QED  BY <1>1, <1>2, <1>5, <2>2, <2>5, <2>6, CaseStaysHonest DEF CaseStages
<1> QED  BY <1>6, <1>7

\* Nothing is judged of the first observation yet.
LEMMA JudgingBegins ==
    ASSUME NEW e \in Evaluations, NEW y, NEW mode, y.position = 1, y.attempt = 0,
           y.observations = e.observations,
           \A p \in DOMAIN e.observations : e.observations[p].judged = << >>
    PROVE  JudgeFits(y, mode)
<1>1. /\ Len(y.observations) \in Nat /\ ToJudge(y, mode, 1) \in Nat
      /\ \A p \in DOMAIN y.observations : p \in Nat /\ p >= 1 /\ ~(p < 1)
  BY CountsAre DEF Evaluations
<1>2. \A p \in DOMAIN y.observations : y.observations[p].judged = Scores(0)
  BY ScoresAre
<1> QED  BY <1>1, <1>2 DEF JudgeFits, JudgedBefore

LEMMA CandidateDoneHonest == ASSUME EvalInv, HonestInv, CandidateDone PROVE HonestInv'
<1> DEFINE n == Len(evaluation.observations)
           all == execution.complete /\ n = CandidateRepetitions
<1>1. /\ evaluation.stage = "candidate" /\ UNCHANGED <<calibration, artifacts, scripts>>
      /\ execution' = [execution EXCEPT !.complete = all] /\ evaluation' = To("judge")
      /\ n = CandidateRepetitions \/ execution.exhausted = TRUE
  BY DEF CandidateDone, InCase
<1>2. evaluation.stage \in CaseStages  BY <1>1 DEF CaseStages
<1>3. /\ evaluation \in Evaluations /\ execution \in Executions
      /\ OrdinalFits(evaluation) /\ Current(evaluation).protocol = "text"
      /\ StageFits(evaluation, execution) /\ CaseFits(evaluation, execution)
  BY <1>1, <1>2, CaseIs DEF StageFits
<1>4. /\ Same(evaluation, evaluation') /\ evaluation'.stage = "judge"
      /\ evaluation'.ordinal = evaluation.ordinal /\ evaluation'.position = evaluation.position
      /\ evaluation'.attempt = evaluation.attempt
      /\ evaluation'.observations = evaluation.observations
  BY <1>1, <1>3, ToHas DEF EvalStages, CaseStages
<1>5. all \in BOOLEAN /\ (all = TRUE => execution.complete = TRUE) 
      /\ (execution.complete = TRUE /\ n = CandidateRepetitions => all = TRUE)
  BY Zenon
<1> HIDE DEF all
<1>6. /\ execution'.complete = all /\ execution'.errors = execution.errors
      /\ execution'.timedOut = execution.timedOut /\ execution'.mode = execution.mode
      /\ execution'.completed = execution.completed
      /\ execution'.exhausted = execution.exhausted /\ execution.complete \in BOOLEAN
  BY ONLY <1>1, <1>3, <1>5 DEF Executions
<1>7. GoesOn(execution, execution')
  <2>1. Stopped(execution) => Stopped(execution')  BY <1>6 DEF Stopped
  <2>2. Explained(execution) => Explained(execution')
    <3>1. CASE n = CandidateRepetitions
      <4>1. execution'.complete = FALSE => execution.complete = FALSE
        BY <1>5, <1>6, <3>1
      <4> QED  BY <1>6, <4>1 DEF Explained, Stopped
    <3>2. CASE n # CandidateRepetitions
      BY <1>1, <1>6, <3>2 DEF Explained, Stopped
    <3> QED  BY <3>1, <3>2
  <2> QED  BY <1>5, <1>6, <2>1, <2>2 DEF GoesOn
<1>8. Current(evaluation').protocol = "text"  BY <1>3, <1>4 DEF Same, Current
<1>9. OrdinalFits(evaluation')  BY <1>3, <1>4, OrdinalStays DEF Same
<1>10. StageFits(evaluation', execution')
  BY <1>1, <1>4, <1>6, <1>8 DEF StageFits, Stopped
<1>11. CaseFits(evaluation', execution')
  <2>1. JudgeFits(evaluation', execution'.mode)
    BY <1>1, <1>3, <1>4, JudgingBegins DEF StageFits
  <2>2. execution'.complete = TRUE => execution.complete = TRUE  BY <1>7 DEF GoesOn
  <2> QED  BY <1>3, <1>4, <2>1, <2>2 DEF CaseFits
<1> QED  BY <1>1, <1>2, <1>4, <1>7, <1>9, <1>10, <1>11, CaseStaysHonest DEF CaseStages

\* The case in progress is being judged.
LEMMA JudgingIs ==
    ASSUME EvalInv, HonestInv, evaluation.stage = "judge"
    PROVE  /\ evaluation.stage \in CaseStages
           /\ evaluation \in Evaluations /\ execution \in Executions
           /\ OrdinalFits(evaluation) /\ Current(evaluation).protocol = "text"
           /\ Len(evaluation.observations) = CandidateRepetitions \/ Stopped(execution)
           /\ CaseFits(evaluation, execution)
           /\ execution.complete = TRUE =>
                  /\ \A p \in DOMAIN evaluation.observations :
                         evaluation.observations[p].error = FALSE
                  /\ JudgeFits(evaluation, execution.mode)
<1>1. evaluation.stage \in CaseStages  BY DEF CaseStages
<1>2. StageFits(evaluation, execution) /\ CaseFits(evaluation, execution)  BY <1>1, CaseIs
<1>3. /\ Current(evaluation).protocol = "text"
      /\ Len(evaluation.observations) = CandidateRepetitions \/ Stopped(execution)
  BY <1>2 DEF StageFits
<1>4. execution.complete = TRUE =>
          /\ \A p \in DOMAIN evaluation.observations : evaluation.observations[p].error = FALSE
          /\ JudgeFits(evaluation, execution.mode)
  BY <1>2 DEF CaseFits
<1> QED  BY <1>1, <1>2, <1>3, <1>4, CaseIs

\* Judging goes on or ends: what is left to show of a step.
LEMMA JudgingGoesOn ==
    ASSUME EvalInv, HonestInv, evaluation.stage = "judge",
           GoesOn(execution, execution'), UNCHANGED <<calibration, artifacts, scripts>>,
           Same(evaluation, evaluation'), evaluation'.ordinal = evaluation.ordinal,
           Len(evaluation'.observations) = Len(evaluation.observations),
           DOMAIN evaluation'.observations = DOMAIN evaluation.observations,
           \A p \in DOMAIN evaluation.observations :
               evaluation'.observations[p].error = evaluation.observations[p].error,
           evaluation'.stage \in {"judge", "embedding"},
           execution'.complete = TRUE =>
               IF evaluation'.stage = "judge" THEN JudgeFits(evaluation', execution'.mode)
               ELSE Stopped(execution') \/
                    JudgedBefore(evaluation', execution'.mode,
                                 Len(evaluation'.observations) + 1)
    PROVE  HonestInv'
<1>1. /\ evaluation.stage \in CaseStages /\ OrdinalFits(evaluation)
      /\ Current(evaluation).protocol = "text"
      /\ Len(evaluation.observations) = CandidateRepetitions \/ Stopped(execution)
      /\ execution.complete = TRUE => \A p \in DOMAIN evaluation.observations :
                                          evaluation.observations[p].error = FALSE
  BY JudgingIs
<1>2. Current(evaluation').protocol = "text"  BY <1>1 DEF Same, Current
<1>3. OrdinalFits(evaluation')  BY <1>1, OrdinalStays DEF Same
<1>4. StageFits(evaluation', execution')  BY <1>1, <1>2 DEF StageFits, GoesOn
<1>5. CaseFits(evaluation', execution')
  <2>1. execution'.complete = TRUE => execution.complete = TRUE  BY DEF GoesOn
  <2> QED  BY <1>1, <1>2, <2>1 DEF CaseFits
<1> QED  BY <1>1, <1>3, <1>4, <1>5, CaseStaysHonest DEF CaseStages

LEMMA StopJudgingHonest == ASSUME EvalInv, HonestInv, StopJudging PROVE HonestInv'
<1>1. /\ evaluation.stage = "judge" /\ UNCHANGED <<calibration, artifacts, scripts>>
      /\ execution' = [execution EXCEPT !.complete = FALSE] /\ evaluation' = To("embedding")
      /\ execution.exhausted = TRUE
  BY DEF StopJudging, Judging, InCase
<1>2. evaluation \in Evaluations /\ execution \in Executions  BY <1>1, JudgingIs
<1>3. /\ execution'.complete = FALSE /\ execution'.mode = execution.mode
      /\ execution'.completed = execution.completed
      /\ execution'.exhausted = execution.exhausted
  BY <1>1, <1>2 DEF Executions
<1>4. GoesOn(execution, execution')  BY <1>1, <1>3 DEF GoesOn, Explained, Stopped
<1>5. /\ Same(evaluation, evaluation') /\ evaluation'.stage = "embedding"
      /\ evaluation'.ordinal = evaluation.ordinal
      /\ evaluation'.observations = evaluation.observations
  BY <1>1, <1>2, ToHas DEF EvalStages, CaseStages
<1> QED  BY <1>1, <1>3, <1>4, <1>5, JudgingGoesOn

LEMMA JudgeDoneHonest == ASSUME EvalInv, HonestInv, JudgeDone PROVE HonestInv'
<1> DEFINE n == Len(evaluation.observations)
<1>1. /\ evaluation.stage = "judge" /\ UNCHANGED <<execution, calibration, artifacts, scripts>>
      /\ evaluation' = To("embedding")
      /\ execution.timedOut = TRUE \/ evaluation.position > n
  BY DEF JudgeDone, InCase
<1>2. evaluation \in Evaluations /\ execution \in Executions /\ OrdinalFits(evaluation)
  BY <1>1, JudgingIs
<1>3. GoesOn(execution, execution')  BY <1>1 DEF GoesOn
<1>4. /\ Same(evaluation, evaluation') /\ evaluation'.stage = "embedding"
      /\ evaluation'.ordinal = evaluation.ordinal
      /\ evaluation'.observations = evaluation.observations
  BY <1>1, <1>2, ToHas DEF EvalStages, CaseStages
<1>5. ASSUME execution'.complete = TRUE
      PROVE  Stopped(execution') \/ JudgedBefore(evaluation', execution'.mode, n + 1)
  <2>1. CASE execution.timedOut = TRUE  BY <1>1, <2>1 DEF Stopped
  <2>2. CASE evaluation.position > n
    <3>1. JudgeFits(evaluation, execution.mode)  BY <1>1, <1>5, JudgingIs
    <3>2. n \in Nat /\ evaluation.position \in Nat  BY <1>2 DEF Evaluations
    <3>3. evaluation.position = n + 1  BY <2>2, <3>1, <3>2 DEF JudgeFits
    <3>4. JudgedBefore(evaluation, execution.mode, n + 1)  BY <3>1, <3>3 DEF JudgeFits
    <3>5. \A mode, p : ToJudge(evaluation', mode, p) = ToJudge(evaluation, mode, p)
      BY <1>2, <1>4, OrdinalStays DEF Same
    <3> QED  BY <1>1, <1>4, <3>4, <3>5 DEF JudgedBefore
  <2> QED  BY <1>1, <2>1, <2>2
<1> QED  BY <1>1, <1>3, <1>4, <1>5, JudgingGoesOn

\* The observation at the position is judged: the next one is the one to judge.
LEMMA NextIsJudged ==
    ASSUME NEW e, NEW y, NEW mode, e.observations \in Seq(Observations),
           e.position \in Nat \ {0}, e.position <= Len(e.observations),
           \A p \in DOMAIN e.observations :
               p >= e.position => e.observations[p].judged =
                   Scores(IF p = e.position THEN ToJudge(e, mode, p) ELSE 0),
           JudgedBefore(e, mode, e.position),
           y.observations = e.observations, y.position = e.position + 1, y.attempt = 0,
           \A p : ToJudge(y, mode, p) = ToJudge(e, mode, p)
    PROVE  JudgeFits(y, mode)
<1> DEFINE s == e.observations
           k == e.position
<1>1. /\ s \in Seq(Observations) /\ Len(s) \in Nat /\ k \in Nat /\ k + 1 <= Len(s) + 1
      /\ \A p \in DOMAIN s : p \in Nat
  OBVIOUS
<1>2. 0 <= ToJudge(y, mode, k + 1)  BY CountsAre
<1>3. \A p \in DOMAIN s : p < k => s[p].judged = Scores(ToJudge(y, mode, p))
  BY DEF JudgedBefore
<1>4. \A p \in DOMAIN s : p >= k =>
          s[p].judged = Scores(IF p = k THEN ToJudge(y, mode, p) ELSE 0)
  OBVIOUS
<1>5. y.observations = s /\ y.position = k + 1 /\ y.attempt = 0  OBVIOUS
<1> HIDE DEF s, k
<1>6. ASSUME NEW p \in DOMAIN s, p < k + 1
      PROVE  s[p].judged = Scores(ToJudge(y, mode, p))
  <2>1. p \in Nat /\ (p < k \/ p = k)  BY <1>1, <1>6
  <2> QED  BY <1>1, <1>3, <1>4, <2>1
<1>7. ASSUME NEW p \in DOMAIN s, p >= k + 1
      PROVE  s[p].judged = Scores(0)
  <2>1. p >= k /\ p # k  BY <1>1, <1>7
  <2> QED  BY <1>4, <2>1
<1>8. JudgedBefore(y, mode, y.position)  BY <1>5, <1>6 DEF JudgedBefore
<1> QED  BY <1>1, <1>2, <1>5, <1>7, <1>8 DEF JudgeFits

LEMMA SkipObservationHonest == ASSUME EvalInv, HonestInv, SkipObservation PROVE HonestInv'
<1>1. /\ evaluation.stage = "judge" /\ UNCHANGED <<execution, calibration, artifacts, scripts>>
      /\ evaluation' = [evaluation EXCEPT !.position = @ + 1]
      /\ ToJudge(evaluation, execution.mode, evaluation.position) = 0
      /\ evaluation.position <= Len(evaluation.observations)
  BY DEF SkipObservation, Judging, InCase, Owed, ToJudge
<1>2. /\ evaluation \in Evaluations /\ execution \in Executions /\ OrdinalFits(evaluation)
      /\ evaluation.position \in Nat /\ Len(evaluation.observations) \in Nat
      /\ evaluation.attempt \in Nat
  BY <1>1, JudgingIs DEF Evaluations
<1>3. GoesOn(execution, execution')  BY <1>1 DEF GoesOn
<1>4. /\ Same(evaluation, evaluation') /\ evaluation'.stage = "judge"
      /\ evaluation'.ordinal = evaluation.ordinal
      /\ evaluation'.position = evaluation.position + 1
      /\ evaluation'.attempt = evaluation.attempt
      /\ evaluation'.observations = evaluation.observations
  BY <1>1, <1>2 DEF Evaluations, Same
<1>5. ASSUME execution.complete = TRUE
      PROVE  JudgeFits(evaluation', execution.mode)
  <2>1. JudgeFits(evaluation, execution.mode)  BY <1>1, <1>5, JudgingIs
  <2>2. \A mode, p : ToJudge(evaluation', mode, p) = ToJudge(evaluation, mode, p)
    BY <1>2, <1>4, OrdinalStays DEF Same
  <2>3. evaluation.attempt = 0  BY <1>1, <1>2, <2>1 DEF JudgeFits
  <2>4. /\ JudgedBefore(evaluation, execution.mode, evaluation.position)
        /\ \A p \in DOMAIN evaluation.observations :
               p >= evaluation.position => evaluation.observations[p].judged =
                   Scores(IF p = evaluation.position
                          THEN ToJudge(evaluation, execution.mode, p) ELSE 0)
    BY <1>1, <2>1, <2>3 DEF JudgeFits
  <2>5. evaluation.observations \in Seq(Observations) /\ evaluation.position \in Nat \ {0}
    BY <1>2 DEF Evaluations
  <2> QED  BY <1>1, <1>4, <2>2, <2>3, <2>4, <2>5, NextIsJudged
<1> QED  BY <1>1, <1>3, <1>4, <1>5, JudgingGoesOn

LEMMA ScoredHas ==
    ASSUME NEW e \in Evaluations, NEW verdict \in JudgeScores, e.position <= Len(e.observations)
    PROVE  LET y == Scored(e, verdict)
           IN  /\ y.observations \in Seq(Observations)
               /\ Same(e, y) /\ y.stage = e.stage /\ y.ordinal = e.ordinal
               /\ y.position = e.position /\ y.attempt = e.attempt + 1
               /\ Len(y.observations) = Len(e.observations)
               /\ DOMAIN y.observations = DOMAIN e.observations
               /\ e.position \in DOMAIN e.observations
               /\ \A p \in DOMAIN e.observations :
                      /\ y.observations[p].error = e.observations[p].error
                      /\ p # e.position => y.observations[p] = e.observations[p]
               /\ y.observations[e.position].judged =
                      Append(e.observations[e.position].judged, verdict)
<1> DEFINE o == e.observations[e.position]
           t == Append(o.judged, verdict)
           q == [o EXCEPT !.judged = t]
           s == [e.observations EXCEPT ![e.position] = q]
           y == Scored(e, verdict)
<1>1. /\ e.position \in 1 .. Len(e.observations) /\ e.attempt + 1 \in Nat
      /\ e.observations \in Seq(Observations)
      /\ e.position \in DOMAIN e.observations
  BY DEF Evaluations
<1>2. o \in Observations  BY <1>1
<1>3. t \in Seq(JudgeScores)  BY <1>2 DEF Observations
<1>4. y = [e EXCEPT !.observations = s, !.attempt = e.attempt + 1]
  BY DEF Scored
<1> HIDE DEF t, y
<1>5. q \in Observations /\ q.judged = t /\ q.error = o.error
  BY <1>2, <1>3 DEF Observations
<1> HIDE DEF q
<1>6. /\ s \in Seq(Observations) /\ Len(s) = Len(e.observations)
      /\ DOMAIN s = DOMAIN e.observations /\ s[e.position] = q
      /\ \A p \in DOMAIN e.observations : p # e.position => s[p] = e.observations[p]
  BY <1>1, <1>5
<1> HIDE DEF s
<1>7. /\ Same(e, y) /\ y.stage = e.stage /\ y.ordinal = e.ordinal
      /\ y.position = e.position /\ y.attempt = e.attempt + 1 /\ y.observations = s
  BY <1>4 DEF Evaluations, Same
<1>8. \A p \in DOMAIN e.observations : s[p].error = e.observations[p].error
  BY <1>5, <1>6
<1> HIDE DEF o
<1>9. /\ y.observations[e.position].judged = Append(e.observations[e.position].judged, verdict)
  BY <1>5, <1>6, <1>7 DEF t, o
<1> QED  BY <1>1, <1>6, <1>7, <1>8, <1>9 DEF y

LEMMA NextHas ==
    ASSUME NEW e, InTheCase(e), NEW x
    PROVE  LET y == NextPosition(e, x)
           IN  /\ Same(e, y) /\ y.ordinal = e.ordinal /\ y.observations = e.observations
               /\ Stopped(x) => y.stage = "embedding"
               /\ ~Stopped(x) => /\ y.stage = e.stage /\ y.position = e.position + 1
                                 /\ y.attempt = 0
<1> DEFINE y == NextPosition(e, x)
<1>1. e \in Evaluations  BY DEF InTheCase
<1>2. CASE Stopped(x)
  <2>1. y = [e EXCEPT !.stage = "embedding"]  BY <1>2 DEF NextPosition, Stopped
  <2> HIDE DEF y
  <2> QED  BY <1>1, <1>2, <2>1 DEF Evaluations, Same, y
<1>3. CASE ~Stopped(x)
  <2>1. y = [e EXCEPT !.position = e.position + 1, !.attempt = 0]
    BY <1>3 DEF NextPosition, Stopped
  <2> HIDE DEF y
  <2> QED  BY <1>1, <1>3, <2>1 DEF Evaluations, Same, y
<1> QED  BY <1>2, <1>3

\* One score more of the observation at the position.
LEMMA ScoredFits ==
    ASSUME NEW e \in Evaluations, NEW y, NEW mode, e.position <= Len(e.observations),
           JudgeFits(e, mode), e.attempt < ToJudge(e, mode, e.position),
           y.position = e.position, y.attempt = e.attempt + 1,
           Len(y.observations) = Len(e.observations),
           DOMAIN y.observations = DOMAIN e.observations,
           e.position \in DOMAIN e.observations,
           \A p \in DOMAIN e.observations :
               p # e.position => y.observations[p] = e.observations[p],
           y.observations[e.position].judged =
               Append(e.observations[e.position].judged, "scored"),
           \A p : ToJudge(y, mode, p) = ToJudge(e, mode, p)
    PROVE  JudgeFits(y, mode)
<1>1. /\ e.position \in Nat /\ e.attempt \in Nat /\ Len(e.observations) \in Nat
      /\ \A p \in DOMAIN e.observations : p \in Nat
  BY DEF Evaluations
<1>2. \A p : ToJudge(e, mode, p) \in Nat  BY CountsAre
<1>3. y.observations[e.position].judged = Scores(e.attempt + 1)
  <2>1. e.observations[e.position].judged = Scores(e.attempt)  BY <1>1 DEF JudgeFits
  <2> QED  BY <1>1, <2>1, ScoresAre
<1>4. JudgedBefore(y, mode, y.position)
  <2>1. ASSUME NEW p \in DOMAIN e.observations, p < e.position
        PROVE  y.observations[p].judged = Scores(ToJudge(y, mode, p))
    <3>1. p # e.position  BY <1>1, <2>1
    <3> QED  BY <2>1, <3>1 DEF JudgeFits, JudgedBefore
  <2> QED  BY <2>1 DEF JudgedBefore
<1>5. ASSUME NEW p \in DOMAIN e.observations, p >= e.position
      PROVE  y.observations[p].judged = Scores(IF p = e.position THEN y.attempt ELSE 0)
  BY <1>3, <1>5 DEF JudgeFits
<1>6. y.attempt <= ToJudge(y, mode, y.position)  BY <1>1, <1>2
<1>7. y.position <= Len(y.observations) + 1  BY <1>1
<1> QED  BY <1>4, <1>5, <1>6, <1>7 DEF JudgeFits

LEMMA AskJudgeHonest == ASSUME EvalInv, HonestInv, AskJudge PROVE HonestInv'
<1>1. /\ evaluation.stage = "judge" /\ UNCHANGED <<calibration, artifacts, scripts>>
      /\ evaluation.position <= Len(evaluation.observations)
      /\ evaluation.attempt < ToJudge(evaluation, execution.mode, evaluation.position)
  BY DEF AskJudge, Judging, InCase, Owed, ToJudge
<1>2. /\ evaluation \in Evaluations /\ execution \in Executions /\ OrdinalFits(evaluation)
      /\ InTheCase(evaluation)
  BY <1>1, JudgingIs, InCaseIs DEF CaseStages
<1> DEFINE out == To("embedding")
           failed == [evaluation EXCEPT !.reasons = @ \cup {"judge_failed"}]
           e(v) == Scored(evaluation, v)
           x == execution'
<1>3. PICK call \in CallOutcomes(execution, "judge"), verdict \in JudgeScores :
        /\ execution' = IF verdict = "unscored" THEN Failed(call.after) ELSE call.after
        /\ evaluation' =
             CASE call.how = "answered" ->
                      LET y == Scored(evaluation, verdict)
                      IN  IF y.attempt = Owed THEN NextPosition(y, execution') ELSE y
               [] call.how = "failed" -> NextPosition(failed, execution')
               [] OTHER -> out
  BY DEF AskJudge
<1>4. /\ GoesOn(execution, execution') /\ CallSays(call)
      /\ execution'.complete = TRUE => call.how = "answered" /\ verdict = "scored"
  <2>1. GoesOn(execution, call.after) /\ CallSays(call)  BY <1>2, CallGoesOn DEF Kinds
  <2>2. call.after \in Executions
    BY <1>1, InCaseIs, CallKeeps DEF Kinds, ExecutionFits
  <2>3. GoesOn(call.after, Failed(call.after)) /\ Failed(call.after).complete = FALSE
    BY <2>2, FailedGoesOn
  <2>4. CASE verdict = "unscored"
    <3>1. execution' = Failed(call.after)  BY <1>3, <2>4
    <3>2. GoesOn(execution, execution') /\ execution'.complete = FALSE
      BY <2>1, <2>3, <3>1 DEF GoesOn
    <3> QED  BY <2>1, <3>2
  <2>5. CASE verdict # "unscored"
    <3>1. execution' = call.after /\ verdict = "scored"  BY <1>3, <2>5 DEF JudgeScores
    <3> QED  BY <2>1, <3>1 DEF CallSays
  <2> QED  BY <2>4, <2>5
<1>5. CASE call.how = "answered"
  <2> DEFINE y == Scored(evaluation, verdict)
  <2>1. /\ y.observations \in Seq(Observations)
        /\ Same(evaluation, y) /\ y.stage = "judge" /\ y.ordinal = evaluation.ordinal
        /\ y.position = evaluation.position /\ y.attempt = evaluation.attempt + 1
        /\ Len(y.observations) = Len(evaluation.observations)
        /\ DOMAIN y.observations = DOMAIN evaluation.observations
        /\ evaluation.position \in DOMAIN evaluation.observations
        /\ \A p \in DOMAIN evaluation.observations :
               /\ y.observations[p].error = evaluation.observations[p].error
               /\ p # evaluation.position => y.observations[p] = evaluation.observations[p]
        /\ y.observations[evaluation.position].judged =
               Append(evaluation.observations[evaluation.position].judged, verdict)
    BY <1>1, <1>2, ScoredHas
  <2>2. InTheCase(y)  BY <1>1, <1>2, ScoredDoes
  <2>3. evaluation' = IF y.attempt = Owed THEN NextPosition(y, x) ELSE y
    BY <1>3, <1>5
  <2> HIDE DEF y, x
  <2>4. \A mode, p : ToJudge(y, mode, p) = ToJudge(evaluation, mode, p)
    BY <1>2, <2>1, OrdinalStays DEF Same
  <2>5. Owed = ToJudge(evaluation, execution.mode, evaluation.position)
    BY DEF Owed, ToJudge
  <2>6. execution'.complete = TRUE => JudgeFits(y, execution'.mode)
    <3> SUFFICES ASSUME execution'.complete = TRUE PROVE JudgeFits(y, execution'.mode)
      OBVIOUS
    <3>1. verdict = "scored" /\ execution'.mode = execution.mode /\ execution.complete = TRUE
      BY <1>4 DEF GoesOn
    <3>2. JudgeFits(evaluation, execution.mode)  BY <1>1, <3>1, JudgingIs
    <3> QED  BY <1>1, <1>2, <2>1, <2>4, <3>1, <3>2, ScoredFits
  <2>7. CASE y.attempt # Owed
    <3>1. evaluation' = y  BY <2>3, <2>7
    <3> QED  BY <1>1, <1>4, <2>1, <2>6, <3>1, JudgingGoesOn
  <2>8. CASE y.attempt = Owed
    <3> DEFINE z == NextPosition(y, x)
    <3>1. evaluation' = z  BY <2>3, <2>8
    <3>2. /\ Same(y, z) /\ z.ordinal = y.ordinal /\ z.observations = y.observations
          /\ Stopped(x) => z.stage = "embedding"
          /\ ~Stopped(x) => /\ z.stage = "judge" /\ z.position = y.position + 1
                            /\ z.attempt = 0
      BY <2>1, <2>2, NextHas
    <3> HIDE DEF z
    <3>3. Same(evaluation, z)  BY <2>1, <3>2 DEF Same
    <3>4. ASSUME execution'.complete = TRUE, ~Stopped(x)
          PROVE  JudgeFits(z, execution'.mode)
      <4>1. JudgeFits(y, execution'.mode) /\ execution'.mode = execution.mode
        BY <1>4, <2>6, <3>4 DEF GoesOn
      <4>2. y.attempt = ToJudge(y, execution.mode, y.position)
        BY <2>1, <2>4, <2>5, <2>8
      <4>3. OrdinalFits(y)  BY <1>2, <2>1, OrdinalStays DEF Same
      <4>4. \A p : ToJudge(z, execution.mode, p) = ToJudge(y, execution.mode, p)
        BY <3>2, <4>3, OrdinalStays DEF Same
      <4>5. /\ JudgedBefore(y, execution.mode, y.position)
            /\ \A p \in DOMAIN y.observations :
                   p >= y.position => y.observations[p].judged =
                       Scores(IF p = y.position
                              THEN ToJudge(y, execution.mode, p) ELSE 0)
        BY <4>1, <4>2 DEF JudgeFits
      <4>6. y.position \in Nat \ {0} /\ y.position <= Len(y.observations)
        BY <1>1, <1>2, <2>1 DEF Evaluations
      <4>7. z.position = y.position + 1 /\ z.attempt = 0 /\ z.observations = y.observations
        BY <3>2, <3>4
      <4>8. JudgeFits(z, execution.mode)
        BY ONLY <2>1, <4>4, <4>5, <4>6, <4>7, NextIsJudged
      <4> QED  BY <4>1, <4>8
    <3>5. z.stage = "judge" => ~Stopped(x)  BY <3>2
    <3>6. z.stage \in {"judge", "embedding"} /\ (z.stage = "embedding" => Stopped(x))
      BY <3>2
    <3>7. /\ Len(z.observations) = Len(evaluation.observations)
          /\ DOMAIN z.observations = DOMAIN evaluation.observations
          /\ z.ordinal = evaluation.ordinal
          /\ \A p \in DOMAIN evaluation.observations :
                 z.observations[p].error = evaluation.observations[p].error
      BY <2>1, <3>2
    <3> QED  BY <1>1, <1>4, <3>1, <3>3, <3>4, <3>5, <3>6, <3>7, JudgingGoesOn DEF x
  <2> QED  BY <2>7, <2>8
<1>6. CASE call.how # "answered"
  <2> DEFINE z == NextPosition(failed, x)
  <2>1. execution'.complete # TRUE  BY <1>4, <1>6
  <2>2. /\ InTheCase(failed) /\ Same(evaluation, failed)
        /\ failed.ordinal = evaluation.ordinal /\ failed.stage = "judge"
        /\ failed.observations = evaluation.observations
    BY <1>1, <1>2, ReasonDoes DEF Reasons, Same, Evaluations
  <2>3. /\ Same(evaluation, out) /\ out.stage = "embedding"
        /\ out.ordinal = evaluation.ordinal
        /\ out.observations = evaluation.observations
    BY <1>2, ToHas DEF EvalStages, CaseStages
  <2>4. evaluation' \in {z, out}  BY <1>3, <1>6
  <2> HIDE DEF failed, out, x
  <2>5. /\ Same(failed, z) /\ z.ordinal = failed.ordinal
        /\ z.observations = failed.observations /\ z.stage \in {"judge", "embedding"}
    BY <2>2, NextHas
  <2> HIDE DEF z
  <2>6. /\ Same(evaluation, evaluation') /\ evaluation'.ordinal = evaluation.ordinal
        /\ evaluation'.observations = evaluation.observations
        /\ evaluation'.stage \in {"judge", "embedding"}
    BY <2>2, <2>3, <2>4, <2>5 DEF Same
  <2> QED  BY <1>1, <1>4, <2>1, <2>6, JudgingGoesOn
<1> QED  BY <1>5, <1>6

LEMMA AskEmbeddingHonest == ASSUME EvalInv, HonestInv, AskEmbedding PROVE HonestInv'
<1>1. evaluation.stage = "embedding" /\ UNCHANGED <<calibration, artifacts, scripts>>
  BY DEF AskEmbedding, InCase
<1>2. evaluation.stage \in CaseStages  BY <1>1 DEF CaseStages
<1>3. /\ evaluation \in Evaluations /\ execution \in Executions
      /\ OrdinalFits(evaluation) /\ StageFits(evaluation, execution)
      /\ CaseFits(evaluation, execution)
  BY <1>2, CaseIs
<1> DEFINE e == To("close")
<1>4. /\ e \in Evaluations /\ Same(evaluation, e) /\ e.stage = "close"
      /\ e.ordinal = evaluation.ordinal /\ e.observations = evaluation.observations
  BY <1>3, ToHas DEF EvalStages, CaseStages
<1> HIDE DEF e
<1>5. /\ \E reasons : evaluation' = [e EXCEPT !.reasons = reasons]
      /\ GoesOn(execution, execution')
  <2>1. CASE "embedding" \in Case.needs /\ ~execution.timedOut
    <3>1. PICK call \in CallOutcomes(execution, "embedding") :
            /\ execution' = call.after
            /\ evaluation' = [e EXCEPT !.reasons =
                   IF call.how = "failed" THEN @ \cup {"embedding_failed"} ELSE @]
      BY <2>1 DEF AskEmbedding, e
    <3>2. GoesOn(execution, call.after)  BY <1>3, CallGoesOn DEF Kinds
    <3> QED  BY <3>1, <3>2
  <2>2. CASE ~("embedding" \in Case.needs /\ ~execution.timedOut)
    <3>1. evaluation' = e /\ execution' = execution  BY <2>2 DEF AskEmbedding, e
    <3>2. e = [e EXCEPT !.reasons = e.reasons]  BY <1>4 DEF Evaluations
    <3> QED  BY <3>1, <3>2 DEF GoesOn
  <2> QED  BY <2>1, <2>2
<1>6. /\ Same(evaluation, evaluation') /\ evaluation'.stage = "close"
      /\ evaluation'.ordinal = evaluation.ordinal
      /\ evaluation'.observations = evaluation.observations
  <2>1. PICK reasons : evaluation' = [e EXCEPT !.reasons = reasons]  BY <1>5
  <2> QED  BY <1>4, <2>1 DEF Same, Evaluations
<1>7. /\ OrdinalFits(evaluation')
      /\ \A mode, p : ToJudge(evaluation', mode, p) = ToJudge(evaluation, mode, p)
  BY <1>3, <1>6, OrdinalStays DEF Same
<1>8. Current(evaluation') = Current(evaluation) /\ Current(evaluation).protocol = "text"
  BY <1>1, <1>3, <1>6 DEF Same, Current, StageFits
<1>9. StageFits(evaluation', execution')
  BY <1>1, <1>3, <1>5, <1>6, <1>8 DEF StageFits, GoesOn
<1>10. CaseFits(evaluation', execution')
  <2>1. SUFFICES ASSUME execution'.complete = TRUE PROVE
            /\ \A p \in DOMAIN evaluation.observations :
                   evaluation.observations[p].error = FALSE
            /\ ~Stopped(execution') => JudgedBefore(evaluation', execution'.mode,
                                                    Len(evaluation.observations) + 1)
    BY <1>6, <1>8 DEF CaseFits
  <2>2. /\ execution.complete = TRUE /\ execution'.mode = execution.mode
        /\ ~Stopped(execution') => ~Stopped(execution)
    BY <1>5, <2>1 DEF GoesOn
  <2>3. /\ \A p \in DOMAIN evaluation.observations :
                   evaluation.observations[p].error = FALSE
        /\ ~Stopped(execution') => JudgedBefore(evaluation, execution.mode,
                                                Len(evaluation.observations) + 1)
    BY <1>1, <1>3, <1>8, <2>2 DEF CaseFits
  <2> QED  BY <1>6, <1>7, <2>2, <2>3 DEF JudgedBefore
<1> QED  BY <1>1, <1>2, <1>5, <1>6, <1>7, <1>9, <1>10, CaseStaysHonest DEF CaseStages

-----------------------------------------------------------------------------
(* From case to case *)

LEMMA RunStaysHonest ==
    ASSUME HonestInv, evaluation.stage \notin {"off", "ended"},
           evaluation'.stage \notin {"off", "ended"}, RunFits(evaluation', execution'),
           UNCHANGED <<calibration, artifacts, scripts>>
    PROVE  HonestInv'
<1>1. OverFits'  BY DEF OverFits
<1>2. calibration.purpose = "none"  BY DEF HonestInv, ScoresFit
<1>3. ScoresFit'  BY <1>2 DEF HonestInv, ScoresFit
<1>4. FilesFit'  BY <1>2 DEF HonestInv, FilesFit, Baseline, Calibrated
<1> QED  BY <1>1, <1>3, <1>4 DEF HonestInv

LEMMA NextCaseHas ==
    ASSUME NEW e \in Evaluations, NEW y,
           y = [e EXCEPT !.observations = << >>, !.reasons = {}, !.position = 1, !.attempt = 0]
    PROVE  /\ Same(e, y) /\ y.stage = e.stage /\ y.ordinal = e.ordinal
           /\ y.observations = << >> /\ y.position = 1 /\ y.attempt = 0
<1> DEFINE none == << >>
<1>1. none \in Seq(Observations)  OBVIOUS
<1> HIDE DEF none
<1> DEFINE f == [e EXCEPT !.observations = none, !.reasons = {}]
<1>2. /\ f \in Evaluations /\ Same(e, f) /\ f.stage = e.stage /\ f.ordinal = e.ordinal
      /\ f.observations = none
  BY <1>1 DEF Evaluations, Same
<1>3. y = [f EXCEPT !.position = 1, !.attempt = 0]  BY DEF none
<1> HIDE DEF f
<1>4. 1 \in Nat \ {0} /\ 0 \in Nat  OBVIOUS
<1>5. /\ Same(f, y) /\ y.stage = f.stage /\ y.ordinal = f.ordinal
      /\ y.observations = f.observations /\ y.position = 1 /\ y.attempt = 0
  BY ONLY <1>2, <1>3, <1>4 DEF Evaluations, Same
<1> QED  BY ONLY <1>2, <1>5 DEF Same, none

LEMMA NoErrors ==
    ASSUME NEW s \in Seq(Observations)
    PROVE  (\A o \in Range(s) : ~o.error) <=> \A p \in DOMAIN s : s[p].error = FALSE
<1>1. Range(s) = {s[p] : p \in DOMAIN s}  BY DEF Range
<1>2. ASSUME NEW p \in DOMAIN s PROVE ~s[p].error <=> s[p].error = FALSE
  <2>1. s[p] \in Observations  OBVIOUS
  <2> DEFINE o == s[p]
  <2> HIDE DEF o
  <2>2. o.error \in BOOLEAN  BY <2>1, Zenon DEF Observations, o
  <2>3. ~o.error <=> o.error = FALSE  BY <2>2, Zenon
  <2> QED  BY <2>3 DEF o
<1> QED  BY <1>1, <1>2, Zenon

\* The last result is whole when nothing of the case is missing and nothing stopped it.
LEMMA CaseIsWhole ==
    ASSUME EvalInv, HonestInv, evaluation.stage = "close",
           execution.complete = TRUE, ~Stopped(execution),
           NEW result \in CaseResults, result.observations = evaluation.observations
    PROVE  WholeIn(execution.mode, evaluation.cases, Append(evaluation.results, result),
                   Len(evaluation.results) + 1)
<1> DEFINE results == Append(evaluation.results, result)
           n == Len(evaluation.results) + 1
           obs == evaluation.observations
           count == Len(evaluation.observations)
<1>1. /\ evaluation \in Evaluations /\ execution \in Executions
      /\ OrdinalFits(evaluation) /\ StageFits(evaluation, execution)
      /\ CaseFits(evaluation, execution)
  BY CaseIs DEF CaseStages
<1>2. /\ evaluation.results \in Seq(CaseResults) /\ obs \in Seq(Observations)
      /\ evaluation.ordinal \in Nat /\ DOMAIN obs = 1 .. count
  BY <1>1 DEF Evaluations
<1>3. results[n] = result /\ n \in 1 .. Len(evaluation.results) + 1 /\ count \in Nat
  BY <1>2
<1>4. Before(results, n) = Before(evaluation.results, n)  BY <1>2, <1>3, BeforeStays
<1> HIDE DEF results
<1>5. \A p \in DOMAIN obs :
          JudgeCount(execution.mode, OrdinalOf(results, n, p)) =
              ToJudge(evaluation, execution.mode, p)
  <2>1. /\ IsFiniteSet(Before(evaluation.results, n))
        /\ evaluation.ordinal = Cardinality(Before(evaluation.results, n)) + count
    BY <1>1 DEF OrdinalFits
  <2> DEFINE k == Cardinality(Before(evaluation.results, n))
  <2>2. k \in Nat  BY <2>1, FS_CardinalityType
  <2>3. ASSUME NEW p \in DOMAIN obs
        PROVE  OrdinalOf(results, n, p) = OrdinalAt(evaluation, p)
    <3>1. OrdinalOf(results, n, p) = k + (p - 1)  BY <1>4 DEF OrdinalOf
    <3>2. OrdinalAt(evaluation, p) = (evaluation.ordinal - count) + (p - 1)
      BY DEF OrdinalAt
    <3>3. evaluation.ordinal - count = k  BY <1>3, <2>1, <2>2
    <3> QED  BY <3>1, <3>2, <3>3
  <2> QED  BY <2>3 DEF ToJudge
<1>6. evaluation.cases[n] = Current(evaluation)  BY DEF Current
<1>7. Observes(evaluation.cases[n], result)
  <2>1. \A p \in DOMAIN obs : obs[p].error = FALSE  BY <1>1 DEF CaseFits
  <2>2. \A o \in Range(obs) : ~o.error  BY <1>2, <2>1, NoErrors
  <2>3. count = IF Current(evaluation).protocol = "text" THEN CandidateRepetitions ELSE 1
    BY <1>1 DEF CaseFits, StageFits
  <2> QED  BY <1>6, <2>2, <2>3 DEF Observes
<1>8. ASSUME Current(evaluation).protocol = "text", NEW p \in DOMAIN obs
      PROVE  obs[p].judged = Scores(JudgeCount(execution.mode, OrdinalOf(results, n, p)))
  <2>1. JudgedBefore(evaluation, execution.mode, count + 1)  BY <1>1, <1>8 DEF CaseFits
  <2>2. p < count + 1  BY <1>2, <1>3
  <2> QED  BY <1>5, <2>1, <2>2 DEF JudgedBefore
<1>9. WholeIn(execution.mode, evaluation.cases, results, n)
  BY <1>3, <1>6, <1>7, <1>8 DEF WholeIn
<1> QED  BY <1>9 DEF results

\* A case that was not stopped is called completed only when it was observed in full.
LEMMA CompletedObserves ==
    ASSUME EvalInv, HonestInv, evaluation.stage = "close", ~Stopped(execution),
           NEW reasons, CaseStatus(evaluation.observations, reasons) = "completed",
           NEW result, result.observations = evaluation.observations
    PROVE  Observes(Current(evaluation), result)
<1> DEFINE obs == evaluation.observations
<1>1. evaluation \in Evaluations /\ StageFits(evaluation, execution)
  BY CaseIs DEF CaseStages
<1>2. obs \in Seq(Observations)  BY <1>1 DEF Evaluations
<1>3. obs # << >> /\ \A o \in Range(obs) : ~o.error
  <2> DEFINE P == /\ obs # << >> /\ \A o \in Range(obs) : ~o.error
                  /\ reasons \cap {"judge_failed", "judge_schema_failure", "embedding_failed"} = {}
  <2>1. (IF P THEN "completed" ELSE "partial") = "completed"  BY DEF CaseStatus
  <2> HIDE DEF P
  <2>2. P  BY <2>1
  <2> QED  BY <2>2, Zenon DEF P
<1>4. Len(obs) \in Nat /\ Len(obs) # 0  BY <1>2, <1>3
<1>5. Len(obs) = IF Current(evaluation).protocol = "text" THEN CandidateRepetitions ELSE 1
  BY <1>1, <1>4 DEF StageFits
<1> HIDE DEF obs
<1>6. Len(result.observations) =
        IF Current(evaluation).protocol = "text" THEN CandidateRepetitions ELSE 1
  BY <1>5 DEF obs
<1>7. \A o \in Range(result.observations) : ~o.error  BY <1>3, Zenon DEF obs
<1> QED  BY <1>6, <1>7, Zenon DEF Observes

LEMMA CloseCaseHonest == ASSUME EvalInv, HonestInv, CloseCase PROVE HonestInv'
<1> DEFINE reasons == evaluation.reasons \cup JudgeReasons(evaluation.observations)
                      \cup RuleReasons(evaluation.observations)
           stopped == execution.exhausted \/ execution.timedOut
           status == CaseStatus(evaluation.observations, reasons)
           result == CaseResult(status, evaluation.observations, reasons)
           stage == IF stopped THEN "ending" ELSE "case"
           all == execution.complete /\ ~stopped
           results == Append(evaluation.results, result)
           n == Len(evaluation.results) + 1
<1>1. /\ evaluation.stage = "close" /\ UNCHANGED <<calibration, artifacts, scripts>>
      /\ execution' = [execution EXCEPT !.completed = execution.completed + 1,
                                        !.complete = all]
      /\ evaluation' = [To(stage) EXCEPT !.results = results,
               !.observations = << >>, !.reasons = {}, !.position = 1, !.attempt = 0]
  BY DEF CloseCase, InCase, To
<1>2. evaluation.stage \in CaseStages /\ evaluation.stage \notin {"off", "ended", "ending", "case"}
  BY <1>1 DEF CaseStages
<1>3. /\ evaluation \in Evaluations /\ execution \in Executions
      /\ OrdinalFits(evaluation) /\ StageFits(evaluation, execution)
      /\ CaseFits(evaluation, execution)
  BY <1>2, CaseIs
<1>4. /\ evaluation.observations \in Seq(Observations) /\ reasons \in SUBSET Reasons
      /\ evaluation.results \in Seq(CaseResults) /\ Len(evaluation.results) \in Nat
  BY <1>3 DEF Evaluations, JudgeReasons, RuleReasons, Reasons
<1>5. /\ result \in CaseResults /\ result.observations = evaluation.observations
      /\ result.status = status /\ status # "skipped"
  BY <1>4 DEF CaseResult, CaseStatus, CaseResults
<1>6. /\ all \in BOOLEAN /\ (all = TRUE => execution.complete = TRUE /\ ~stopped)
      /\ (execution.complete = TRUE /\ ~stopped => all = TRUE)
      /\ (stopped => stage = "ending") /\ (~stopped => stage = "case")
  BY Zenon
<1>7. /\ stopped <=> Stopped(execution)
  <2>1. execution.exhausted \in BOOLEAN /\ execution.timedOut \in BOOLEAN
    BY <1>3, Zenon DEF Executions
  <2> QED  BY <2>1, Zenon DEF Stopped
<1> HIDE DEF reasons, stopped, result, stage, all
<1>8. /\ results \in Seq(CaseResults) /\ Len(results) = n /\ n \in Nat
      /\ results[n] = result /\ DOMAIN results = 1 .. n
      /\ \A i \in 1 .. n : i \in DOMAIN evaluation.results \/ i = n
      /\ \A i \in DOMAIN evaluation.results : i # n /\ results[i] = evaluation.results[i]
  BY <1>4, <1>5
<1> HIDE DEF results
<1>9. /\ evaluation'.results = results /\ evaluation'.cases = evaluation.cases
      /\ evaluation'.skip = evaluation.skip /\ evaluation'.stage = stage
      /\ evaluation'.ordinal = evaluation.ordinal /\ evaluation'.observations = << >>
  <2> DEFINE e == To(stage)
             f == [e EXCEPT !.results = results]
  <2>1. stage \in EvalStages  BY <1>6 DEF EvalStages
  <2>2. e \in Evaluations /\ Same(evaluation, e) /\ e.stage = stage
        /\ e.ordinal = evaluation.ordinal
    BY <1>3, <2>1, ToHas
  <2>3. evaluation' = [f EXCEPT !.observations = << >>, !.reasons = {}, !.position = 1,
                                !.attempt = 0]
    BY <1>1
  <2> HIDE DEF e
  <2>4. /\ f \in Evaluations /\ f.cases = e.cases /\ f.results = results
        /\ f.stage = e.stage /\ f.ordinal = e.ordinal /\ f.skip = e.skip
    BY <1>8, <2>2 DEF Evaluations
  <2> HIDE DEF f
  <2>5. /\ Same(f, evaluation') /\ evaluation'.stage = f.stage
        /\ evaluation'.ordinal = f.ordinal /\ evaluation'.observations = << >>
    BY ONLY <2>3, <2>4, NextCaseHas
  <2> QED  BY <2>2, <2>4, <2>5 DEF Same
<1>10. /\ execution'.complete = all /\ execution'.completed = execution.completed + 1
       /\ execution'.mode = execution.mode /\ execution'.exhausted = execution.exhausted
       /\ execution'.timedOut = execution.timedOut /\ execution'.errors = execution.errors
       /\ execution.complete \in BOOLEAN /\ execution.completed \in Nat
  BY ONLY <1>1, <1>3, <1>6 DEF Executions
<1>11. /\ execution.mode # "dry-run" /\ Explained(execution)
       /\ ResultsFit(evaluation, execution)
  BY <1>2 DEF HonestInv, RunFits
<1>12. Explained(execution')
  <2>1. execution'.complete = FALSE => execution.complete = FALSE \/ Stopped(execution)
    BY <1>6, <1>7, <1>10
  <2> QED  BY <1>10, <1>11, <2>1 DEF Explained, Stopped
<1>13. OrdinalFits(evaluation')
  <2> DEFINE before == Before(evaluation.results, n)
             after == Before(results, n + 1)
  <2>1. IsFiniteSet(before)
        /\ evaluation.ordinal = Cardinality(before) + Len(evaluation.observations)
    BY <1>3 DEF OrdinalFits
  <2>2. IsFiniteSet(after)
        /\ Cardinality(after) = Cardinality(before) + Len(result.observations)
    BY <1>4, <1>5, <1>8, <2>1, OneMoreBefore DEF results
  <2>3. Cardinality(after) \in Nat /\ Len(<< >>) = 0  BY <2>2, FS_CardinalityType
  <2>4. evaluation.ordinal = Cardinality(after) + 0  BY <1>5, <2>1, <2>2, <2>3
  <2> QED  BY <1>8, <1>9, <2>2, <2>3, <2>4 DEF OrdinalFits
<1>14. ResultsFit(evaluation', execution')
  <2>1. execution'.completed <= n /\ (execution'.completed = n =>
            execution.completed = Len(evaluation.results))
    BY <1>4, <1>10, <1>11 DEF ResultsFit
  <2>2. execution'.completed = n => \A i \in DOMAIN results : results[i].status # "skipped"
    BY <1>5, <1>8, <1>11, <2>1 DEF ResultsFit
  <2>3. ASSUME execution'.complete = TRUE, NEW i \in DOMAIN results,
               results[i].status # "skipped"
        PROVE  WholeIn(execution'.mode, evaluation'.cases, results, i)
    <3>1. execution.complete = TRUE /\ ~Stopped(execution)  BY <1>6, <1>7, <1>10, <2>3
    <3>2. CASE i = n
      <4>1. WholeIn(execution.mode, evaluation.cases, results, n)
        BY <1>1, <1>5, <3>1, CaseIsWhole DEF results
      <4> QED  BY <1>9, <1>10, <3>2, <4>1
    <3>3. CASE i # n
      <4>1. i \in DOMAIN evaluation.results /\ evaluation.results[i].status # "skipped"
        BY <1>8, <2>3, <3>3
      <4>2. WholeIn(execution.mode, evaluation.cases, evaluation.results, i)
        BY <1>11, <3>1, <4>1 DEF ResultsFit
      <4>3. WholeIn(execution.mode, evaluation.cases, results, i)
        BY <1>4, <1>5, <4>1, <4>2, WholeStays DEF results
      <4> QED  BY <1>9, <1>10, <4>3
    <3> QED  BY <3>2, <3>3
  <2>4. ASSUME NEW i \in DOMAIN results, results[i].status = "completed"
        PROVE  \/ i = Len(results) /\ evaluation'.stage \in {"ending", "ended"}
               \/ Observes(evaluation'.cases[i], results[i])
    <3>1. CASE i = n
      <4>1. CASE stopped  BY <1>6, <1>8, <1>9, <3>1, <4>1
      <4>2. CASE ~stopped
        <5>1. Observes(Current(evaluation), result)
          BY <1>1, <1>5, <1>7, <1>8, <2>4, <3>1, <4>2, CompletedObserves
        <5> QED  BY <1>8, <1>9, <3>1, <5>1 DEF Current
      <4> QED  BY <4>1, <4>2
    <3>2. CASE i # n
      <4>1. i \in DOMAIN evaluation.results /\ results[i] = evaluation.results[i]
        BY <1>8, <3>2
      <4>2. Observes(evaluation.cases[i], evaluation.results[i])
        BY <1>2, <1>11, <2>4, <4>1 DEF ResultsFit
      <4> QED  BY <1>9, <4>1, <4>2
    <3> QED  BY <3>1, <3>2
  <2> QED  BY <1>8, <1>9, <2>1, <2>2, <2>3, <2>4 DEF ResultsFit
<1>15. evaluation'.stage \in {"ending", "case"}
       /\ (evaluation'.stage = "ending" => execution'.complete = FALSE)
  <2>1. stage = "ending" => stopped  BY <1>6
  <2>2. stopped => all = FALSE  BY <1>6
  <2> QED  BY <1>6, <1>9, <1>10, <2>1, <2>2
<1>16. RunFits(evaluation', execution')
  BY <1>9, <1>10, <1>11, <1>12, <1>13, <1>14, <1>15 DEF RunFits, CaseStages
<1> QED  BY <1>1, <1>2, <1>15, <1>16, RunStaysHonest

\* Between two cases nothing is observed yet.
LEMMA NothingObserved ==
    ASSUME NEW e, NEW y, OrdinalFits(e), e.observations = << >>, y.observations = << >>,
           y.ordinal = e.ordinal, y.results = e.results
    PROVE  OrdinalFits(y)
BY DEF OrdinalFits

LEMMA BeginCaseHonest == ASSUME EvalInv, HonestInv, BeginCase PROVE HonestInv'
<1> DEFINE n == Len(evaluation.results) + 1
<1>1. /\ evaluation.stage = "case" /\ Len(evaluation.results) < Len(evaluation.cases)
      /\ UNCHANGED <<execution, calibration, artifacts, scripts>>
  BY DEF BeginCase, InCase
<1>2. /\ evaluation \in Evaluations /\ execution \in Executions
      /\ execution.mode # "dry-run" /\ Explained(execution)
      /\ OrdinalFits(evaluation) /\ ResultsFit(evaluation, execution)
      /\ evaluation.observations = << >>
  BY <1>1, InCaseIs DEF HonestInv, RunFits, CaseStages
<1>3. /\ evaluation.results \in Seq(CaseResults) /\ Len(evaluation.results) \in Nat
      /\ execution.completed \in Nat
  BY <1>2 DEF Evaluations, Executions
<1>4. CASE Skipped(Case, execution.mode)
  <2> DEFINE result == CaseResult("skipped", << >>, {"required"})
             results == Append(evaluation.results, result)
  <2>1. result \in CaseResults /\ result.status = "skipped" /\ Len(result.observations) = 0
    BY DEF CaseResult, CaseResults, Reasons
  <2>2. evaluation' = [evaluation EXCEPT !.results = results]  BY <1>4 DEF BeginCase
  <2> HIDE DEF result
  <2>3. /\ results \in Seq(CaseResults) /\ Len(results) = n /\ n \in Nat
        /\ results[n] = result /\ DOMAIN results = 1 .. n
        /\ \A i \in 1 .. n : i \in DOMAIN evaluation.results \/ i = n
        /\ \A i \in DOMAIN evaluation.results : i # n /\ results[i] = evaluation.results[i]
    BY <1>3, <2>1
  <2> HIDE DEF results
  <2>4. /\ evaluation'.results = results /\ evaluation'.cases = evaluation.cases
        /\ evaluation'.stage = "case" /\ evaluation'.ordinal = evaluation.ordinal
        /\ evaluation'.observations = << >>
    BY <1>1, <1>2, <2>2 DEF Evaluations
  <2>5. OrdinalFits(evaluation')
    <3> DEFINE before == Before(evaluation.results, n)
               after == Before(results, n + 1)
    <3>1. IsFiniteSet(before) /\ evaluation.ordinal = Cardinality(before) + Len(<< >>)
      BY <1>2 DEF OrdinalFits
    <3>2. IsFiniteSet(after)
          /\ Cardinality(after) = Cardinality(before) + Len(result.observations)
      BY <1>3, <2>1, <2>3, <3>1, OneMoreBefore DEF results
    <3>3. Cardinality(before) \in Nat  BY <3>1, FS_CardinalityType
    <3>4. Cardinality(after) = Cardinality(before)  BY <2>1, <3>2, <3>3
    <3> QED  BY <2>3, <2>4, <3>1, <3>2, <3>4 DEF OrdinalFits
  <2>6. ResultsFit(evaluation', execution')
    <3>1. execution'.completed < n /\ execution' = execution
      BY <1>1, <1>2, <1>3 DEF ResultsFit
    <3>2. execution'.completed <= n /\ execution'.completed # n  BY <1>1, <1>3, <3>1
    <3>3. ASSUME execution'.complete = TRUE, NEW i \in DOMAIN results,
                 results[i].status # "skipped"
          PROVE  WholeIn(execution'.mode, evaluation'.cases, results, i)
      <4>1. i \in DOMAIN evaluation.results /\ results[i] = evaluation.results[i]
        BY <2>1, <2>3, <3>3
      <4>2. WholeIn(execution.mode, evaluation.cases, evaluation.results, i)
        BY <1>2, <3>1, <3>3, <4>1 DEF ResultsFit
      <4>3. WholeIn(execution.mode, evaluation.cases, results, i)
        BY <1>3, <2>1, <4>1, <4>2, WholeStays DEF results
      <4> QED  BY <2>4, <3>1, <4>3
    <3>4. ASSUME NEW i \in DOMAIN results, results[i].status = "completed"
          PROVE  Observes(evaluation'.cases[i], results[i])
      <4>1. i \in DOMAIN evaluation.results /\ results[i] = evaluation.results[i]
        BY <2>1, <2>3, <3>4
      <4> QED  BY <1>1, <1>2, <2>4, <3>4, <4>1 DEF ResultsFit
    <3> QED  BY <2>3, <2>4, <3>2, <3>3, <3>4 DEF ResultsFit
  <2>7. RunFits(evaluation', execution')
    BY <1>1, <1>2, <2>4, <2>5, <2>6 DEF RunFits, CaseStages
  <2> QED  BY <1>1, <2>4, <2>7, RunStaysHonest
<1>5. CASE ~Skipped(Case, execution.mode)
  <2> DEFINE stage == IF Case.protocol = "text" THEN "candidate" ELSE "retrieval"
             e == To(stage)
  <2>1. evaluation' = [e EXCEPT !.observations = << >>, !.reasons = {}, !.position = 1,
                                !.attempt = 0]
    BY <1>5 DEF BeginCase
  <2>2. stage \in EvalStages /\ stage \in CaseStages /\ stage \in {"candidate", "retrieval"}
    BY DEF EvalStages, CaseStages
  <2>3. /\ e \in Evaluations /\ Same(evaluation, e) /\ e.stage = stage
        /\ e.ordinal = evaluation.ordinal
    BY <1>2, <2>2, ToHas
  <2>4. Current(evaluation) = Case  BY DEF Current, Case
  <2>5. stage = "candidate" <=> Current(evaluation).protocol = "text"  BY <2>4
  <2> HIDE DEF e, stage
  <2>6. /\ Same(e, evaluation') /\ evaluation'.stage = stage
        /\ evaluation'.ordinal = e.ordinal /\ evaluation'.observations = << >>
        /\ evaluation'.position = 1 /\ evaluation'.attempt = 0
    BY ONLY <2>1, <2>3, NextCaseHas
  <2>7. Same(evaluation, evaluation') /\ Current(evaluation') = Current(evaluation)
    BY <2>3, <2>6 DEF Same, Current
  <2>8. OrdinalFits(evaluation')
    BY <1>2, <2>3, <2>6, <2>7, NothingObserved DEF Same
  <2>9. Len(evaluation'.observations) = 0 /\ DOMAIN evaluation'.observations = {}
    BY <2>6
  <2>10. StageFits(evaluation', execution')
    <3>1. 0 <= CandidateRepetitions  BY CountsAre
    <3> QED  BY <2>2, <2>5, <2>6, <2>7, <2>9, <3>1 DEF StageFits
  <2>11. CaseFits(evaluation', execution')  BY <2>2, <2>6, <2>9 DEF CaseFits
  <2>12. ResultsFit(evaluation', execution')
    BY <1>1, <1>2, <2>2, <2>6, <2>7 DEF ResultsFit, Same
  <2>13. RunFits(evaluation', execution')
    BY <1>1, <1>2, <2>2, <2>6, <2>8, <2>10, <2>11, <2>12 DEF RunFits
  <2>14. evaluation'.stage \notin {"off", "ended"}  BY <2>2, <2>6
  <2> QED  BY <1>1, <2>13, <2>14, RunStaysHonest
<1> QED  BY <1>4, <1>5

LEMMA EndEvaluationHonest == ASSUME EvalInv, HonestInv, EndEvaluation PROVE HonestInv'
<1> DEFINE all == execution.complete /\ execution.completed = Len(evaluation.cases)
<1>1. /\ evaluation.stage \in {"ending", "case"} /\ UNCHANGED <<calibration, artifacts, scripts>>
      /\ execution' = [execution EXCEPT !.complete = all]
      /\ evaluation' = To("ended")
  BY DEF EndEvaluation
<1>2. /\ evaluation \in Evaluations /\ execution \in Executions
      /\ execution.mode # "dry-run" /\ Explained(execution)
      /\ ResultsFit(evaluation, execution) /\ execution.resumed = FALSE
      /\ evaluation.observations = << >> /\ Len(evaluation.results) <= Len(evaluation.cases)
  BY <1>1, InCaseIs DEF HonestInv, RunFits, CaseStages, EvalInv, EvaluationFits
<1>3. /\ Len(evaluation.results) \in Nat /\ Len(evaluation.cases) \in Nat
      /\ execution.completed \in Nat
  BY <1>2 DEF Evaluations, Executions
<1>4. /\ Same(evaluation, evaluation') /\ evaluation'.stage = "ended"
      /\ evaluation'.observations = << >>
  BY <1>1, <1>2, ToHas DEF EvalStages
<1>5. /\ all \in BOOLEAN
      /\ (all = TRUE <=> execution.complete = TRUE /\ execution.completed = Len(evaluation.cases))
  <2>1. execution.complete \in BOOLEAN  BY <1>2, Zenon DEF Executions
  <2> QED  BY <2>1, Zenon
<1> HIDE DEF all
<1>6. /\ execution'.complete = all /\ execution'.completed = execution.completed
      /\ execution'.mode = execution.mode /\ execution'.exhausted = execution.exhausted
      /\ execution'.timedOut = execution.timedOut /\ execution'.errors = execution.errors
      /\ execution'.resumed = execution.resumed
      /\ (execution.complete = TRUE \/ execution.complete = FALSE)
  BY ONLY <1>1, <1>2, <1>5 DEF Executions
<1>7. CasesDone(execution', evaluation'.cases, evaluation'.results)
  <2>1. execution.completed <= Len(evaluation.results)  BY <1>2 DEF ResultsFit
  <2>2. execution.completed <= Len(evaluation.cases)  BY <1>2, <1>3, <2>1
  <2>3. ASSUME execution'.complete = TRUE
        PROVE  /\ Len(evaluation.results) = Len(evaluation.cases)
               /\ \A i \in DOMAIN evaluation.results :
                      WholeIn(execution.mode, evaluation.cases, evaluation.results, i)
    <3>1. execution.complete = TRUE /\ execution.completed = Len(evaluation.cases)
      BY <1>5, <1>6, <2>3
    <3>2. Len(evaluation.results) = Len(evaluation.cases)
          /\ execution.completed = Len(evaluation.results)
      BY <1>2, <1>3, <2>1, <3>1
    <3> QED  BY <1>2, <3>1, <3>2 DEF ResultsFit
  <2>4. ASSUME NEW i \in DOMAIN evaluation.results,
               evaluation.results[i].status = "completed", i < Len(evaluation.results)
        PROVE  Observes(evaluation.cases[i], evaluation.results[i])
    <3>1. i # Len(evaluation.results)  BY <1>3, <2>4
    <3> QED  BY <1>2, <2>4, <3>1 DEF ResultsFit
  <2> QED  BY <1>2, <1>4, <1>6, <2>2, <2>3, <2>4 DEF CasesDone, Same
<1>8. Explained(execution') \/ execution'.completed < Len(evaluation'.cases)
  <2>1. CASE execution.completed = Len(evaluation.cases)
    <3>1. execution'.complete = FALSE => execution.complete = FALSE  BY <1>5, <1>6, <2>1
    <3> QED  BY <1>2, <1>6, <3>1 DEF Explained, Stopped
  <2>2. CASE execution.completed # Len(evaluation.cases)
    <3>1. execution.completed < Len(evaluation.cases)
      BY <1>2, <1>3, <2>2 DEF ResultsFit
    <3> QED  BY <1>4, <1>6, <3>1 DEF Same
  <2> QED  BY <2>1, <2>2
<1>9. OverFits'  BY <1>7, <1>8 DEF OverFits
<1>10. RunFits(evaluation', execution')  BY <1>4 DEF RunFits, CaseStages
<1>11. calibration.purpose = "none"  BY <1>1 DEF HonestInv, ScoresFit
<1>12. ScoresFit'  BY <1>1, <1>11 DEF HonestInv, ScoresFit
<1>13. FilesFit'  BY <1>1, <1>11 DEF HonestInv, FilesFit, Baseline, Calibrated
<1> QED  BY <1>9, <1>10, <1>12, <1>13 DEF HonestInv

LEMMA StartEvaluationHonest == ASSUME EvalInv, HonestInv, StartEvaluation PROVE HonestInv'
<1>1. PICK mode \in Modes, cases \in CaseFiles, budget \in Budgets, skip \in BOOLEAN :
        /\ execution' = NewExecution(mode, budget)
        /\ evaluation' = [NoEvaluation EXCEPT
               !.stage = IF mode = "dry-run" THEN "ended" ELSE "case",
               !.cases = cases, !.skip = skip]
  BY DEF StartEvaluation, Modes
<1>2. /\ calibration.purpose = "none" /\ artifacts.report = << >>
      /\ UNCHANGED <<calibration, artifacts, scripts>>
  BY DEF StartEvaluation
<1>3. cases \in Seq(Cases)  BY EvaluationAssumption
<1>4. /\ execution'.mode = mode /\ execution'.completed = 0 /\ execution'.complete = TRUE
      /\ execution'.resumed = FALSE
  BY <1>1 DEF NewExecution
<1>5. /\ evaluation'.results = << >> /\ evaluation'.cases = cases
      /\ evaluation'.stage = IF mode = "dry-run" THEN "ended" ELSE "case"
      /\ evaluation'.ordinal = 0 /\ evaluation'.observations = << >>
  BY <1>1 DEF NoEvaluation
<1>6. Len(evaluation'.results) = 0 /\ DOMAIN evaluation'.results = {}
      /\ Len(evaluation'.observations) = 0 /\ Len(cases) \in Nat
  BY <1>3, <1>5
<1>7. OrdinalFits(evaluation')
  <2>1. Before(<< >>, 0 + 1) = Before(<< >>, 1)  OBVIOUS
  <2> QED  BY <1>5, <1>6, <2>1, NothingBefore DEF OrdinalFits
<1>8. ResultsFit(evaluation', execution')  BY <1>4, <1>6 DEF ResultsFit
<1>9. RunFits(evaluation', execution')
  BY <1>4, <1>5, <1>7, <1>8 DEF RunFits, CaseStages, Explained
<1>10. CASE mode = "dry-run"
  <2>1. CasesDone(execution', evaluation'.cases, evaluation'.results)
    BY <1>4, <1>5, <1>6, <1>10 DEF CasesDone
  <2>2. OverFits'  BY <1>4, <2>1 DEF OverFits, Explained
  <2>3. ScoresFit'  BY <1>2, <1>5, <1>10 DEF HonestInv, ScoresFit
  <2>4. FilesFit'  BY <1>2 DEF HonestInv, FilesFit, Baseline, Calibrated
  <2> QED  BY <1>9, <2>2, <2>3, <2>4 DEF HonestInv
<1>11. CASE mode # "dry-run"
  <2>1. OverFits'  BY <1>5, <1>11 DEF OverFits
  <2>2. ScoresFit'  BY <1>2, <1>5, <1>11 DEF HonestInv, ScoresFit
  <2>3. FilesFit'  BY <1>2 DEF HonestInv, FilesFit, Baseline, Calibrated
  <2> QED  BY <1>9, <2>1, <2>2, <2>3 DEF HonestInv
<1> QED  BY <1>10, <1>11

-----------------------------------------------------------------------------
(* The scores of a calibration *)

\* One case of it at most is scored; what is not to do any more keeps its verdict.
Asked(c, d) ==
    /\ d.purpose = c.purpose /\ d.todo \subseteq c.todo
    /\ d.complete = TRUE =>
           c.complete = TRUE /\ \A i \in c.todo \ d.todo : d.verdict[i] = "scored"
    /\ \A i \in Items \ c.todo : d.verdict[i] = c.verdict[i]

LEMMA ItemIs ==
    ASSUME NEW c \in Calibrations, c.todo # {}
    PROVE  Item(c) \in c.todo
<1> DEFINE R == OpToRel(<, Nat)
<1>1. IsWellFoundedOn(R, Nat)  BY NatLessThanWellFounded
<1>2. \A x, y \in Nat : <<y, x>> \in R <=> y < x
  BY DEF OpToRel
<1> HIDE DEF R
<1>3. c.todo \subseteq Nat
  <2>1. c.todo \subseteq Items /\ CalibrationItems \in Nat
    BY EvaluationAssumption DEF Calibrations
  <2> QED  BY <2>1 DEF Items
<1>4. PICK i \in c.todo : \A j \in c.todo : ~(<<j, i>> \in R)
  BY <1>1, <1>3, WFMin
<1>5. ASSUME NEW j \in c.todo PROVE i <= j
  <2>1. i \in Nat /\ j \in Nat /\ ~(<<j, i>> \in R)  BY <1>3, <1>4
  <2>2. ~(j < i)  BY <1>2, <2>1
  <2> QED  BY <2>1, <2>2
<1> QED  BY <1>5 DEF Item

LEMMA ResultHas ==
    ASSUME NEW c \in Calibrations, c.todo # {}, NEW verdict \in JudgeScores
    PROVE  LET d == Result(c, verdict)
           IN  /\ d \in Calibrations /\ d.purpose = c.purpose /\ d.complete = c.complete
               /\ d.todo \subseteq c.todo
               /\ \A i \in c.todo \ d.todo : d.verdict[i] = verdict
               /\ \A i \in Items \ c.todo : d.verdict[i] = c.verdict[i]
<1> DEFINE verdicts == [c.verdict EXCEPT ![Item(c)] = verdict]
           left == c.todo \ {Item(c)}
           d == Result(c, verdict)
<1>1. c.verdict \in Verdicts /\ c.todo \subseteq Items  BY DEF Calibrations
<1>2. Item(c) \in c.todo  BY ItemIs
<1>3. /\ verdicts \in Verdicts /\ left \in SUBSET Items /\ left \subseteq c.todo
      /\ \A i \in c.todo \ left : verdicts[i] = verdict
      /\ \A i \in Items \ c.todo : verdicts[i] = c.verdict[i]
  BY <1>1, <1>2 DEF Verdicts, JudgeScores
<1>4. d = [c EXCEPT !.verdict = verdicts, !.todo = left]  BY DEF Result
<1> HIDE DEF verdicts, left, d
<1>5. /\ d \in Calibrations /\ d.purpose = c.purpose /\ d.complete = c.complete
      /\ d.todo = left /\ d.verdict = verdicts
  BY ONLY <1>3, <1>4, c \in Calibrations DEF Calibrations
<1> QED  BY <1>3, <1>5 DEF d

LEMMA StoppedAsks ==
    ASSUME NEW c \in Calibrations, NEW reason \in Stops
    PROVE  LET d == StoppedBy(c, reason)
           IN  /\ d.purpose = c.purpose /\ d.todo = c.todo /\ d.verdict = c.verdict
               /\ d.complete = FALSE
BY DEF StoppedBy, Calibrations

\* A step of the calibration, which touches nothing else.
LEMMA CalibrationHonest ==
    ASSUME EvalInv, HonestInv, calibration.purpose \in {"evaluation", "resume", "profile"},
           Asked(calibration, calibration'), UNCHANGED <<evaluation, execution, artifacts, scripts>>
    PROVE  HonestInv'
<1> DEFINE c == calibration
           d == calibration'
<1>1. d.purpose = c.purpose  BY DEF Asked
<1>2. RunFits(evaluation', execution') /\ OverFits'
  BY <1>1 DEF HonestInv, OverFits
<1>3. ASSUME d.purpose = "evaluation"
      PROVE  /\ execution'.mode = "live" /\ evaluation'.skip = FALSE
             /\ d.complete = TRUE => Items \ d.todo \subseteq ScoredItems(d.verdict)
  <2>1. /\ execution.mode = "live" /\ evaluation.skip = FALSE
        /\ c.complete = TRUE => Items \ c.todo \subseteq ScoredItems(c.verdict)
    BY <1>1, <1>3 DEF HonestInv, ScoresFit
  <2>2. ASSUME d.complete = TRUE, NEW i \in Items \ d.todo
        PROVE  d.verdict[i] = "scored"
    <3>1. CASE i \in c.todo  BY <2>2, <3>1 DEF Asked
    <3>2. CASE i \notin c.todo
      <4>1. c.complete = TRUE /\ d.verdict[i] = c.verdict[i]  BY <2>2, <3>2 DEF Asked
      <4> QED  BY <2>1, <3>2, <4>1 DEF ScoredItems
    <3> QED  BY <3>1, <3>2
  <2>3. d.complete = TRUE => Items \ d.todo \subseteq ScoredItems(d.verdict)
    BY <2>2 DEF ScoredItems
  <2> QED  BY <2>1, <2>3
<1>4. ASSUME d.purpose = "resume"
      PROVE  \A i \in ScoredItems((Calibrated)'.verdict) :
                 i \notin d.todo /\ d.verdict[i] = "none"
  <2>1. (Calibrated)' = Calibrated  BY DEF Calibrated
  <2>2. \A i \in ScoredItems(Calibrated.verdict) :
            i \notin c.todo /\ c.verdict[i] = "none"
    BY <1>1, <1>4 DEF HonestInv, ScoresFit
  <2> QED  BY <2>1, <2>2 DEF Asked, ScoredItems
<1>5. evaluation'.stage \in {"off", "ended"}
  BY DEF HonestInv, ScoresFit
<1>6. ScoresFit'  BY <1>1, <1>3, <1>4, <1>5 DEF ScoresFit
<1>7. FilesFit'  BY <1>1 DEF HonestInv, FilesFit, Baseline, Calibrated
<1> QED  BY <1>2, <1>6, <1>7 DEF HonestInv

LEMMA CalibrationStopsHonest == ASSUME EvalInv, HonestInv, CalibrationStops PROVE HonestInv'
<1>1. PICK reason \in Stops : calibration' = StoppedBy(calibration, reason)
  BY DEF CalibrationStops, Stops
<1>2. /\ UNCHANGED <<evaluation, execution, artifacts, scripts>>
      /\ calibration.purpose \in {"evaluation", "resume", "profile"}
  BY DEF CalibrationStops, Calibrating
<1>3. calibration \in Calibrations  BY DEF EvalInv, CalibrationFits
<1>4. Asked(calibration, calibration')  BY <1>1, <1>3, StoppedAsks DEF Asked
<1> QED  BY <1>2, <1>4, CalibrationHonest

LEMMA ItemFailsHonest == ASSUME EvalInv, HonestInv, ItemFails PROVE HonestInv'
<1> DEFINE c == Result(calibration, "unscored")
           d == [c EXCEPT !.complete = FALSE]
           s == StoppedBy(d, "timeout")
<1>1. calibration' \in {d, s}  BY DEF ItemFails
<1>2. /\ UNCHANGED <<evaluation, execution, artifacts, scripts>>
      /\ calibration.purpose \in {"evaluation", "resume", "profile"} /\ calibration.todo # {}
  BY DEF ItemFails, MayScore, Calibrating
<1>3. calibration \in Calibrations  BY DEF EvalInv, CalibrationFits
<1>4. /\ c \in Calibrations /\ c.purpose = calibration.purpose /\ c.todo \subseteq calibration.todo
      /\ \A i \in Items \ calibration.todo : c.verdict[i] = calibration.verdict[i]
  BY <1>2, <1>3, ResultHas DEF JudgeScores
<1> HIDE DEF c
<1>5. /\ d \in Calibrations /\ d.purpose = c.purpose /\ d.todo = c.todo
      /\ d.verdict = c.verdict /\ d.complete = FALSE
  BY <1>4 DEF Calibrations
<1> HIDE DEF d
<1>6. s.purpose = d.purpose /\ s.todo = d.todo /\ s.verdict = d.verdict /\ s.complete = FALSE
  <2>1. "timeout" \in Stops  BY DEF Stops
  <2> QED  BY ONLY <1>5, <2>1, StoppedAsks
<1> HIDE DEF s
<1>7. Asked(calibration, calibration')  BY <1>1, <1>4, <1>5, <1>6 DEF Asked
<1> QED  BY <1>2, <1>7, CalibrationHonest

LEMMA ScoreItemHonest == ASSUME EvalInv, HonestInv, ScoreItem PROVE HonestInv'
<1>1. PICK n \in 1 .. MaxRequests, verdict \in JudgeScores :
        LET c == [Result(calibration, verdict) EXCEPT
                        !.calls = @ + n, !.cost = @ + n * ReservedCost.judge,
                        !.complete = @ /\ verdict = "scored"]
        IN  calibration' = IF c.calls > c.maxCalls THEN StoppedBy(c, "judge_calls")
                           ELSE IF CostSpent(c) >= c.maxCost THEN StoppedBy(c, "cost_cny")
                           ELSE c
  BY DEF ScoreItem
<1>2. /\ UNCHANGED <<evaluation, execution, artifacts, scripts>>
      /\ calibration.purpose \in {"evaluation", "resume", "profile"} /\ calibration.todo # {}
  BY DEF ScoreItem, MayScore, Calibrating
<1>3. calibration \in Calibrations /\ n \in Nat
  BY RequestsAre DEF EvalInv, CalibrationFits
<1> DEFINE r == Result(calibration, verdict)
           all == r.complete /\ verdict = "scored"
           more == r.calls + n
           cost == r.cost + n * ReservedCost.judge
           c == [r EXCEPT !.calls = more, !.cost = cost, !.complete = all]
<1>4. /\ r \in Calibrations /\ r.purpose = calibration.purpose
      /\ r.complete = calibration.complete /\ r.todo \subseteq calibration.todo
      /\ \A i \in calibration.todo \ r.todo : r.verdict[i] = verdict
      /\ \A i \in Items \ calibration.todo : r.verdict[i] = calibration.verdict[i]
  BY <1>2, <1>3, ResultHas
<1>5. \/ calibration' = StoppedBy(c, "judge_calls") \/ calibration' = StoppedBy(c, "cost_cny")
      \/ calibration' = c
  BY <1>1
<1>6. all \in BOOLEAN /\ (all = TRUE => r.complete = TRUE /\ verdict = "scored")
  <2>1. r.complete \in BOOLEAN  BY <1>4, Zenon DEF Calibrations
  <2> QED  BY <2>1, Zenon
<1> HIDE DEF r, all
<1>7. more \in Nat /\ cost \in Nat
  <2>1. r.calls \in Nat /\ r.cost \in Nat  BY <1>4 DEF Calibrations
  <2>2. ReservedCost.judge = 1  BY DEF ReservedCost
  <2> QED  BY <1>3, <2>1, <2>2
<1> HIDE DEF more, cost
<1>8. /\ c \in Calibrations /\ c.purpose = r.purpose /\ c.todo = r.todo
      /\ c.verdict = r.verdict /\ c.complete = all
  BY ONLY <1>4, <1>6, <1>7 DEF Calibrations
<1> HIDE DEF c
<1>9. Asked(calibration, c)
  BY <1>4, <1>6, <1>8 DEF Asked
<1>10. \A reason \in Stops : Asked(calibration, StoppedBy(c, reason))
  <2> SUFFICES ASSUME NEW reason \in Stops PROVE Asked(calibration, StoppedBy(c, reason))
    OBVIOUS
  <2> DEFINE s == StoppedBy(c, reason)
  <2>1. s.purpose = c.purpose /\ s.todo = c.todo /\ s.verdict = c.verdict /\ s.complete = FALSE
    BY <1>8, StoppedAsks
  <2> HIDE DEF s
  <2>2. Asked(calibration, s)  BY <1>9, <2>1 DEF Asked
  <2> QED  BY <2>2 DEF s
<1>11. Asked(calibration, calibration')
  <2>1. "judge_calls" \in Stops /\ "cost_cny" \in Stops  BY DEF Stops
  <2> QED  BY <1>5, <1>9, <1>10, <2>1
<1> QED  BY <1>2, <1>11, CalibrationHonest

-----------------------------------------------------------------------------
(* The calibration and the evaluation become one *)

LEMMA CalibrateHas ==
    ASSUME NEW purpose \in Purposes, NEW todo \in SUBSET Items, NEW existing, NEW maxCalls,
           NEW maxCost
    PROVE  LET c == Calibrate(purpose, todo, existing, maxCalls, maxCost)
           IN  c.purpose = purpose /\ c.todo = todo /\ \A i \in Items : c.verdict[i] = "none"
BY DEF Calibrate, NoCalibration

LEMMA WithCalibrationHas ==
    ASSUME NEW x \in Executions, NEW c \in Calibrations, NEW y, y = WithCalibration(x, c)
    PROVE  /\ y.mode = x.mode /\ y.completed = x.completed /\ y.resumed = x.resumed
           /\ Explained(x) => Explained(y)
           /\ y.complete = TRUE => x.complete = TRUE /\ c.complete = TRUE /\ c.todo = {}
<1> DEFINE calls == [x.calls EXCEPT !.judge = x.calls.judge + c.calls]
           late == x.timedOut \/ c.stop = "timeout"
           out == x.exhausted \/ c.stop \in {"judge_calls", "cost_cny"}
           all == x.complete /\ Complete(c)
           errors == IF Complete(c) THEN x.errors ELSE x.errors \cup {"judge_calibration"}
<1>1. /\ x.complete \in BOOLEAN /\ x.timedOut \in BOOLEAN /\ x.exhausted \in BOOLEAN
      /\ c.complete \in BOOLEAN
  BY Zenon DEF Executions, Calibrations
<1>2. /\ late \in BOOLEAN /\ out \in BOOLEAN /\ all \in BOOLEAN
      /\ (x.timedOut = TRUE => late = TRUE) /\ (x.exhausted = TRUE => out = TRUE)
      /\ (all = TRUE => x.complete = TRUE /\ c.complete = TRUE /\ c.todo = {})
      /\ (x.complete = TRUE /\ Complete(c) => all = TRUE)
  BY <1>1, Zenon DEF Complete
<1>3. /\ errors \in SUBSET {"evaluation", "judge_calibration"}
      /\ ~Complete(c) => errors # {}
      /\ x.errors # {} => errors # {}
  BY DEF Executions
<1>4. y = [x EXCEPT !.calls = calls, !.cost = x.cost + c.cost, !.timedOut = late,
                    !.exhausted = out, !.complete = all, !.errors = errors]
  BY DEF WithCalibration
<1> HIDE DEF calls, late, out, all, errors
<1>5. /\ y.mode = x.mode /\ y.completed = x.completed /\ y.resumed = x.resumed
      /\ y.timedOut = late /\ y.exhausted = out /\ y.complete = all /\ y.errors = errors
  BY ONLY x \in Executions, <1>4 DEF Executions
<1>6. Stopped(x) => Stopped(y)  BY <1>2, <1>5 DEF Stopped
<1>7. y.complete = FALSE => x.complete = FALSE \/ y.errors # {}
  BY <1>1, <1>2, <1>3, <1>5
<1>8. Explained(x) => Explained(y)  BY <1>3, <1>5, <1>6, <1>7 DEF Explained
<1> QED  BY <1>2, <1>5, <1>8

\* The evaluation is over, and nothing is written of it yet.
LEMMA OverIs ==
    ASSUME EvalInv, HonestInv, evaluation.stage = "ended",
           calibration.purpose \in {"none", "evaluation"}
    PROVE  /\ execution \in Executions /\ execution.resumed = FALSE
           /\ CasesDone(execution, evaluation.cases, evaluation.results)
           /\ Explained(execution) \/ execution.completed < Len(evaluation.cases)
           /\ artifacts.report = << >> /\ artifacts.calibration = << >>
<1>1. execution \in Executions /\ execution.resumed = FALSE  BY InCaseIs
<1>2. /\ CasesDone(execution, evaluation.cases, evaluation.results)
      /\ Explained(execution) \/ execution.completed < Len(evaluation.cases)
  BY DEF HonestInv, OverFits
<1>3. artifacts.report = << >>
  <2>1. evaluation.stage # "off" /\ calibration.purpose # "written"  OBVIOUS
  <2> QED  BY <2>1 DEF HonestInv, FilesFit
<1>4. artifacts.calibration = << >>  BY <1>3 DEF HonestInv, FilesFit
<1> QED  BY <1>1, <1>2, <1>3, <1>4

\* Its calibration begins or is over.
LEMMA OverGoesOn ==
    ASSUME EvalInv, HonestInv, evaluation.stage = "ended",
           calibration.purpose \in {"none", "evaluation"}, UNCHANGED <<evaluation, artifacts>>,
           OverFits', ScoresFit', calibration'.purpose # "written"
    PROVE  HonestInv'
<1>1. artifacts.report = << >> /\ artifacts.calibration = << >>  BY OverIs
<1>2. RunFits(evaluation', execution')
  BY DEF HonestInv, RunFits, CaseStages
<1>3. FilesFit'  BY <1>1 DEF HonestInv, FilesFit
<1> QED  BY <1>2, <1>3 DEF HonestInv

LEMMA CalibrateAfterRunHonest == ASSUME EvalInv, HonestInv, CalibrateAfterRun PROVE HonestInv'
<1> DEFINE left == LeftOf(execution.budget.judge, execution.calls.judge)
           live == execution.mode = "live" /\ ~evaluation.skip
<1>1. /\ evaluation.stage = "ended" /\ calibration.purpose = "none"
      /\ UNCHANGED <<evaluation, execution, artifacts, scripts>>
      /\ calibration' = IF live
                        THEN Calibrate("evaluation", Items, execution.cost, left,
                                       execution.budget.cost)
                        ELSE [NoCalibration EXCEPT !.purpose = "merged"]
  BY DEF CalibrateAfterRun
<1>2. /\ execution \in Executions /\ execution.resumed = FALSE
      /\ CasesDone(execution, evaluation.cases, evaluation.results)
      /\ Explained(execution) \/ execution.completed < Len(evaluation.cases)
  BY <1>1, OverIs
<1>3. live <=> execution.mode = "live" /\ evaluation.skip = FALSE
  <2>1. evaluation.skip \in BOOLEAN
    BY <1>1, InCaseIs, Zenon DEF Evaluations
  <2> QED  BY <2>1, Zenon
<1>4. CASE live
  <2> DEFINE c == Calibrate("evaluation", Items, execution.cost, left, execution.budget.cost)
  <2>1. c.purpose = "evaluation" /\ c.todo = Items
    BY CalibrateHas DEF Purposes
  <2>2. calibration' = c  BY <1>1, <1>4
  <2> HIDE DEF c
  <2>3. calibration'.purpose = "evaluation" /\ calibration'.todo = Items  BY <2>1, <2>2
  <2>4. execution'.mode = "live" /\ evaluation'.skip = FALSE  BY <1>1, <1>3, <1>4
  <2>5. ScoresFit'  BY <1>1, <2>3, <2>4 DEF ScoresFit
  <2>6. OverFits'  BY <1>1, <1>2 DEF OverFits
  <2> QED  BY <1>1, <2>3, <2>5, <2>6, OverGoesOn
<1>5. CASE ~live
  <2>1. calibration'.purpose = "merged"  BY <1>1, <1>5 DEF NoCalibration
  <2>2. execution.complete = FALSE => \/ Stopped(execution) \/ execution.errors # {}
                                      \/ execution.completed < Len(evaluation.cases)
    BY <1>2 DEF Explained
  <2> HIDE DEF live
  <2>3. Honest(execution, evaluation.cases, evaluation.results, evaluation.skip,
               calibration'.verdict)
    BY <1>2, <1>3, <1>5, <2>2 DEF Honest
  <2>4. ScoresFit'  BY <1>1, <2>1, <2>3 DEF ScoresFit
  <2>5. OverFits'  BY <2>1 DEF OverFits
  <2> QED  BY <1>1, <2>1, <2>4, <2>5, OverGoesOn
<1> QED  BY <1>4, <1>5

LEMMA MergeCalibrationHonest == ASSUME EvalInv, HonestInv, MergeCalibration PROVE HonestInv'
<1>1. /\ calibration.purpose = "evaluation" /\ UNCHANGED <<evaluation, artifacts, scripts>>
      /\ execution' = WithCalibration(execution, calibration)
      /\ calibration'.purpose = "merged" /\ calibration'.verdict = calibration.verdict
  BY DEF MergeCalibration, NoCalibration
<1>2. evaluation.stage = "ended" /\ calibration \in Calibrations
  BY <1>1 DEF EvalInv, CalibrationFits
<1>3. /\ execution \in Executions /\ execution.resumed = FALSE
      /\ CasesDone(execution, evaluation.cases, evaluation.results)
      /\ Explained(execution) \/ execution.completed < Len(evaluation.cases)
  BY <1>1, <1>2, OverIs
<1>4. /\ execution'.mode = execution.mode /\ execution'.completed = execution.completed
      /\ execution'.resumed = execution.resumed
      /\ Explained(execution) => Explained(execution')
      /\ execution'.complete = TRUE =>
             /\ execution.complete = TRUE
             /\ calibration.complete = TRUE /\ calibration.todo = {}
  <2>1. execution \in Executions /\ calibration \in Calibrations
        /\ execution' = WithCalibration(execution, calibration)
    BY <1>1, <1>2, <1>3
  <2> QED  BY ONLY <2>1, WithCalibrationHas
<1>5. calibration.complete = TRUE /\ calibration.todo = {} =>
          ScoredItems(calibration.verdict) = Items
  BY <1>1 DEF HonestInv, ScoresFit, ScoredItems
<1>6. CasesDone(execution', evaluation.cases, evaluation.results)
  BY <1>3, <1>4 DEF CasesDone
<1>7. execution'.complete = FALSE =>
          \/ Stopped(execution') \/ execution'.errors # {}
          \/ execution'.completed < Len(evaluation.cases)
  BY <1>3, <1>4 DEF Explained
<1>8. Honest(execution', evaluation'.cases, evaluation'.results, evaluation'.skip,
             calibration'.verdict)
  BY <1>1, <1>3, <1>4, <1>5, <1>6, <1>7 DEF Honest
<1>9. ScoresFit'  BY <1>1, <1>2, <1>8 DEF ScoresFit
<1>10. OverFits'  BY <1>1 DEF OverFits
<1> QED  BY <1>1, <1>2, <1>9, <1>10, OverGoesOn

-----------------------------------------------------------------------------
(* What is in the files *)

\* A script ends: what is left of it is in the files.
LEMMA ScriptEndsHonest ==
    ASSUME NEW k, ScriptEnds(k), FilesFit'
    PROVE  HonestInv'
<1>1. /\ evaluation'.stage = "off" /\ evaluation'.observations = << >>
      /\ calibration'.purpose = "none"
  BY DEF ScriptEnds, NoEvaluation, NoCalibration
<1>2. RunFits(evaluation', execution')  BY <1>1 DEF RunFits, CaseStages
<1>3. OverFits' /\ ScoresFit'  BY <1>1 DEF OverFits, ScoresFit
<1> QED  BY <1>2, <1>3 DEF HonestInv

LEMMA FilesStay ==
    ASSUME HonestInv, artifacts' = artifacts, evaluation'.stage = "off",
           calibration'.purpose \notin {"merged", "written"}
    PROVE  FilesFit'
BY DEF HonestInv, FilesFit, Baseline, Calibrated

LEMMA NothingIsOff ==
    ASSUME NEW k, ScriptEnds(k)
    PROVE  evaluation'.stage = "off" /\ calibration'.purpose \notin {"merged", "written"}
BY DEF ScriptEnds, NoEvaluation, NoCalibration

LEMMA KillScriptHonest == ASSUME EvalInv, HonestInv, KillScript PROVE HonestInv'
<1>1. ScriptEnds(1) /\ artifacts' = artifacts  BY DEF KillScript
<1>2. FilesFit'  BY ONLY HonestInv, <1>1, FilesStay, NothingIsOff
<1> QED  BY ONLY <1>1, <1>2, ScriptEndsHonest

\* Another script, which has no evaluation in memory.
LEMMA ScriptGoesOn ==
    ASSUME HonestInv, evaluation.stage = "off", UNCHANGED <<evaluation, artifacts>>,
           calibration'.purpose \notin {"merged", "written"}, ScoresFit'
    PROVE  HonestInv'
<1>1. FilesFit'  BY FilesStay
<1>2. RunFits(evaluation', execution')  BY DEF HonestInv, RunFits, CaseStages
<1>3. OverFits'  BY DEF OverFits
<1> QED  BY <1>1, <1>2, <1>3 DEF HonestInv

LEMMA WriteReportHonest == ASSUME EvalInv, HonestInv, WriteReport PROVE HonestInv'
<1> DEFINE report == ReportOf(execution, evaluation, calibration)
           file == <<report>>
<1>1. /\ calibration.purpose = "merged" /\ UNCHANGED <<evaluation, execution, scripts>>
      /\ artifacts' = [artifacts EXCEPT !.report = file]
      /\ calibration' = [calibration EXCEPT !.purpose = "written"]
  BY DEF WriteReport
<1>2. /\ execution \in Executions /\ evaluation \in Evaluations
      /\ calibration \in Calibrations /\ artifacts \in Artifacts
  BY DEF EvalInv, EvaluationFits, ExecutionFits, CalibrationFits, ArtifactsFit
<1>3. /\ report \in ReportFiles /\ report.execution = execution
      /\ report.results = evaluation.results /\ report.cases = evaluation.cases
      /\ report.skip = evaluation.skip /\ report.verdict = calibration.verdict
  BY <1>2 DEF ReportOf, ReportFiles, Evaluations, Calibrations
<1> HIDE DEF report
<1>4. file \in Seq(ReportFiles) /\ file # << >> /\ file[1] = report  BY <1>3
<1> HIDE DEF file
<1>5. /\ artifacts'.report = file /\ artifacts'.calibration = artifacts.calibration
      /\ artifacts'.completion = artifacts.completion
  BY ONLY <1>1, <1>2, <1>4 DEF Artifacts
<1>6. (Baseline)' = report /\ (Calibrated)' = Calibrated
  BY <1>4, <1>5 DEF Baseline, Calibrated
<1>7. calibration'.purpose = "written" /\ calibration'.verdict = calibration.verdict
  BY ONLY <1>1, <1>2 DEF Calibrations
<1>8. Honest(report.execution, report.cases, report.results, report.skip, report.verdict)
  BY <1>1, <1>3 DEF HonestInv, ScoresFit
<1>9. artifacts.calibration # << >> =>
          ScoredItems(Calibrated.verdict) \subseteq ScoredItems(report.verdict)
  BY <1>1, <1>3 DEF HonestInv, FilesFit
<1>10. artifacts.completion # << >> => (artifacts.completion[1].completed = TRUE =>
           ScoredItems(artifacts.completion[1].verdict) = Items)
  BY DEF HonestInv, FilesFit
<1>11. FilesFit'
  BY <1>3, <1>4, <1>5, <1>6, <1>7, <1>8, <1>9, <1>10 DEF FilesFit
<1>12. RunFits(evaluation', execution') /\ OverFits'
  BY <1>1, <1>7 DEF HonestInv, OverFits
<1>13. ScoresFit'
  <2>1. evaluation.stage \in {"off", "ended"}  BY <1>1 DEF HonestInv, ScoresFit
  <2> QED  BY <1>1, <1>7, <2>1 DEF ScoresFit
<1> QED  BY <1>11, <1>12, <1>13 DEF HonestInv

LEMMA WriteCalibrationHonest == ASSUME EvalInv, HonestInv, WriteCalibration PROVE HonestInv'
<1> DEFINE content == [verdict |-> calibration.verdict, calls |-> calibration.calls,
                       cost |-> calibration.cost]
           file == <<content>>
<1>1. /\ calibration.purpose = "written" /\ ScriptEnds(0)
      /\ artifacts' = [artifacts EXCEPT !.calibration = file]
  BY DEF WriteCalibration
<1>2. /\ artifacts.report # << >> /\ calibration.verdict = Baseline.verdict
      /\ Honest(Baseline.execution, Baseline.cases, Baseline.results, Baseline.skip,
                Baseline.verdict)
      /\ artifacts.completion # << >> => (artifacts.completion[1].completed = TRUE =>
             ScoredItems(artifacts.completion[1].verdict) = Items)
  BY <1>1 DEF HonestInv, FilesFit
<1>3. calibration \in Calibrations /\ artifacts \in Artifacts
  BY DEF EvalInv, CalibrationFits, ArtifactsFit
<1>4. content \in CalibrationFiles /\ content.verdict = calibration.verdict
  BY <1>3 DEF Calibrations, CalibrationFiles
<1> HIDE DEF content
<1>5. file \in Seq(CalibrationFiles) /\ file[1] = content  BY <1>4
<1> HIDE DEF file
<1>6. /\ artifacts'.report = artifacts.report /\ artifacts'.calibration = file
      /\ artifacts'.completion = artifacts.completion
  BY ONLY <1>1, <1>3, <1>5 DEF Artifacts
<1>7. (Baseline)' = Baseline /\ (Calibrated)' = content
  BY <1>5, <1>6 DEF Baseline, Calibrated
<1>8. evaluation'.stage = "off" /\ calibration'.purpose \notin {"merged", "written"}
  BY ONLY <1>1, NothingIsOff
<1>9. FilesFit'  BY <1>2, <1>4, <1>6, <1>7, <1>8 DEF FilesFit
<1> QED  BY ONLY <1>1, <1>9, ScriptEndsHonest

LEMMA ResumeCalibrationHonest == ASSUME EvalInv, HonestInv, ResumeCalibration PROVE HonestInv'
<1> DEFINE missing == Missing(Calibrated.verdict)
           asked == 2 * Cardinality(missing)
           c == Calibrate("resume", missing, 0, asked, ResumeCap)
<1>1. /\ evaluation.stage = "off" /\ calibration' = c
      /\ UNCHANGED <<evaluation, execution, artifacts>>
  BY DEF ResumeCalibration
<1>2. missing \in SUBSET Items /\ "resume" \in Purposes  BY DEF Missing, Purposes
<1>3. missing \cap ScoredItems(Calibrated.verdict) = {}  BY DEF Missing
<1>4. ScoredItems(Calibrated.verdict) \subseteq Items  BY DEF ScoredItems
<1> HIDE DEF missing, asked
<1>5. c.purpose = "resume" /\ c.todo = missing /\ \A i \in Items : c.verdict[i] = "none"
  BY ONLY <1>2, CalibrateHas
<1> HIDE DEF c
<1>6. (Calibrated)' = Calibrated  BY <1>1 DEF Calibrated
<1>7. ScoresFit'  BY <1>1, <1>3, <1>4, <1>5, <1>6 DEF ScoresFit
<1> QED  BY <1>1, <1>5, <1>7, ScriptGoesOn

LEMMA QualifyJudgeHonest == ASSUME EvalInv, HonestInv, QualifyJudge PROVE HonestInv'
<1> DEFINE calls == 2 * CalibrationItems
           cost == MaxRequests * CalibrationItems + 1
           c == Calibrate("profile", Items, 0, calls, cost)
<1>1. /\ evaluation.stage = "off" /\ calibration' = c
      /\ UNCHANGED <<evaluation, execution, artifacts>>
  BY DEF QualifyJudge
<1>2. Items \in SUBSET Items /\ "profile" \in Purposes  BY DEF Purposes
<1> HIDE DEF calls, cost
<1>3. c.purpose = "profile"  BY ONLY <1>2, CalibrateHas
<1> HIDE DEF c
<1>4. ScoresFit'  BY <1>1, <1>3 DEF ScoresFit
<1> QED  BY <1>1, <1>3, <1>4, ScriptGoesOn

\* The saved answers are judged by a judge that passed the gate.
LEMMA SavedAnswersHonest ==
    ASSUME HonestInv, calibration.purpose \in {"profile", "qualified"},
           UNCHANGED <<evaluation, execution, artifacts>>, calibration'.purpose = "qualified",
           ScoredItems(calibration'.verdict) = Items
    PROVE  HonestInv'
<1>1. evaluation.stage \in {"off", "ended"}  BY DEF HonestInv, ScoresFit
<1>2. RunFits(evaluation', execution')  BY DEF HonestInv
<1>3. OverFits' /\ ScoresFit'  BY <1>1 DEF OverFits, ScoresFit
<1>4. FilesFit'  BY DEF HonestInv, FilesFit, Baseline, Calibrated
<1> QED  BY <1>2, <1>3, <1>4 DEF HonestInv

LEMMA PassGateHonest == ASSUME EvalInv, HonestInv, PassGate PROVE HonestInv'
<1>1. /\ calibration.purpose = "profile" /\ UNCHANGED <<evaluation, execution, artifacts>>
      /\ ScoredItems(calibration.verdict) = Items
      /\ calibration'.purpose = "qualified" /\ calibration'.verdict = calibration.verdict
  BY DEF PassGate, NoCalibration
<1> QED  BY <1>1, SavedAnswersHonest

LEMMA JudgeSavedHonest == ASSUME EvalInv, HonestInv, JudgeSaved PROVE HonestInv'
<1>1. artifacts' = artifacts /\ calibration.purpose = "qualified"  BY DEF JudgeSaved
<1>2. CASE ScriptEnds(0)
  <2>1. FilesFit'  BY ONLY HonestInv, <1>1, <1>2, FilesStay, NothingIsOff
  <2> QED  BY ONLY <1>2, <2>1, ScriptEndsHonest
<1>3. ASSUME NEW verdict \in JudgeScores,
             calibration' = [calibration EXCEPT !.judged = Append(@, verdict)],
             UNCHANGED <<evaluation, execution, scripts>>
      PROVE  HonestInv'
  <2> DEFINE judged == Append(calibration.judged, verdict)
  <2>1. calibration \in Calibrations  BY DEF EvalInv, CalibrationFits
  <2>2. calibration' = [calibration EXCEPT !.judged = judged]  BY <1>3
  <2> HIDE DEF judged
  <2>3. calibration'.purpose = calibration.purpose /\ calibration'.verdict = calibration.verdict
    BY ONLY <2>1, <2>2 DEF Calibrations
  <2>4. ScoredItems(calibration.verdict) = Items  BY <1>1 DEF HonestInv, ScoresFit
  <2> QED  BY <1>1, <1>3, <2>3, <2>4, SavedAnswersHonest
<1> QED  BY <1>2, <1>3 DEF JudgeSaved

LEMMA WriteCompletionHonest == ASSUME EvalInv, HonestInv, WriteCompletion PROVE HonestInv'
<1> DEFINE completed == /\ calibration.purpose = "qualified"
                        /\ "unscored" \notin Range(calibration.judged)
           content == [verdict |-> calibration.verdict, completed |-> completed]
           file == <<content>>
<1>1. ScriptEnds(0) /\ artifacts' = [artifacts EXCEPT !.completion = file]
  BY DEF WriteCompletion
<1>2. calibration.verdict \in Verdicts /\ artifacts \in Artifacts
  BY DEF EvalInv, CalibrationFits, Calibrations, ArtifactsFit
<1>3. completed \in BOOLEAN /\ (completed = TRUE => calibration.purpose = "qualified")
  BY Zenon
<1> HIDE DEF completed
<1>4. /\ content \in CompletionFiles /\ content.verdict = calibration.verdict
      /\ content.completed = completed
  BY <1>2, <1>3 DEF CompletionFiles
<1> HIDE DEF content
<1>5. file \in Seq(CompletionFiles) /\ file[1] = content  BY <1>4
<1> HIDE DEF file
<1>6. /\ artifacts'.report = artifacts.report
      /\ artifacts'.calibration = artifacts.calibration /\ artifacts'.completion = file
  BY ONLY <1>1, <1>2, <1>5 DEF Artifacts
<1>7. content.completed = TRUE => ScoredItems(content.verdict) = Items
  BY <1>3, <1>4 DEF HonestInv, ScoresFit
<1>8. evaluation'.stage = "off" /\ calibration'.purpose \notin {"merged", "written"}
  BY ONLY <1>1, NothingIsOff
<1>9. (Baseline)' = Baseline /\ (Calibrated)' = Calibrated
  BY <1>6 DEF Baseline, Calibrated
<1>10. FilesFit'
  BY <1>5, <1>6, <1>7, <1>8, <1>9 DEF HonestInv, FilesFit
<1> QED  BY ONLY <1>1, <1>10, ScriptEndsHonest

\* A resume says that the evaluation is complete when all of it was scored in time.
LEMMA ResumedHas ==
    ASSUME NEW x \in Executions, NEW c \in Calibrations, NEW verdict, NEW y,
           y = Resumed(x, c, verdict)
    PROVE  /\ y.completed = x.completed /\ y.resumed = TRUE
           /\ y.complete = TRUE => ScoredItems(verdict) = Items
           /\ y.complete = FALSE => \/ ScoredItems(verdict) # Items \/ Stopped(y)
                                    \/ x.completed # Len(Baseline.cases)
<1> DEFINE calls == [x.calls EXCEPT !.judge = x.calls.judge + c.calls]
           all == /\ ScoredItems(verdict) = Items /\ ~x.timedOut
                  /\ x.completed = Len(Baseline.cases)
           out == x.exhausted /\ ~all
           errors == IF all THEN x.errors \ {"judge_calibration"} ELSE x.errors
<1>1. x.timedOut \in BOOLEAN  BY Zenon DEF Executions
<1>2. /\ all \in BOOLEAN /\ out \in BOOLEAN
      /\ (all = TRUE => ScoredItems(verdict) = Items)
      /\ (all = FALSE => \/ ScoredItems(verdict) # Items \/ x.timedOut = TRUE
                         \/ x.completed # Len(Baseline.cases))
  BY <1>1, Zenon
<1>3. y = [x EXCEPT !.calls = calls, !.cost = x.cost + c.cost,
                    !.maxCost = x.cost + ResumeCap, !.resumed = TRUE, !.complete = all,
                    !.exhausted = out, !.errors = errors]
  BY DEF Resumed
<1> HIDE DEF calls, all, out, errors
<1>4. /\ y.completed = x.completed /\ y.resumed = TRUE /\ y.complete = all
      /\ y.timedOut = x.timedOut
  BY ONLY x \in Executions, <1>3 DEF Executions
<1> QED  BY <1>2, <1>4 DEF Stopped

LEMMA MergeResumeHonest == ASSUME EvalInv, HonestInv, MergeResume PROVE HonestInv'
<1> DEFINE verdict == Joined(Calibrated, calibration)
           x == Baseline.execution
<1>1. /\ calibration.purpose = "resume" /\ UNCHANGED <<artifacts, scripts>>
      /\ execution' = Resumed(x, calibration, verdict)
      /\ evaluation'.results = Baseline.results /\ evaluation'.cases = Baseline.cases
      /\ evaluation'.skip = Baseline.skip /\ evaluation'.stage = "off"
      /\ evaluation'.observations = << >>
      /\ calibration'.purpose = "merged" /\ calibration'.verdict = verdict
  BY DEF MergeResume, NoEvaluation, NoCalibration
<1>2. /\ calibration \in Calibrations /\ artifacts.report # << >>
      /\ artifacts.calibration # << >>
  BY <1>1 DEF EvalInv, CalibrationFits
<1>3. Baseline \in ReportFiles /\ Len(Baseline.results) <= Len(Baseline.cases)
  BY <1>2, FilesAre
<1>4. /\ x \in Executions /\ Len(Baseline.cases) \in Nat /\ x.completed \in Nat
  BY <1>3 DEF ReportFiles, Executions
<1>5. Honest(x, Baseline.cases, Baseline.results, Baseline.skip, Baseline.verdict)
  BY <1>2 DEF HonestInv, FilesFit
<1>6. ScoredItems(Calibrated.verdict) \subseteq ScoredItems(verdict)
  <2>1. \A i \in ScoredItems(Calibrated.verdict) : calibration.verdict[i] = "none"
    BY <1>1 DEF HonestInv, ScoresFit
  <2>2. ASSUME NEW i \in ScoredItems(Calibrated.verdict) PROVE verdict[i] = "scored"
    <3>1. i \in Items /\ Calibrated.verdict[i] = "scored" /\ calibration.verdict[i] = "none"
      BY <2>1 DEF ScoredItems
    <3> QED  BY <3>1 DEF Joined
  <2> HIDE DEF verdict
  <2> QED  BY <2>2 DEF ScoredItems
<1> HIDE DEF verdict
<1>7. /\ execution'.completed = x.completed /\ execution'.resumed = TRUE
      /\ execution'.complete = TRUE => ScoredItems(verdict) = Items
      /\ execution'.complete = FALSE =>
             \/ ScoredItems(verdict) # Items \/ Stopped(execution')
             \/ x.completed # Len(Baseline.cases)
  <2> HIDE DEF x
  <2> QED  BY ONLY <1>1, <1>2, <1>4, ResumedHas
<1>8. x.completed <= Len(Baseline.cases)  BY <1>5 DEF Honest, CasesDone
<1>9. x.completed # Len(Baseline.cases) => x.completed < Len(Baseline.cases)  BY <1>4, <1>8
<1>10. CasesDone(execution', Baseline.cases, Baseline.results)
  BY <1>5, <1>7 DEF Honest, CasesDone
<1>11. Honest(execution', Baseline.cases, Baseline.results, Baseline.skip, verdict)
  BY <1>7, <1>9, <1>10 DEF Honest
<1>12. ScoresFit'  BY <1>1, <1>11 DEF ScoresFit
<1>13. (Baseline)' = Baseline /\ (Calibrated)' = Calibrated  BY <1>1 DEF Baseline, Calibrated
<1>14. FilesFit'  BY <1>1, <1>2, <1>6, <1>13 DEF HonestInv, FilesFit
<1>15. RunFits(evaluation', execution') /\ OverFits'
  BY <1>1 DEF RunFits, CaseStages, OverFits
<1> QED  BY <1>12, <1>14, <1>15 DEF HonestInv

-----------------------------------------------------------------------------
LEMMA HonestInit == EvalInit => HonestInv
<1> SUFFICES ASSUME EvalInit PROVE HonestInv
  OBVIOUS
<1>1. /\ evaluation.stage = "off" /\ evaluation.observations = << >>
      /\ calibration.purpose = "none"
  BY DEF EvalInit, NoEvaluation, NoCalibration
<1>2. RunFits(evaluation, execution)  BY <1>1 DEF RunFits, CaseStages
<1>3. OverFits /\ ScoresFit  BY <1>1 DEF OverFits, ScoresFit
<1>4. FilesFit  BY <1>1 DEF EvalInit, FilesFit
<1> QED  BY <1>2, <1>3, <1>4 DEF HonestInv

LEMMA HonestStep == EvalInv /\ HonestInv /\ [EvalNext]_evalVars => HonestInv'
<1> SUFFICES ASSUME EvalInv, HonestInv, [EvalNext]_evalVars PROVE HonestInv'
  OBVIOUS
<1>1. CASE UNCHANGED evalVars
  <2>1. RunFits(evaluation', execution')  BY <1>1 DEF evalVars, HonestInv
  <2>2. OverFits' /\ ScoresFit'
    BY <1>1 DEF evalVars, HonestInv, OverFits, ScoresFit, Calibrated
  <2>3. FilesFit'  BY <1>1 DEF evalVars, HonestInv, FilesFit, Baseline, Calibrated
  <2> QED  BY <2>1, <2>2, <2>3 DEF HonestInv
<1>2. CASE EvalNext
  BY <1>2, StartEvaluationHonest, BeginCaseHonest, RetrieveHonest, AskCandidateHonest,
     CandidateDoneHonest, SkipObservationHonest, StopJudgingHonest, AskJudgeHonest,
     JudgeDoneHonest, AskEmbeddingHonest, CloseCaseHonest, EndEvaluationHonest,
     CalibrateAfterRunHonest, CalibrationStopsHonest, ScoreItemHonest, ItemFailsHonest,
     MergeCalibrationHonest, WriteReportHonest, WriteCalibrationHonest,
     ResumeCalibrationHonest, MergeResumeHonest, QualifyJudgeHonest, PassGateHonest,
     JudgeSavedHonest, WriteCompletionHonest, KillScriptHonest, Zenon DEF EvalNext
<1> QED  BY <1>1, <1>2

\* At every point of a script, what the evaluation, its calibration and the files say of
\* their completeness fits what they hold: the inductive invariant of the next theorem.
THEOREM HonestInvariant == EvalSpec => []HonestInv
<1> QED  BY HonestInit, HonestStep, EvalInvariant, PTL DEF EvalSpec

\* A report is honest about its own completeness (runner.py:1388-1734,
\* run_agent_semantic_evaluation.py:865-918): for every selection of cases, budget, sample
\* rate and number of retries, and however often its calibration is resumed or killed, it is
\* complete only when every case was observed, judged and calibrated as asked, says why when
\* it is not, loses no score of the calibration file, and calls no case completed that was
\* not observed; a judge is qualified only when all its calibration is scored.
THEOREM ReportsAreHonest == EvalSpec => []ReportIsHonest
<1>1. ASSUME EvalInv, HonestInv PROVE ReportIsHonest
  <2>1. ASSUME artifacts.report # << >> PROVE SaidAndDone(Baseline)
    <3> DEFINE r == Baseline
               x == r.execution
    <3>1. r \in ReportFiles /\ x \in Executions
      BY <1>1, <2>1, FilesAre DEF ReportFiles
    <3>2. /\ x.complete \in BOOLEAN /\ x.resumed \in BOOLEAN /\ r.skip \in BOOLEAN
          /\ x.exhausted \in BOOLEAN /\ x.timedOut \in BOOLEAN
      BY <3>1, Zenon DEF ReportFiles, Executions
    <3>3. Honest(x, r.cases, r.results, r.skip, r.verdict)
      BY <1>1, <2>1 DEF HonestInv, FilesFit
    <3>4. artifacts.calibration # << >> =>
              ScoredItems(Calibrated.verdict) \subseteq ScoredItems(r.verdict)
      BY <1>1, <2>1 DEF HonestInv, FilesFit
    <3>5. \A i \in DOMAIN r.results :
              WholeIn(x.mode, r.cases, r.results, i) => Whole(r, i)
      BY DEF WholeIn, Whole, Scores
    <3>6. x.complete = TRUE /\ x.mode # "dry-run" /\ x.resumed = FALSE =>
              Len(r.results) = Len(r.cases) /\ \A i \in DOMAIN r.results : Whole(r, i)
      BY <3>3, <3>5 DEF Honest, CasesDone
    <3>7. \A i \in DOMAIN r.results :
              r.results[i].status = "completed" /\ i < Len(r.results) =>
                  Observes(r.cases[i], r.results[i])
      BY <3>3 DEF Honest, CasesDone
    <3>8. /\ x.complete = TRUE /\ x.mode = "live" /\ x.resumed = FALSE /\ r.skip = FALSE =>
                 ScoredItems(r.verdict) = Items
          /\ x.complete = TRUE /\ x.resumed = TRUE => ScoredItems(r.verdict) = Items
      BY <3>3 DEF Honest
    <3>9. x.complete = FALSE =>
              \/ x.exhausted = TRUE \/ x.timedOut = TRUE \/ x.errors # {}
              \/ x.completed < Len(r.cases) \/ ScoredItems(r.verdict) # Items
      BY <3>3 DEF Honest, Stopped
    <3> HIDE DEF r
    <3>10. SaidAndDone(r)
      BY ONLY <3>2, <3>4, <3>6, <3>7, <3>8, <3>9, Zenon DEF SaidAndDone
    <3> QED  BY <3>10 DEF r
  <2>2. ASSUME artifacts.completion # << >>, artifacts.completion[1].completed
        PROVE  ScoredItems(artifacts.completion[1].verdict) = Items
    <3>1. artifacts.completion \in Seq(CompletionFiles)
      BY <1>1 DEF EvalInv, ArtifactsFit, Artifacts
    <3>2. artifacts.completion[1] \in CompletionFiles  BY <2>2, <3>1
    <3>3. artifacts.completion[1].completed \in BOOLEAN
      BY <3>2, Zenon DEF CompletionFiles
    <3>4. artifacts.completion[1].completed = TRUE  BY <2>2, <3>3, Zenon
    <3> QED  BY <1>1, <2>2, <3>4 DEF HonestInv, FilesFit
  <2> QED  BY <2>1, <2>2, Zenon DEF ReportIsHonest
<1> QED  BY <1>1, EvalInvariant, HonestInvariant, PTL
==============================================================================
