-------------------------- MODULE ConsolidationProofs --------------------------
(***************************************************************************)
(* Proofs about what a conversation leaves behind: Consolidation and       *)
(* SegmentSummary, for any conversations, handlers and values of the       *)
(* bounds.                                                                 *)
(*                                                                         *)
(* Of the consolidations, OwedIsOwned is inductive as it stands.           *)
(* CommittedOnce is not: that a draft is committed once rests on the entry *)
(* the call read before it waited, which Reads relates to the entry there  *)
(* is now.                                                                 *)
(*                                                                         *)
(* Of the summaries, neither property is inductive.  NothingHidden rests   *)
(* on what a call under way may still write: it was asked for a segment    *)
(* with a whole summary, up to a message that was said (CallsFit), and the *)
(* segment of a final one has not changed since, because it has no other   *)
(* (FinalsFit).  SummaryOwed rests on the segment the maintenance task was *)
(* given being the one its call is about.                                  *)
(***************************************************************************)
EXTENDS Consolidation, SegmentSummary, FiniteSetTheorems, TLAPS

Kinds == {"leave", "close", "maintenance", "retry"}
Works == [on : Stays, as : Kinds, seen : Entries, draft : Drafts]

-----------------------------------------------------------------------------
(* Types *)

LEMMA BoundsAre ==
  ASSUME StayTypeOK
  PROVE  /\ bound.failures \in Nat /\ bound.visits \in [Stays -> Nat]
         /\ failures \in Nat /\ failures <= bound.failures
<1>1. bound \in [visits : [Stays -> Nat], shared : SUBSET Stays, handlers : Nat, failures : Nat]
  BY ConsolidationAssumption DEF StayTypeOK
<1> QED  BY <1>1 DEF StayTypeOK

LEMMA InitType == StayInit => StayTypeOK
<1> SUFFICES ASSUME StayInit
             PROVE  StayTypeOK
  OBVIOUS
<1>1. NoDraft \in Drafts /\ NoEntry \in Entries
  BY DEF NoDraft, NoEntry, Drafts, Entries
<1>2. draft \in [Stays -> Drafts] /\ entry \in [Stays -> Entries]
  BY <1>1 DEF StayInit
<1>3. departed \in BOOLEAN /\ overlap \in BOOLEAN  BY Zenon DEF StayInit
<1>4. bound \in StayBounds /\ bound.failures \in Nat
  BY ConsolidationAssumption DEF StayInit
<1>5. failures \in 0..bound.failures  BY <1>4 DEF StayInit
<1> QED  BY <1>2, <1>3, <1>4, <1>5 DEF StayInit, StayTypeOK

\* The parts of the state that most steps leave alone, and what they may change.
WaitsType ==
    /\ seat \in [Stays -> {"away", "in", "left", "over", "gone"}]
    /\ joining \subseteq Stays /\ leaving \subseteq Stays
    /\ closing \in [Stays -> {"no", "listed", "settled", "done"}]
TasksType ==
    leaveTask \in [Stays -> {"none", "due", "last"}] /\ stranded \subseteq Stays
OwnType ==
    /\ draft \in [Stays -> Drafts] /\ entry \in [Stays -> Entries]
    /\ goal \in {"open", "done"} /\ met \in Nat /\ departed \in BOOLEAN
    /\ commits \in [Stays -> Nat]
CallsType ==
    /\ work \subseteq Works /\ overlap \in BOOLEAN /\ visits \in [Stays -> Nat]
    /\ bound \in StayBounds /\ failures \in 0..bound.failures

LEMMA TypeParts == StayTypeOK <=> WaitsType /\ TasksType /\ OwnType /\ CallsType
BY Zenon DEF StayTypeOK, WaitsType, TasksType, OwnType, CallsType, Works, Kinds

LEMMA ClosedSeatType ==
  ASSUME WaitsType, NEW c \in Stays, Shuts(c)
  PROVE  seat' \in [Stays -> {"away", "in", "left", "over", "gone"}]
<1>1. ClosedSeat[c] \in {"away", "in", "left", "over", "gone"}
  BY DEF WaitsType, ClosedSeat
<1> QED  BY <1>1 DEF WaitsType, Shuts

\* What begins a consolidation keeps the types of the calls under way.
LEMMA BegunType ==
  ASSUME StayTypeOK, NEW c \in Stays, NEW kind \in Kinds, Begun(c, kind)
  PROVE  /\ work' \subseteq Works
         /\ overlap' \in BOOLEAN
         /\ draft' = draft
<1>1. entry[c] \in Entries /\ draft[c] \in Drafts  BY DEF StayTypeOK
<1>2. work \subseteq Works  BY DEF StayTypeOK, Works, Kinds
<1>3. [on |-> c, as |-> kind, seen |-> entry[c], draft |-> draft[c]] \in Works
  BY <1>1 DEF Works
<1>4. work' \subseteq Works  BY <1>2, <1>3 DEF Begun
<1>5. overlap' \in BOOLEAN  BY Zenon DEF Begun, StayTypeOK
<1> QED  BY <1>4, <1>5 DEF Begun

\* The end of a consolidation keeps the types of what it commits.
LEMMA EndedType ==
  ASSUME StayTypeOK, NEW w \in work, Ended(w), bound' = bound
  PROVE  StayTypeOK'
<1>1. /\ w.on \in Stays /\ w.seen \in Entries /\ w.draft \in Drafts
  BY DEF StayTypeOK
<1>2. WaitsType' /\ TasksType'
  BY TypeParts DEF Ended, waits, tasks, WaitsType, TasksType
<1>3. CallsType'
  <2>1. /\ work' = work \ {w}
        /\ UNCHANGED <<visits, overlap, failures, bound>>
    BY DEF Ended
  <2> QED  BY <2>1, TypeParts, Zenon DEF CallsType
<1>4. OwnType'
  <2>1. CASE entry[w.on].st = "succeeded"
    <3>1. UNCHANGED <<draft, entry, goal, met, departed, commits>>
      BY <2>1 DEF Ended, ownVars
    <3> QED  BY <3>1, TypeParts DEF OwnType
  <2>2. CASE entry[w.on].st # "succeeded"
    <3>1. PICK ok \in BOOLEAN, new \in BOOLEAN :
            LET first == ~w.seen.committed
                still == IF first /\ w.draft.goal # "none" THEN w.draft.goal ELSE goal
                after == IF ok /\ new THEN "open" ELSE still
            IN /\ commits' = [commits EXCEPT ![w.on] = IF first THEN @ + 1 ELSE @]
               /\ goal' = after
               /\ met' = IF w.seen.counted THEN met ELSE met + 1
               /\ Recorded(w, ok)
               /\ draft' = IF ok THEN [draft EXCEPT ![w.on] = NoDraft] ELSE draft
               /\ Departs(ok, after)
      BY <2>2 DEF Ended
    <3>2. draft' \in [Stays -> Drafts]
      BY <1>1, <3>1 DEF StayTypeOK, NoDraft, Drafts
    <3>3. w.seen.tries + 1 \in Nat  BY <1>1 DEF Entries
    <3>4. [st |-> IF ok THEN "succeeded" ELSE "failed", tries |-> w.seen.tries + 1,
           committed |-> TRUE, counted |-> TRUE] \in Entries
      BY <3>3 DEF Entries
    <3>5. entry' \in [Stays -> Entries]
      BY <1>1, <3>1, <3>4 DEF StayTypeOK, Recorded
    <3>6. goal' \in {"open", "done"}
      BY <1>1, <3>1 DEF StayTypeOK, Drafts
    <3>7. met' \in Nat /\ commits' \in [Stays -> Nat]
      BY <1>1, <3>1 DEF StayTypeOK
    <3>8. departed' \in BOOLEAN  BY <3>1, Zenon DEF StayTypeOK, Departs
    <3> QED  BY <3>2, <3>5, <3>6, <3>7, <3>8, Zenon DEF OwnType
  <2> QED  BY <2>1, <2>2
<1> QED
  BY <1>2, <1>3, <1>4, Zenon
     DEF StayTypeOK, WaitsType, TasksType, OwnType, CallsType, Works, Kinds

\* Taking part and deciding write the draft.
LEMMA TakingPartType ==
  ASSUME StayTypeOK, bound' = bound, NEW c \in Stays,
         EnterNew(c) \/ EnterAsked(c) \/ Entered(c) \/ Decided(c)
  PROVE  StayTypeOK'
<1>1. /\ UNCHANGED <<leaving, closing, entry, work, tasks, ownVars, overlap, failures>>
      /\ joining' \subseteq Stays
  BY DEF EnterNew, EnterAsked, Entered, Decided, waits, StayTypeOK
<1>2. ASSUME TakesPart(c)
      PROVE  /\ draft' \in [Stays -> Drafts] /\ visits' \in [Stays -> Nat]
             /\ seat' \in [Stays -> {"away", "in", "left", "over", "gone"}]
  <2>1. NewDraft \in Drafts  BY DEF NewDraft, NoDraft, Drafts
  <2> QED  BY <1>2, <2>1 DEF TakesPart, StayTypeOK
<1>3. /\ draft' \in [Stays -> Drafts] /\ visits' \in [Stays -> Nat]
      /\ seat' \in [Stays -> {"away", "in", "left", "over", "gone"}]
  <2>1. CASE UNCHANGED <<seat, draft, visits>>  BY <2>1 DEF StayTypeOK
  <2>2. CASE Decided(c)  BY <2>2 DEF Decided, StayTypeOK, Drafts
  <2> QED  BY <1>2, <2>1, <2>2 DEF EnterNew, EnterAsked, Entered
<1>4. WaitsType' /\ TasksType'
  BY <1>1, <1>3, TypeParts DEF WaitsType, TasksType, tasks
<1>5. OwnType'
  BY <1>1, <1>3, TypeParts, Zenon DEF OwnType, ownVars
<1>6. CallsType'
  BY <1>1, <1>3, TypeParts, Zenon DEF CallsType
<1> QED
  BY <1>4, <1>5, <1>6, Zenon
     DEF StayTypeOK, WaitsType, TasksType, OwnType, CallsType, Works, Kinds

\* What begins a consolidation, or ends what waited for it.
LEMMA LeavingType ==
  ASSUME StayTypeOK, bound' = bound, NEW c \in Stays,
         \/ LeaveAsked(c) \/ LeaveRemoved(c) \/ CloseListed(c) \/ CloseBegins(c)
         \/ Retried(c) \/ TaskBegins(c)
  PROVE  StayTypeOK'
<1>1. UNCHANGED <<draft, entry, ownVars, visits, failures>>
  BY DEF LeaveAsked, LeaveRemoved, CloseListed, CloseBegins, Retried, TaskBegins, Begun
<1>2. work' \subseteq Works /\ overlap' \in BOOLEAN
  <2>1. CASE UNCHANGED <<work, overlap>>  BY <2>1, TypeParts, Zenon DEF CallsType
  <2>2. ASSUME NEW kind \in Kinds, Begun(c, kind)
        PROVE  work' \subseteq Works /\ overlap' \in BOOLEAN
    BY <2>2, BegunType
  <2> QED
    BY <2>1, <2>2 DEF LeaveAsked, LeaveRemoved, CloseListed, CloseBegins, Retried, TaskBegins, Kinds
<1>3. WaitsType'
  BY TypeParts
     DEF WaitsType, waits, LeaveAsked, LeaveRemoved, CloseListed, CloseBegins, Retried, TaskBegins
<1>4. TasksType'
  BY TypeParts
     DEF TasksType, tasks, LeaveAsked, LeaveRemoved, CloseListed, CloseBegins, Retried, TaskBegins
<1>5. OwnType'
  BY <1>1, TypeParts, Zenon DEF OwnType, ownVars
<1>6. CallsType'
  BY <1>1, <1>2, TypeParts, Zenon DEF CallsType
<1> QED
  BY <1>3, <1>4, <1>5, <1>6, Zenon
     DEF StayTypeOK, WaitsType, TasksType, OwnType, CallsType, Works, Kinds

\* A closing, and the leave of the player.
LEMMA ShutType ==
  ASSUME StayTypeOK, bound' = bound, NEW c \in Stays,
         OthersClose(c) \/ Closed(c) \/ PlayerLeft(c) \/ PlayerLeftLast(c)
  PROVE  StayTypeOK'
<1>1. UNCHANGED <<joining, leaving, work, stranded, ownVars, visits, overlap, failures>>
  BY DEF OthersClose, Closed, PlayerLeft, PlayerLeftLast, waits, tasks
<1>2. WaitsType'
  <2>1. closing' \in [Stays -> {"no", "listed", "settled", "done"}]
    BY TypeParts DEF OthersClose, Closed, PlayerLeft, PlayerLeftLast, waits, WaitsType
  <2>2. seat' \in [Stays -> {"away", "in", "left", "over", "gone"}]
    BY TypeParts, ClosedSeatType DEF OthersClose, Closed, PlayerLeft, PlayerLeftLast, WaitsType
  <2> QED  BY <1>1, <2>1, <2>2, TypeParts DEF WaitsType
<1>3. TasksType'
  BY <1>1, TypeParts
     DEF OthersClose, Closed, PlayerLeft, PlayerLeftLast, TaskScheduled, tasks, TasksType
<1>4. OwnType'
  <2>1. draft' \in [Stays -> Drafts] /\ entry' \in [Stays -> Entries]
    <3>1. NoDraft \in Drafts  BY DEF NoDraft, Drafts
    <3>2. draft' \in [Stays -> Drafts]
      BY <3>1 DEF OthersClose, Closed, PlayerLeft, PlayerLeftLast, StayTypeOK
    <3>3. entry' = entry \/ Owes(c)  BY DEF OthersClose, Closed, PlayerLeft, PlayerLeftLast
    <3>4. [entry[c] EXCEPT !.st = "pending"] \in Entries  BY DEF StayTypeOK, Entries
    <3>5. entry' \in [Stays -> Entries]  BY <3>3, <3>4 DEF Owes, StayTypeOK
    <3> QED  BY <3>2, <3>5
  <2> QED  BY <1>1, <2>1, TypeParts, Zenon DEF OwnType, ownVars
<1>5. CallsType'
  BY <1>1, TypeParts, Zenon DEF CallsType
<1> QED
  BY <1>2, <1>3, <1>4, <1>5, Zenon
     DEF StayTypeOK, WaitsType, TasksType, OwnType, CallsType, Works, Kinds

\* The ends of the tasks, and the faults.
LEMMA FaultType ==
  ASSUME StayTypeOK, bound' = bound,
         \/ RunLoaded \/ Restarted
         \/ \E c \in Stays : TaskEnds(c) \/ TaskRaises(c) \/ LeaveRaises(c) \/ ClosingRaises(c)
         \/ \E w \in work : CallRaises(w)
  PROVE  StayTypeOK'
<1>1. UNCHANGED <<seat, draft, entry, ownVars, visits, overlap>> /\ work' \subseteq work
  <2>1. CASE RunLoaded \/ Restarted  BY <2>1 DEF RunLoaded, Restarted
  <2>2. CASE \E c \in Stays : TaskEnds(c) \/ TaskRaises(c) \/ LeaveRaises(c) \/ ClosingRaises(c)
    BY <2>2 DEF TaskEnds, TaskRaises, LeaveRaises, ClosingRaises
  <2>3. CASE \E w \in work : CallRaises(w)  BY <2>3 DEF CallRaises
  <2> QED  BY <2>1, <2>2, <2>3
<1>2. failures' \in 0..bound'.failures
  <2>1. failures' = failures \/ (failures < bound.failures /\ failures' = failures + 1)
    BY DEF RunLoaded, Restarted, TaskEnds, TaskRaises, LeaveRaises, ClosingRaises, CallRaises,
           Faulty
  <2>2. failures \in Nat /\ bound.failures \in Nat /\ failures <= bound.failures  BY BoundsAre
  <2> QED  BY <2>1, <2>2
<1>3. WaitsType'
  <2>1. CASE \/ RunLoaded \/ \E c \in Stays : TaskEnds(c) \/ TaskRaises(c)
             \/ \E w \in work : CallRaises(w)
    BY <2>1, TypeParts DEF WaitsType, waits, RunLoaded, TaskEnds, TaskRaises, CallRaises
  <2>2. CASE Restarted
    BY <2>2, TypeParts DEF WaitsType, Restarted
  <2>3. CASE \E c \in Stays : LeaveRaises(c) \/ ClosingRaises(c)
    BY <2>3, TypeParts DEF WaitsType, LeaveRaises, ClosingRaises
  <2> QED  BY <2>1, <2>2, <2>3
<1>4. TasksType'
  <2>1. ASSUME NEW now \in [Stays -> {"none", "due", "last"}], TasksResumed(now)
        PROVE  TasksType'
    BY <2>1 DEF TasksResumed, TasksType
  <2>2. CASE RunLoaded \/ \E c \in Stays : TaskEnds(c)
    BY <2>1, <2>2, TypeParts DEF RunLoaded, TaskEnds, TasksType
  <2>3. CASE \/ Restarted
             \/ \E c \in Stays : TaskRaises(c) \/ LeaveRaises(c) \/ ClosingRaises(c)
             \/ \E w \in work : CallRaises(w)
    BY <2>3, TypeParts
       DEF TasksType, tasks, Restarted, TaskRaises, LeaveRaises, ClosingRaises, CallRaises, Pending
  <2> QED  BY <2>2, <2>3
<1>5. OwnType'
  BY <1>1, TypeParts, Zenon DEF OwnType, ownVars
<1>6. CallsType'
  <2>1. work' \subseteq Works  BY <1>1, TypeParts DEF CallsType
  <2> QED  BY <1>1, <1>2, <2>1, TypeParts, Zenon DEF CallsType
<1> QED
  BY <1>3, <1>4, <1>5, <1>6, Zenon
     DEF StayTypeOK, WaitsType, TasksType, OwnType, CallsType, Works, Kinds

LEMMA NextType == StayTypeOK /\ [StayNext]_stayVars => StayTypeOK'
<1> SUFFICES ASSUME StayTypeOK, [StayNext]_stayVars
             PROVE  StayTypeOK'
  OBVIOUS
<1>1. CASE StayNext
  <2>1. bound' = bound  BY <1>1 DEF StayNext
  <2> QED
    BY <1>1, <2>1, TakingPartType, LeavingType, ShutType, FaultType, EndedType DEF StayNext
<1>2. CASE UNCHANGED stayVars
  <2>1. WaitsType' /\ TasksType'  BY <1>2, TypeParts DEF stayVars, WaitsType, TasksType
  <2>2. OwnType' /\ CallsType'
    BY <1>2, TypeParts, Zenon DEF stayVars, OwnType, CallsType
  <2> QED
    BY <2>1, <2>2, Zenon DEF StayTypeOK, WaitsType, TasksType, OwnType, CallsType, Works, Kinds
<1> QED  BY <1>1, <1>2

\* Every value stays of its type: what a consolidation reads, waits with and
\* commits is an entry, a draft, a goal.
THEOREM StayTypeCorrect == StaySpec => []StayTypeOK
  BY InitType, NextType, PTL DEF StaySpec

-----------------------------------------------------------------------------
(* What is owed *)

\* A step that makes no entry pending and takes no task away.
LEMMA OwedGoesOn ==
  ASSUME OwedIsOwned, stranded' = stranded,
         \A d \in Stays : /\ entry'[d].st = "pending" => entry[d].st = "pending"
                          /\ leaveTask[d] # "none" => leaveTask'[d] # "none"
  PROVE  OwedIsOwned'
BY DEF OwedIsOwned, Pending

\* A task that ends well, and a request, look after every pending entry.
LEMMA ResumedOwed ==
  ASSUME entry' = entry, NEW now \in [Stays -> {"none", "due", "last"}], TasksResumed(now)
  PROVE  OwedIsOwned'
<1> SUFFICES ASSUME NEW d \in Stays, entry[d].st = "pending" PROVE leaveTask'[d] # "none"
  BY DEF OwedIsOwned, Pending
<1> QED  BY DEF TasksResumed, Pending

\* Each step leaves a pending entry with a task, or strands it: what makes an entry pending
\* schedules the task, and a call that ends settles the entry it was about.
LEMMA NextOwed == StayTypeOK /\ OwedIsOwned /\ [StayNext]_stayVars => OwedIsOwned'
<1> SUFFICES ASSUME StayTypeOK, OwedIsOwned, [StayNext]_stayVars
             PROVE  OwedIsOwned'
  OBVIOUS
<1>0. leaveTask \in [Stays -> {"none", "due", "last"}] /\ entry \in [Stays -> Entries]
  BY DEF StayTypeOK
<1>1. ASSUME UNCHANGED <<entry, leaveTask, stranded>>
      PROVE  OwedIsOwned'
  BY <1>1, OwedGoesOn
<1>2. ASSUME NEW c \in Stays,
             \/ EnterNew(c) \/ EnterAsked(c) \/ Entered(c) \/ Decided(c) \/ LeaveAsked(c)
             \/ LeaveRemoved(c) \/ OthersClose(c) \/ CloseListed(c) \/ CloseBegins(c)
             \/ Closed(c) \/ Retried(c) \/ LeaveRaises(c) \/ ClosingRaises(c)
      PROVE  OwedIsOwned'
  <2>1. UNCHANGED <<entry, leaveTask, stranded>>
    BY <1>2 DEF EnterNew, EnterAsked, Entered, Decided, LeaveAsked, LeaveRemoved, OthersClose,
                CloseListed, CloseBegins, Closed, Retried, LeaveRaises, ClosingRaises, tasks
  <2> QED  BY <1>1, <2>1
<1>3. ASSUME NEW c \in Stays, PlayerLeft(c) \/ TaskBegins(c)
      PROVE  OwedIsOwned'
  BY <1>0, <1>3, OwedGoesOn DEF PlayerLeft, TaskBegins, TaskScheduled
<1>4. ASSUME NEW c \in Stays, PlayerLeftLast(c)
      PROVE  OwedIsOwned'
  <2>1. /\ leaveTask'[c] # "none" /\ stranded' = stranded
        /\ \A d \in Stays : d # c => leaveTask'[d] = leaveTask[d] /\ entry'[d] = entry[d]
    BY <1>0, <1>4 DEF PlayerLeftLast, TaskScheduled, Owes
  <2> QED  BY <2>1 DEF OwedIsOwned, Pending
<1>5. ASSUME NEW c \in Stays, TaskEnds(c)
      PROVE  OwedIsOwned'
  <2>1. [leaveTask EXCEPT ![c] = "none"] \in [Stays -> {"none", "due", "last"}]  BY <1>0
  <2> QED  BY <1>5, <2>1, ResumedOwed DEF TaskEnds
<1>6. CASE RunLoaded
  BY <1>0, <1>6, ResumedOwed DEF RunLoaded
<1>7. ASSUME NEW c \in Stays, TaskRaises(c)
      PROVE  OwedIsOwned'
  BY <1>0, <1>7 DEF TaskRaises, OwedIsOwned, Pending
<1>8. CASE Restarted
  BY <1>8 DEF Restarted, OwedIsOwned, Pending
<1>9. ASSUME NEW w \in work, CallRaises(w)
      PROVE  OwedIsOwned'
  BY <1>1, <1>9 DEF CallRaises, tasks
<1>10. ASSUME NEW w \in work, Ended(w)
       PROVE  OwedIsOwned'
  <2>1. w.on \in Stays /\ UNCHANGED <<leaveTask, stranded>>
    BY <1>10 DEF StayTypeOK, Ended, tasks
  <2>2. ASSUME NEW ok \in BOOLEAN, Recorded(w, ok), NEW d \in Stays
        PROVE  entry'[d].st = "pending" => entry[d].st = "pending"
    BY <1>0, <2>1, <2>2 DEF Recorded
  <2>3. ASSUME NEW d \in Stays
        PROVE  entry'[d].st = "pending" => entry[d].st = "pending"
    BY <1>10, <2>2 DEF Ended
  <2> QED  BY <2>1, <2>3, OwedGoesOn
<1>11. CASE UNCHANGED stayVars
  BY <1>1, <1>11 DEF stayVars
<1> QED
  BY <1>2, <1>3, <1>4, <1>5, <1>6, <1>7, <1>8, <1>9, <1>10, <1>11 DEF StayNext

\* A consolidation that a player's leave owes has a task that will carry it out, or that
\* resumes it at its end, whatever other consolidations end meanwhile; one whose task raised
\* and one the process stopped with are without, until the next request resumes them
\* (_schedule_player_leave_maintenance, _complete_player_leave_maintenance,
\* _resume_maintenance_tasks).
THEOREM OwedHasATask == StaySpec => []OwedIsOwned
<1>1. StayInit => OwedIsOwned  BY DEF StayInit, NoEntry, OwedIsOwned, Pending
<1> QED  BY InitType, NextType, NextOwed, <1>1, PTL DEF StaySpec

-----------------------------------------------------------------------------
(* What is committed *)

\* Drafts of a first stay are kept: what is noted as committed, in the entry or in what a
\* call has read of it, was committed.
Lasting ==
    \A c \in Stays :
        /\ visits[c] = 1 => draft[c].held \/ commits[c] > 0
        /\ entry[c].committed => commits[c] > 0
        /\ entry[c].st = "succeeded" => entry[c].committed
        /\ \A w \in work : w.on = c /\ w.seen.committed => commits[c] > 0

CountedIn(f) == {c \in Stays : f[c].counted}

\* As long as no two calls overlapped, the entries tell what was committed and counted.
Exact ==
    /\ \A c \in Stays : commits[c] = IF entry[c].committed THEN 1 ELSE 0
    /\ met = Cardinality(CountedIn(entry))

\* Then there is one call at most, and what it read of the entry is still so.
Reads ==
    \A w \in work :
        /\ \A v \in work : v = w
        /\ w.seen.committed = entry[w.on].committed
        /\ w.seen.counted = entry[w.on].counted

CommitInv == Lasting /\ (~overlap => Exact /\ Reads)

LEMMA InitCommit == StayInit => CommitInv
<1> SUFFICES ASSUME StayInit
             PROVE  CommitInv
  OBVIOUS
<1>1. CountedIn(entry) = {}  BY DEF StayInit, NoEntry, CountedIn
<1>2. Cardinality({}) = 0  BY FS_EmptySet
<1>3. Exact  BY <1>1, <1>2 DEF StayInit, NoEntry, Exact
<1>4. Lasting /\ Reads  BY DEF StayInit, NoEntry, Lasting, Reads
<1> QED  BY <1>3, <1>4 DEF CommitInv

\* A step that commits nothing, and begins no call.
LEMMA SameCommits ==
  ASSUME CommitInv, UNCHANGED <<entry, met, commits, overlap>>, work' \subseteq work,
         \A c \in Stays : visits'[c] = 1 => draft'[c].held \/ commits[c] > 0
  PROVE  CommitInv'
<1>1. Lasting'  BY DEF CommitInv, Lasting
<1>2. (Exact => Exact') /\ (Reads => Reads')  BY DEF Exact, Reads, CountedIn
<1> QED  BY <1>1, <1>2 DEF CommitInv

\* A step that begins a call reads the entry that there is.
LEMMA BegunKeeps ==
  ASSUME StayTypeOK, CommitInv, NEW c \in Stays, NEW kind \in Kinds, Begun(c, kind),
         UNCHANGED <<entry, met, commits, visits>>
  PROVE  CommitInv'
<1> DEFINE new == [on |-> c, as |-> kind, seen |-> entry[c], draft |-> draft[c]]
<1>1. \A w \in work' : w \in work \/ w = new  BY DEF Begun
<1>2. Lasting'  BY <1>1 DEF CommitInv, Lasting, Begun
<1>3. ASSUME ~overlap'
      PROVE  Exact' /\ Reads'
  <2>1. ~overlap /\ (work' = work \/ work' = {new})
    <3>1. CASE entry[c].st = "succeeded"  BY <1>3, <3>1 DEF Begun
    <3>2. CASE entry[c].st # "succeeded"  BY <1>3, <3>2 DEF Begun
    <3> QED  BY <3>1, <3>2
  <2>2. Exact /\ Reads  BY <2>1 DEF CommitInv
  <2>3. Exact'  BY <2>2 DEF Exact, CountedIn
  <2>4. Reads'  BY <2>1, <2>2 DEF Reads
  <2> QED  BY <2>3, <2>4
<1> QED  BY <1>2, <1>3 DEF CommitInv

\* A call that ends commits the draft unless it read that this was done.
LEMMA EndedKeeps ==
  ASSUME StayTypeOK, CommitInv, NEW w \in work, Ended(w)
  PROVE  CommitInv'
<1>1. /\ w.on \in Stays /\ work' = work \ {w} /\ visits' = visits /\ overlap' = overlap
      /\ commits \in [Stays -> Nat] /\ met \in Nat /\ IsFiniteSet(Stays)
      /\ entry \in [Stays -> Entries] /\ draft \in [Stays -> Drafts]
  BY ConsolidationAssumption DEF StayTypeOK, Ended
<1>2. CASE entry[w.on].st = "succeeded"
  <2>1. UNCHANGED <<draft, entry, met, commits>>  BY <1>2 DEF Ended, ownVars
  <2>2. Lasting'  BY <1>1, <2>1 DEF CommitInv, Lasting
  <2>3. Exact => Exact'  BY <2>1 DEF Exact, CountedIn
  <2>4. Reads => Reads'  BY <1>1, <2>1 DEF Reads
  <2> QED  BY <1>1, <2>2, <2>3, <2>4 DEF CommitInv
<1>3. CASE entry[w.on].st # "succeeded"
  <2>1. PICK ok \in BOOLEAN :
          /\ commits' = [commits EXCEPT ![w.on] = IF ~w.seen.committed THEN @ + 1 ELSE @]
          /\ met' = IF w.seen.counted THEN met ELSE met + 1
          /\ Recorded(w, ok)
          /\ draft' = IF ok THEN [draft EXCEPT ![w.on] = NoDraft] ELSE draft
    BY <1>3 DEF Ended
  <2>2. /\ entry'[w.on].committed /\ entry'[w.on].counted
        /\ \A c \in Stays : c # w.on => entry'[c] = entry[c]
    BY <1>1, <2>1 DEF Recorded
  <2>3. commits'[w.on] > 0 /\ \A c \in Stays : commits'[c] >= commits[c]
    BY <1>1, <2>1 DEF CommitInv, Lasting
  <2>4. Lasting'
    <3> SUFFICES ASSUME NEW c \in Stays
                 PROVE  /\ visits'[c] = 1 => draft'[c].held \/ commits'[c] > 0
                        /\ entry'[c].committed => commits'[c] > 0
                        /\ entry'[c].st = "succeeded" => entry'[c].committed
                        /\ \A v \in work' : v.on = c /\ v.seen.committed => commits'[c] > 0
      BY DEF Lasting
    <3>1. CASE c = w.on
      BY <2>2, <2>3, <3>1
    <3>2. CASE c # w.on
      <4>1. entry'[c] = entry[c] /\ draft'[c] = draft[c] /\ commits'[c] = commits[c]
        BY <1>1, <2>1, <2>2, <3>2
      <4> QED  BY <1>1, <4>1 DEF CommitInv, Lasting
    <3> QED  BY <3>1, <3>2
  <2>5. ASSUME ~overlap
        PROVE  Exact' /\ Reads'
    <3>1. Exact /\ Reads  BY <2>5 DEF CommitInv
    <3>2. work' = {}  BY <1>1, <3>1 DEF Reads
    <3>3. /\ w.seen.committed = entry[w.on].committed
          /\ w.seen.counted = entry[w.on].counted
      BY <3>1 DEF Reads
    <3>4. \A c \in Stays : commits'[c] = IF entry'[c].committed THEN 1 ELSE 0
      BY <1>1, <2>1, <2>2, <3>1, <3>3 DEF Exact
    <3>5. CountedIn(entry') = CountedIn(entry) \cup {w.on}
      BY <1>1, <2>2 DEF CountedIn
    <3>6. IsFiniteSet(CountedIn(entry))
      BY <1>1, FS_Subset DEF CountedIn
    <3>7. Cardinality(CountedIn(entry')) =
            IF w.on \in CountedIn(entry) THEN Cardinality(CountedIn(entry))
                                         ELSE Cardinality(CountedIn(entry)) + 1
      BY <3>5, <3>6, FS_AddElement
    <3>8. w.on \in CountedIn(entry) <=> entry[w.on].counted
      BY <1>1 DEF CountedIn
    <3>9. met' = Cardinality(CountedIn(entry'))
      BY <2>1, <3>1, <3>3, <3>7, <3>8 DEF Exact
    <3> QED  BY <3>2, <3>4, <3>9 DEF Exact, Reads, CountedIn
  <2> QED  BY <1>1, <2>4, <2>5 DEF CommitInv
<1> QED  BY <1>2, <1>3

\* A player's leave changes the status of an entry, not what it notes as done.
LEMMA OwesKeeps ==
  ASSUME StayTypeOK, CommitInv, NEW c \in Stays, PlayerLeftLast(c)
  PROVE  CommitInv'
<1>1. /\ UNCHANGED <<draft, work, met, commits, visits, overlap>>
      /\ entry \in [Stays -> Entries]
      /\ work \subseteq Works
  BY DEF PlayerLeftLast, ownVars, StayTypeOK, Works, Kinds
<1>2. \A d \in Stays : /\ entry'[d].committed = entry[d].committed
                       /\ entry'[d].counted = entry[d].counted
                       /\ entry'[d].st \in {entry[d].st, "pending"}
  BY <1>1 DEF PlayerLeftLast, Owes, Entries
<1>3. CountedIn(entry') = CountedIn(entry)  BY <1>2 DEF CountedIn
<1>4. Lasting'  BY <1>1, <1>2 DEF CommitInv, Lasting
<1>5. Exact => Exact'  BY <1>1, <1>2, <1>3 DEF Exact, CountedIn
<1>6. Reads => Reads'  BY <1>1, <1>2 DEF Reads, Works
<1> QED  BY <1>1, <1>4, <1>5, <1>6 DEF CommitInv

LEMMA NextCommit == StayTypeOK /\ CommitInv /\ [StayNext]_stayVars => CommitInv'
<1> SUFFICES ASSUME StayTypeOK, CommitInv, [StayNext]_stayVars
             PROVE  CommitInv'
  OBVIOUS
<1>0. \A c \in Stays : visits[c] = 1 => draft[c].held \/ commits[c] > 0
  BY DEF CommitInv, Lasting
<1>1. ASSUME UNCHANGED <<draft, entry, met, commits, visits, overlap>>, work' \subseteq work
      PROVE  CommitInv'
  BY <1>0, <1>1, SameCommits
<1>2. ASSUME NEW c \in Stays, EnterNew(c) \/ EnterAsked(c) \/ Entered(c) \/ Decided(c)
      PROVE  CommitInv'
  <2>1. UNCHANGED <<entry, work, met, commits, overlap>>
    BY <1>2 DEF EnterNew, EnterAsked, Entered, Decided, ownVars
  <2>2. NewDraft.held  BY DEF NewDraft, NoDraft
  <2>3. draft \in [Stays -> Drafts]  BY DEF StayTypeOK
  <2>4. \A d \in Stays : visits'[d] = 1 => draft'[d].held \/ commits[d] > 0
    <3>1. CASE TakesPart(c)
      BY <1>0, <2>2, <3>1 DEF TakesPart, StayTypeOK
    <3>2. CASE UNCHANGED <<draft, visits>>  BY <1>0, <3>2
    <3>3. CASE Decided(c)  BY <1>0, <2>3, <3>3 DEF Decided
    <3> QED  BY <1>2, <3>1, <3>2, <3>3 DEF EnterNew, EnterAsked, Entered
  <2> QED  BY <2>1, <2>4, SameCommits
<1>3. ASSUME NEW c \in Stays,
             \/ LeaveAsked(c) \/ OthersClose(c) \/ CloseListed(c) \/ PlayerLeft(c)
             \/ TaskEnds(c) \/ TaskRaises(c) \/ LeaveRaises(c) \/ ClosingRaises(c)
      PROVE  CommitInv'
  <2>1. UNCHANGED <<draft, entry, met, commits, visits, overlap>> /\ work' \subseteq work
    BY <1>3 DEF LeaveAsked, OthersClose, CloseListed, PlayerLeft, TaskEnds, TaskRaises,
                LeaveRaises, ClosingRaises, ownVars
  <2> QED  BY <1>1, <2>1
<1>4. ASSUME NEW c \in Stays, LeaveRemoved(c)
      PROVE  CommitInv'
  <2>1. CASE Begun(c, "leave")
    BY <1>4, <2>1, BegunKeeps DEF LeaveRemoved, ownVars, Kinds
  <2>2. CASE UNCHANGED <<work, overlap, draft>>
    BY <1>1, <1>4, <2>2 DEF LeaveRemoved, ownVars
  <2> QED  BY <1>4, <2>1, <2>2 DEF LeaveRemoved
<1>5. ASSUME NEW c \in Stays, CloseBegins(c) \/ TaskBegins(c) \/ Retried(c)
      PROVE  CommitInv'
  BY <1>5, BegunKeeps DEF CloseBegins, TaskBegins, Retried, ownVars, Kinds
<1>6. ASSUME NEW c \in Stays, Closed(c)
      PROVE  CommitInv'
  <2>1. UNCHANGED <<entry, work, met, commits, visits, overlap>>
    BY <1>6 DEF Closed, ownVars
  <2>2. draft' = draft \/ (entry[c].st = "succeeded" /\ draft' = [draft EXCEPT ![c] = NoDraft])
    BY <1>6 DEF Closed
  <2>3. entry[c].st = "succeeded" => commits[c] > 0  BY DEF CommitInv, Lasting
  <2>4. \A d \in Stays : visits'[d] = 1 => draft'[d].held \/ commits[d] > 0
    BY <1>0, <2>1, <2>2, <2>3 DEF StayTypeOK
  <2> QED  BY <2>1, <2>4, SameCommits
<1>7. ASSUME NEW c \in Stays, PlayerLeftLast(c)
      PROVE  CommitInv'
  BY <1>7, OwesKeeps
<1>8. ASSUME NEW w \in work, Ended(w)
      PROVE  CommitInv'
  BY <1>8, EndedKeeps
<1>9. ASSUME NEW w \in work, CallRaises(w)
      PROVE  CommitInv'
  BY <1>1, <1>9 DEF CallRaises, ownVars
<1>10. CASE RunLoaded \/ Restarted
  BY <1>1, <1>10 DEF RunLoaded, Restarted, ownVars
<1>11. CASE UNCHANGED stayVars
  BY <1>1, <1>11 DEF stayVars
<1> QED
  BY <1>2, <1>3, <1>4, <1>5, <1>6, <1>7, <1>8, <1>9, <1>10, <1>11 DEF StayNext

\* The draft of a first stay is in the store until it is committed; and it is committed once
\* and its meeting counted once, over failures, retries and restarts, as long as no two
\* consolidations of the NPC wait at the same time (_consolidate_locked).
THEOREM DraftsAreCommittedOnce == StaySpec => []CommittedOnce
<1>1. CommitInv => CommittedOnce
  BY DEF CommitInv, Lasting, Exact, CountedIn, CommittedOnce
<1> QED  BY InitType, NextType, InitCommit, NextCommit, <1>1, PTL DEF StaySpec

-----------------------------------------------------------------------------
(* The summaries of the segments *)

\* The records of the segments and of the calls; the types of all of it.
Segments == [said : 0 .. MaxMessages, ended : BOOLEAN, has : BOOLEAN,
             covers : SUBSET (1 .. MaxMessages), cursor : 0 .. MaxMessages]
Calls == [seg : Nat, upTo : 0 .. MaxMessages, had : BOOLEAN,
          covers : SUBSET (1 .. MaxMessages), cursor : 0 .. MaxMessages]

SumTypes == SummaryTypeOK /\ calls \in [Askers -> Calls] /\ Last # 0

\* The empty call and a fresh segment are of their types.
LEMMA NoCallType == NoCall \in Calls /\ NewSegment \in Segments
  BY SummaryAssumption DEF NoCall, NewSegment, Calls, Segments

\* What a summary that comes back, or fails to, makes of the segment.
LEMMA SummaryDoes ==
    ASSUME NEW sg \in Segments, NEW c \in Calls
    PROVE  /\ Summarised(sg, c) \in Segments /\ Kept(sg, c) \in Segments
           /\ \A r \in {Summarised(sg, c), Kept(sg, c)} :
                 r.said = sg.said /\ r.ended = sg.ended /\ r.has = TRUE
           /\ Summarised(sg, c).covers = c.covers \cup (c.cursor + 1 .. c.upTo)
           /\ Summarised(sg, c).cursor = c.upTo
           /\ Kept(sg, c).covers = (IF c.had THEN c.covers ELSE {})
           /\ Kept(sg, c).cursor = sg.cursor
  <1>1. c.covers \cup (c.cursor + 1 .. c.upTo) \in SUBSET (1 .. MaxMessages)
    BY SummaryAssumption DEF Calls
  <1>2. (IF c.had THEN c.covers ELSE {}) \in SUBSET (1 .. MaxMessages)
    BY DEF Calls
  <1>3. c.upTo \in 0 .. MaxMessages
    BY DEF Calls
  <1> QED BY <1>1, <1>2, <1>3 DEF Summarised, Kept, Segments

\* The segments there are, and those after a step, are of their type.
LEMMA SegmentsAre ==
    ASSUME SumTypes
    PROVE  /\ segs \in Seq(Segments) /\ Last \in Nat
           /\ \A s \in 1 .. Last : s \in Nat /\ segs[s] \in Segments
  <1>1. segs \in Seq(Segments)
    BY DEF SumTypes, SummaryTypeOK, Segments
  <1> QED BY <1>1 DEF Last

LEMMA SegmentsWillBe ==
    ASSUME SumTypes'
    PROVE  /\ segs' \in Seq(Segments) /\ Last' \in Nat
           /\ \A s \in 1 .. Last' : s \in Nat /\ segs'[s] \in Segments
  <1>1. segs' \in Seq(Segments)
    BY DEF SumTypes, SummaryTypeOK, Segments
  <1> QED BY <1>1 DEF Last

\* What is asked, and the asking.
LEMMA AskedDoes ==
    ASSUME SumTypes, NEW s \in 1 .. Last, NEW u \in 0 .. MaxMessages, NEW h \in Askers,
           calls' = [calls EXCEPT ![h] = Asked(s, u)]
    PROVE  /\ calls' \in [Askers -> Calls]
           /\ \A k \in Askers : k # h => calls'[k] = calls[k]
           /\ calls'[h].seg = s /\ calls'[h].upTo = u /\ calls'[h].had = segs[s].has
           /\ calls'[h].covers = segs[s].covers /\ calls'[h].cursor = segs[s].cursor
  <1>1. segs[s] \in Segments
    BY SegmentsAre
  <1>2. s \in Nat
    BY SegmentsAre
  <1>3. Asked(s, u) \in Calls
    BY <1>1, <1>2 DEF Asked, Calls, Segments
  <1>4. calls \in [Askers -> Calls]
    BY DEF SumTypes
  <1>5. calls'[h] = Asked(s, u)
    BY <1>4
  <1>6. /\ Asked(s, u).seg = s /\ Asked(s, u).upTo = u /\ Asked(s, u).had = segs[s].has
        /\ Asked(s, u).covers = segs[s].covers /\ Asked(s, u).cursor = segs[s].cursor
    BY DEF Asked
  <1> QED BY <1>3, <1>4, <1>5, <1>6

\* The segments after a step: each old one as it became, and maybe a new one.
Longer(old) ==
    /\ segs' \in Seq(Segments) /\ Last <= Last'
    /\ \A s \in 1 .. Last : s \in 1 .. Last' /\ segs'[s] = old[s]
    /\ \A s \in 1 .. Last' : s \in 1 .. Last \/ segs'[s] = NewSegment

\* What follows a summary keeps the segments and may add one.
LEMMA AfterDoes ==
    ASSUME NEW old \in Seq(Segments), Len(old) = Last, After(old)
    PROVE  Longer(old) /\ sealed' \in {sealed, TRUE} /\ here' \in {here, TRUE, FALSE}
  <1>1. NewSegment \in Segments
    BY NoCallType
  <1>2. segs' = old \/ segs' = Append(old, NewSegment)
    BY DEF After
  <1>3. Longer(old)
    BY <1>1, <1>2 DEF Longer, Last
  <1> QED BY <1>3 DEF After

\* One segment changes.
LEMMA OneChanges ==
    ASSUME SumTypes, NEW s \in 1 .. Last, NEW r \in Segments
    PROVE  LET old == [segs EXCEPT ![s] = r] IN
           /\ old \in Seq(Segments) /\ Len(old) = Last
           /\ old[s] = r /\ \A t \in 1 .. Last : t # s => old[t] = segs[t]
  <1>1. segs \in Seq(Segments)
    BY DEF SumTypes, SummaryTypeOK, Segments
  <1> QED BY <1>1 DEF Last

-----------------------------------------------------------------------------
\* Calls for the summary of a segment that has ended; a summary that covers what lies
\* before its cursor; the same summary.
Final == Askers \ {Roller}
Whole(r) == r.covers = 1 .. r.cursor
SameSummary(a, b) == (a.has <=> b.has) /\ a.covers = b.covers /\ a.cursor = b.cursor

\* What a call under way was asked: of a segment there is, up to a message that was said,
\* with a whole summary before the cursor, unless two final summaries were asked for.
CallsFit ==
    \A h \in Askers :
        /\ calls[h].seg \in 0 .. Last
        /\ calls[h].seg = 0 => calls[h] = NoCall
        /\ calls[h].seg # 0 =>
              /\ calls[h].upTo <= segs[calls[h].seg].said
              /\ calls[h].seg \notin doubled =>
                    Whole(calls[h]) /\ calls[h].cursor <= calls[h].upTo

\* A final summary is asked of an ended segment that has not changed since, and by nobody
\* else, unless two were asked for.
FinalsFit ==
    \A h \in Final : calls[h].seg # 0 =>
        /\ segs[calls[h].seg].ended /\ segs[calls[h].seg].said > 0
        /\ calls[h].seg \notin doubled =>
              /\ segs[calls[h].seg].has <=> calls[h].had
              /\ segs[calls[h].seg].covers = calls[h].covers
              /\ segs[calls[h].seg].cursor = calls[h].cursor
              /\ \A k \in Final : calls[k].seg = calls[h].seg => k = h

\* The summary of a segment covers exactly what lies before its cursor.
SegmentsFit ==
    \A s \in (1 .. Last) \ doubled :
        /\ Whole(segs[s]) /\ segs[s].cursor <= segs[s].said
        /\ segs[s].has \/ segs[s].cursor = 0

\* Together, the invariant of the summaries.
Sums == SumTypes /\ CallsFit /\ FinalsFit /\ SegmentsFit

\* No cursor and no summary goes back in a step.
Forward ==
    \A s \in (1 .. Last) \ doubled' :
        /\ s \in 1 .. Last'
        /\ segs[s].cursor <= segs'[s].cursor
        /\ segs[s].has => segs'[s].has

-----------------------------------------------------------------------------
\* A step that only drops calls, and lets segments grow or end.
Grows ==
    /\ SumTypes' /\ Last <= Last' /\ doubled' = doubled
    /\ \A s \in 1 .. Last :
          /\ s \in 1 .. Last'
          /\ segs[s].said <= segs'[s].said
          /\ segs[s].ended => segs'[s].ended
          /\ segs'[s].covers = segs[s].covers /\ segs'[s].cursor = segs[s].cursor
          /\ \/ segs'[s].has <=> segs[s].has
             \/ segs'[s].has /\ \A h \in Final : calls[h].seg # s
    /\ \A s \in 1 .. Last' : s \in 1 .. Last \/ segs'[s] = NewSegment
    /\ \A h \in Askers : calls'[h] = calls[h] \/ calls'[h] = NoCall

\* Such a step keeps the invariant.
LEMMA GrowKeeps ==
    ASSUME Sums, Grows
    PROVE  Sums' /\ Forward
  <1> USE DEF Sums
  <1>1. /\ Last \in Nat /\ Last' \in Nat /\ Last <= Last' /\ doubled' = doubled
        /\ \A s \in 1 .. Last : segs[s] \in Segments
        /\ \A s \in 1 .. Last' : segs'[s] \in Segments
    BY SegmentsAre, SegmentsWillBe DEF Grows
  <1>2. /\ NoCall.seg = 0 /\ NewSegment.covers = {} /\ NewSegment.cursor = 0
        /\ NewSegment.said = 0 /\ 1 .. 0 = {}
    BY DEF NoCall, NewSegment
  <1>3. calls \in [Askers -> Calls] /\ calls' \in [Askers -> Calls]
    BY DEF SumTypes, Grows
  <1>4. CallsFit'
    <2> SUFFICES ASSUME NEW h \in Askers
                 PROVE  /\ calls'[h].seg \in 0 .. Last'
                        /\ calls'[h].seg = 0 => calls'[h] = NoCall
                        /\ calls'[h].seg # 0 =>
                              /\ calls'[h].upTo <= segs'[calls'[h].seg].said
                              /\ calls'[h].seg \notin doubled' =>
                                    Whole(calls'[h]) /\ calls'[h].cursor <= calls'[h].upTo
      BY DEF CallsFit
    <2>1. CASE calls'[h] = NoCall
      BY <1>1, <1>2, <2>1
    <2>2. CASE calls'[h] = calls[h]
      <3>1. calls[h].seg \in 0 .. Last /\ (calls[h].seg = 0 => calls[h] = NoCall)
        BY DEF CallsFit
      <3>2. CASE calls[h].seg # 0
        <4> DEFINE s == calls[h].seg
        <4>1. s \in 1 .. Last
          BY <3>1, <3>2, <1>1
        <4>2. segs[s].said <= segs'[s].said /\ calls[h].upTo <= segs[s].said
          BY <4>1, <3>2 DEF Grows, CallsFit
        <4>3. segs[s].said \in Nat /\ segs'[s].said \in Nat /\ calls[h].upTo \in Nat
          BY <4>1, <1>1, <1>3, SummaryAssumption DEF Segments, Calls
        <4>4. s \notin doubled => Whole(calls[h]) /\ calls[h].cursor <= calls[h].upTo
          BY <3>2 DEF CallsFit
        <4> QED BY <1>1, <2>2, <3>1, <4>1, <4>2, <4>3, <4>4
      <3> QED BY <1>1, <2>2, <3>1, <3>2
    <2> QED BY <2>1, <2>2 DEF Grows
  <1>5. FinalsFit'
    <2> SUFFICES ASSUME NEW h \in Final, calls'[h].seg # 0
                 PROVE  /\ segs'[calls'[h].seg].ended /\ segs'[calls'[h].seg].said > 0
                        /\ calls'[h].seg \notin doubled' =>
                              /\ segs'[calls'[h].seg].has <=> calls'[h].had
                              /\ segs'[calls'[h].seg].covers = calls'[h].covers
                              /\ segs'[calls'[h].seg].cursor = calls'[h].cursor
                              /\ \A k \in Final : calls'[k].seg = calls'[h].seg => k = h
      BY Zenon DEF FinalsFit
    <2>1. h \in Askers /\ calls'[h] = calls[h]
      BY <1>2 DEF Final, Grows
    <2> DEFINE s == calls[h].seg
    <2>2. s \in 1 .. Last
      BY <1>1, <2>1 DEF CallsFit
    <2>3. segs[s].ended /\ segs[s].said > 0 /\ segs[s].said <= segs'[s].said
      BY <2>1, <2>2 DEF FinalsFit, Grows
    <2>4. segs'[s].ended /\ segs'[s].said > 0
      <3>1. segs[s].said \in Nat /\ segs'[s].said \in Nat
        BY <2>2, <1>1, SummaryAssumption DEF Segments
      <3> QED BY <2>2, <2>3, <3>1 DEF Grows
    <2>5. ASSUME s \notin doubled
          PROVE  /\ segs'[s].has <=> calls[h].had
                 /\ segs'[s].covers = calls[h].covers /\ segs'[s].cursor = calls[h].cursor
      BY <2>1, <2>2, <2>5 DEF FinalsFit, Grows
    <2>6. ASSUME s \notin doubled, NEW k \in Final, calls'[k].seg = s
          PROVE  k = h
      <3>1. calls'[k] = calls[k]
        BY <1>2, <2>2, <2>6, <1>1 DEF Final, Grows
      <3> QED BY <2>1, <2>2, <2>6, <3>1, <1>1 DEF FinalsFit
    <2> QED BY <1>1, <2>1, <2>4, <2>5, <2>6
  <1>6. SegmentsFit'
    <2> SUFFICES ASSUME NEW s \in (1 .. Last') \ doubled
                 PROVE  /\ Whole(segs'[s]) /\ segs'[s].cursor <= segs'[s].said
                        /\ segs'[s].has \/ segs'[s].cursor = 0
      BY <1>1 DEF SegmentsFit
    <2>1. CASE segs'[s] = NewSegment
      <3>1. /\ segs'[s].covers = {} /\ segs'[s].cursor = 0 /\ segs'[s].said = 0
        BY <1>2, <2>1
      <3>2. Whole(segs'[s])
        BY <1>2, <3>1, Zenon DEF Whole
      <3> QED BY <3>1, <3>2
    <2>2. CASE s \in 1 .. Last
      <3>1. /\ segs[s].said \in Nat /\ segs'[s].said \in Nat /\ segs[s].cursor \in Nat
        BY <2>2, <1>1, SummaryAssumption DEF Segments
      <3>2. /\ Whole(segs[s]) /\ segs[s].cursor <= segs[s].said
            /\ segs[s].has \/ segs[s].cursor = 0
        BY <2>2 DEF SegmentsFit
      <3>3. /\ segs'[s].covers = segs[s].covers /\ segs'[s].cursor = segs[s].cursor
            /\ segs[s].said <= segs'[s].said /\ (segs[s].has => segs'[s].has)
        BY <2>2 DEF Grows
      <3> QED BY <3>1, <3>2, <3>3 DEF Whole
    <2> QED BY <2>1, <2>2 DEF Grows
  <1>7. Forward
    <2> SUFFICES ASSUME NEW s \in 1 .. Last
                 PROVE  /\ s \in 1 .. Last' /\ segs[s].cursor <= segs'[s].cursor
                        /\ segs[s].has => segs'[s].has
      BY DEF Forward
    <2>1. segs[s].cursor \in Nat
      BY <1>1, SummaryAssumption DEF Segments
    <2> QED BY <2>1 DEF Grows
  <1> QED BY <1>4, <1>5, <1>6, <1>7 DEF Grows

\* A summary is asked for.
Asks(h, s, u) ==
    /\ SumTypes' /\ Last' = Last /\ doubled \subseteq doubled'
    /\ calls' = [calls EXCEPT ![h] = Asked(s, u)]
    /\ \A t \in 1 .. Last :
          /\ segs'[t].said = segs[t].said /\ (segs[t].ended => segs'[t].ended)
          /\ SameSummary(segs'[t], segs[t])
    /\ u <= segs[s].said /\ (s \notin doubled => segs[s].cursor <= u)
    /\ h \in Final =>
          /\ segs'[s].ended /\ segs[s].said > 0
          /\ s \notin doubled' => \A k \in Final : k # h => calls[k].seg # s

\* So does one that asks for a summary.
LEMMA AskKeeps ==
    ASSUME Sums, NEW h \in Askers, NEW s \in 1 .. Last, NEW u \in 0 .. MaxMessages,
           Asks(h, s, u)
    PROVE  Sums' /\ Forward
  <1> USE DEF Sums
  <1>1. /\ Last \in Nat /\ Last' = Last /\ doubled \subseteq doubled'
        /\ \A t \in 1 .. Last : segs[t] \in Segments /\ segs'[t] \in Segments
    BY SegmentsAre, SegmentsWillBe DEF Asks
  <1>2. /\ \A k \in Askers : k # h => calls'[k] = calls[k]
        /\ calls'[h].seg = s /\ calls'[h].upTo = u /\ calls'[h].had = segs[s].has
        /\ calls'[h].covers = segs[s].covers /\ calls'[h].cursor = segs[s].cursor
    <2>1. SumTypes /\ calls' = [calls EXCEPT ![h] = Asked(s, u)]
      BY DEF Asks
    <2> QED BY ONLY <2>1, AskedDoes, h \in Askers, s \in 1 .. Last, u \in 0 .. MaxMessages
  <1>3. \A t \in 1 .. Last :
          /\ segs'[t].said = segs[t].said /\ (segs[t].ended => segs'[t].ended)
          /\ segs'[t].has <=> segs[t].has
          /\ segs'[t].covers = segs[t].covers /\ segs'[t].cursor = segs[t].cursor
    BY DEF Asks, SameSummary
  <1>4. CallsFit'
    <2> SUFFICES ASSUME NEW k \in Askers
                 PROVE  /\ calls'[k].seg \in 0 .. Last'
                        /\ calls'[k].seg = 0 => calls'[k] = NoCall
                        /\ calls'[k].seg # 0 =>
                              /\ calls'[k].upTo <= segs'[calls'[k].seg].said
                              /\ calls'[k].seg \notin doubled' =>
                                    Whole(calls'[k]) /\ calls'[k].cursor <= calls'[k].upTo
      BY DEF CallsFit
    <2>1. CASE k = h
      <3>1. s \in 0 .. Last' /\ s # 0 /\ u <= segs'[s].said
        BY <1>1, <1>3 DEF Asks
      <3>2. s \notin doubled' => segs[s].covers = 1 .. segs[s].cursor /\ segs[s].cursor <= u
        BY <1>1 DEF Asks, SegmentsFit, Whole
      <3>3. calls'[k].seg = s /\ calls'[k].upTo = u
        BY <1>2, <2>1
      <3>4. s \notin doubled' => Whole(calls'[k]) /\ calls'[k].cursor <= u
        BY <1>2, <2>1, <3>2, Zenon DEF Whole
      <3> QED BY <3>1, <3>3, <3>4
    <2>2. CASE k # h
      <3>1. calls'[k] = calls[k]
        BY <1>2, <2>2
      <3>2. calls[k].seg \in 0 .. Last /\ (calls[k].seg = 0 => calls[k] = NoCall)
        BY DEF CallsFit
      <3>3. CASE calls[k].seg # 0
        <4>1. calls[k].seg \in 1 .. Last
          BY <3>2, <3>3, <1>1
        <4>2. /\ calls[k].upTo <= segs[calls[k].seg].said
              /\ calls[k].seg \notin doubled =>
                    Whole(calls[k]) /\ calls[k].cursor <= calls[k].upTo
          BY <3>3 DEF CallsFit
        <4> QED BY <1>1, <1>3, <3>1, <3>2, <4>1, <4>2
      <3> QED BY <1>1, <3>1, <3>2, <3>3
    <2> QED BY <2>1, <2>2
  <1>5. FinalsFit'
    <2> SUFFICES ASSUME NEW k \in Final, calls'[k].seg # 0
                 PROVE  /\ segs'[calls'[k].seg].ended /\ segs'[calls'[k].seg].said > 0
                        /\ calls'[k].seg \notin doubled' =>
                              /\ segs'[calls'[k].seg].has <=> calls'[k].had
                              /\ segs'[calls'[k].seg].covers = calls'[k].covers
                              /\ segs'[calls'[k].seg].cursor = calls'[k].cursor
                              /\ \A j \in Final : calls'[j].seg = calls'[k].seg => j = k
      BY Zenon DEF FinalsFit
    <2>1. \A j \in Final : j \in Askers
      BY DEF Final
    <2>2. CASE k = h
      <3>1. segs'[s].ended /\ segs'[s].said > 0
        BY <2>2, <1>3 DEF Asks
      <3>2. ASSUME s \notin doubled', NEW j \in Final, calls'[j].seg = s
            PROVE  j = k
        BY <1>2, <2>1, <2>2, <3>2 DEF Asks
      <3> QED BY <1>2, <1>3, <2>2, <3>1, <3>2
    <2>3. CASE k # h
      <3>1. calls'[k] = calls[k]
        BY <1>2, <2>1, <2>3
      <3> DEFINE t == calls[k].seg
      <3>2. t \in 1 .. Last
        BY <1>1, <2>1, <3>1 DEF CallsFit
      <3>3. segs'[t].ended /\ segs'[t].said > 0
        BY <1>3, <3>1, <3>2 DEF FinalsFit
      <3>4. t \notin doubled' =>
              /\ segs'[t].has <=> calls[k].had
              /\ segs'[t].covers = calls[k].covers /\ segs'[t].cursor = calls[k].cursor
        BY <1>1, <1>3, <3>1, <3>2 DEF FinalsFit
      <3>5. ASSUME t \notin doubled', NEW j \in Final, calls'[j].seg = t
            PROVE  j = k
        <4>1. CASE j = h
          BY <1>2, <2>3, <3>1, <3>5, <4>1 DEF Asks
        <4>2. CASE j # h
          <5>1. calls'[j] = calls[j]
            BY <1>2, <2>1, <4>2
          <5> QED BY <1>1, <3>1, <3>5, <5>1 DEF FinalsFit
        <4> QED BY <4>1, <4>2
      <3> QED BY <3>1, <3>3, <3>4, <3>5
    <2> QED BY <2>2, <2>3
  <1>6. SegmentsFit'
    BY <1>1, <1>3, Zenon DEF SegmentsFit, Whole
  <1>7. Forward
    <2> SUFFICES ASSUME NEW t \in 1 .. Last
                 PROVE  /\ t \in 1 .. Last' /\ segs[t].cursor <= segs'[t].cursor
                        /\ segs[t].has => segs'[t].has
      BY DEF Forward
    <2>1. segs[t].cursor \in Nat
      BY <1>1, SummaryAssumption DEF Segments
    <2> QED BY <1>1, <1>3, <2>1
  <1> QED BY <1>4, <1>5, <1>6, <1>7 DEF Asks

\* A summary comes back, or the call failed: one segment changes, and there may be a new one.
Returns(h, r) ==
    LET c == calls[h] IN
    /\ calls[h] # NoCall /\ calls' = [calls EXCEPT ![h] = NoCall]
    /\ SumTypes' /\ doubled' = doubled /\ Longer([segs EXCEPT ![c.seg] = r])
    /\ \/ r = Summarised(segs[c.seg], c)
       \/ r = Kept(segs[c.seg], c) /\ h \in Final
    /\ c.seg \notin doubled =>
          /\ segs[c.seg].cursor = c.cursor
          /\ \A k \in Final : k # h => calls[k].seg # c.seg

\* So does one in which a summary comes back; its segment has one then.
LEMMA ReturnKeeps ==
    ASSUME Sums, NEW h \in Askers, NEW r, Returns(h, r)
    PROVE  /\ Sums' /\ Forward /\ calls[h].seg \in 1 .. Last
           /\ segs'[calls[h].seg].has
           /\ \A t \in 1 .. Last : /\ segs'[t].ended <=> segs[t].ended
                                   /\ segs[t].has => segs'[t].has
           /\ \A t \in 1 .. Last' : t \in 1 .. Last \/ ~segs'[t].ended
  <1> USE DEF Sums
  <1> DEFINE c == calls[h]
             s == c.seg
  <1>1. /\ Last \in Nat /\ Last' \in Nat /\ doubled' = doubled
        /\ \A t \in 1 .. Last : segs[t] \in Segments
        /\ \A t \in 1 .. Last' : segs'[t] \in Segments
    BY SegmentsAre, SegmentsWillBe DEF Returns
  <1>2. calls \in [Askers -> Calls] /\ c \in Calls
    BY DEF SumTypes
  <1>3. s \in 1 .. Last
    BY <1>1 DEF Returns, CallsFit
  <1>4. /\ r \in Segments /\ r.said = segs[s].said /\ r.ended = segs[s].ended /\ r.has = TRUE
    <2>1. segs[s] \in Segments
      BY <1>1, <1>3
    <2>2. r = Summarised(segs[s], c) \/ r = Kept(segs[s], c)
      BY DEF Returns
    <2> DEFINE g == segs[s]
    <2> HIDE DEF s, c, g
    <2>3. /\ Summarised(g, c) \in Segments /\ Kept(g, c) \in Segments
          /\ \A q \in {Summarised(g, c), Kept(g, c)} :
                q.said = g.said /\ q.ended = g.ended /\ q.has = TRUE
      BY <1>2, <2>1, SummaryDoes DEF g
    <2> QED BY <2>2, <2>3, Zenon DEF g
  <1>5. /\ Last <= Last' /\ \A t \in 1 .. Last : t \in 1 .. Last'
        /\ segs'[s] = r /\ \A t \in 1 .. Last : t # s => segs'[t] = segs[t]
        /\ \A t \in 1 .. Last' : t \in 1 .. Last \/ segs'[t] = NewSegment
    BY <1>3, <1>4, OneChanges DEF Returns, Longer
  <1>6. s \notin doubled =>
          /\ r.covers = 1 .. r.cursor /\ segs[s].cursor <= r.cursor /\ r.cursor <= r.said
    <2> SUFFICES ASSUME s \notin doubled
                 PROVE  r.covers = 1 .. r.cursor /\ segs[s].cursor <= r.cursor
                        /\ r.cursor <= r.said
      OBVIOUS
    <2>1. /\ c.covers = 1 .. c.cursor /\ c.cursor <= c.upTo /\ c.upTo <= segs[s].said
          /\ segs[s].cursor = c.cursor
      BY <1>3, <1>1 DEF CallsFit, Whole, Returns
    <2>2. c.cursor \in Nat /\ c.upTo \in Nat /\ segs[s].said \in Nat
      BY <1>1, <1>2, <1>3, SummaryAssumption DEF Calls, Segments
    <2>3. CASE r = Summarised(segs[s], c)
      <3>1. r.covers = c.covers \cup (c.cursor + 1 .. c.upTo) /\ r.cursor = c.upTo
        <4>1. segs[s] \in Segments
          BY <1>1, <1>3
        <4> HIDE DEF s, c
        <4> QED BY <1>2, <2>3, <4>1, SummaryDoes
      <3>2. (1 .. c.cursor) \cup (c.cursor + 1 .. c.upTo) = 1 .. c.upTo
        BY <2>1, <2>2
      <3> QED BY <1>4, <2>1, <2>2, <3>1, <3>2
    <2>4. CASE r = Kept(segs[s], c) /\ h \in Final
      <3>1. r.covers = (IF c.had THEN c.covers ELSE {}) /\ r.cursor = segs[s].cursor
        <4>1. segs[s] \in Segments
          BY <1>1, <1>3
        <4> HIDE DEF s, c
        <4> QED BY <1>2, <2>4, <4>1, SummaryDoes
      <3>2. c.had \/ segs[s].cursor = 0
        BY <1>1, <1>3, <2>4 DEF FinalsFit, SegmentsFit
      <3>3. r.covers = 1 .. r.cursor
        <4>1. CASE c.had
          BY <2>1, <3>1, <4>1
        <4>2. CASE ~c.had
          <5>1. r.covers = {} /\ r.cursor = 0 /\ 1 .. 0 = {}
            BY <3>1, <3>2, <4>2
          <5> QED BY <5>1, Zenon
        <4> QED BY <4>1, <4>2
      <3>4. r.said = segs[s].said /\ segs[s].cursor <= segs[s].said
        BY <1>3, <1>4 DEF SegmentsFit
      <3> QED BY <2>1, <2>2, <3>1, <3>3, <3>4
    <2> QED BY <2>3, <2>4 DEF Returns
  <1>7. /\ calls'[h] = NoCall /\ \A k \in Askers : k # h => calls'[k] = calls[k]
        /\ NoCall.seg = 0 /\ NewSegment.covers = {} /\ NewSegment.cursor = 0
        /\ NewSegment.said = 0 /\ ~NewSegment.ended /\ 1 .. 0 = {}
    BY <1>2 DEF Returns, NoCall, NewSegment
  <1>8. CallsFit'
    <2> SUFFICES ASSUME NEW k \in Askers
                 PROVE  /\ calls'[k].seg \in 0 .. Last'
                        /\ calls'[k].seg = 0 => calls'[k] = NoCall
                        /\ calls'[k].seg # 0 =>
                              /\ calls'[k].upTo <= segs'[calls'[k].seg].said
                              /\ calls'[k].seg \notin doubled' =>
                                    Whole(calls'[k]) /\ calls'[k].cursor <= calls'[k].upTo
      BY DEF CallsFit
    <2>1. CASE k = h
      BY <1>1, <1>7, <2>1
    <2>2. CASE k # h
      <3>1. calls'[k] = calls[k]
        BY <1>7, <2>2
      <3>2. calls[k].seg \in 0 .. Last /\ (calls[k].seg = 0 => calls[k] = NoCall)
        BY DEF CallsFit
      <3>3. CASE calls[k].seg # 0
        <4>1. calls[k].seg \in 1 .. Last
          BY <3>2, <3>3, <1>1
        <4>2. /\ calls[k].upTo <= segs[calls[k].seg].said
              /\ calls[k].seg \notin doubled =>
                    Whole(calls[k]) /\ calls[k].cursor <= calls[k].upTo
          BY <3>3 DEF CallsFit
        <4>3. segs'[calls[k].seg].said = segs[calls[k].seg].said
          BY <1>4, <1>5, <4>1
        <4> QED BY <1>1, <1>5, <3>1, <3>2, <4>1, <4>2, <4>3
      <3> QED BY <1>1, <3>1, <3>2, <3>3
    <2> QED BY <2>1, <2>2
  <1>9. FinalsFit'
    <2> SUFFICES ASSUME NEW k \in Final, calls'[k].seg # 0
                 PROVE  /\ segs'[calls'[k].seg].ended /\ segs'[calls'[k].seg].said > 0
                        /\ calls'[k].seg \notin doubled' =>
                              /\ segs'[calls'[k].seg].has <=> calls'[k].had
                              /\ segs'[calls'[k].seg].covers = calls'[k].covers
                              /\ segs'[calls'[k].seg].cursor = calls'[k].cursor
                              /\ \A j \in Final : calls'[j].seg = calls'[k].seg => j = k
      BY Zenon DEF FinalsFit
    <2>1. \A j \in Final : j \in Askers
      BY DEF Final
    <2>2. k # h /\ calls'[k] = calls[k]
      BY <1>7, <2>1
    <2> DEFINE t == calls[k].seg
    <2>3. t \in 1 .. Last
      BY <1>1, <2>1, <2>2 DEF CallsFit
    <2>4. segs'[t].ended /\ segs'[t].said > 0
      <3>1. segs[t].ended /\ segs[t].said > 0
        BY <2>2 DEF FinalsFit
      <3> QED BY <1>4, <1>5, <2>3, <3>1
    <2>5. ASSUME t \notin doubled
          PROVE  /\ segs'[t].has <=> calls[k].had
                 /\ segs'[t].covers = calls[k].covers /\ segs'[t].cursor = calls[k].cursor
      <3>1. t # s
        BY <2>2, <2>5 DEF Returns
      <3> QED BY <1>5, <2>2, <2>3, <2>5, <3>1 DEF FinalsFit
    <2>6. ASSUME t \notin doubled, NEW j \in Final, calls'[j].seg = t
          PROVE  j = k
      <3>1. calls'[j] = calls[j]
        BY <1>1, <1>7, <2>1, <2>3, <2>6
      <3> QED BY <2>2, <2>6, <3>1 DEF FinalsFit
    <2> QED BY <1>1, <2>2, <2>4, <2>5, <2>6
  <1>10. SegmentsFit'
    <2> SUFFICES ASSUME NEW t \in (1 .. Last') \ doubled
                 PROVE  /\ Whole(segs'[t]) /\ segs'[t].cursor <= segs'[t].said
                        /\ segs'[t].has \/ segs'[t].cursor = 0
      BY <1>1 DEF SegmentsFit
    <2>1. CASE segs'[t] = NewSegment
      <3>1. /\ segs'[t].covers = {} /\ segs'[t].cursor = 0 /\ segs'[t].said = 0
        BY <1>7, <2>1
      <3>2. Whole(segs'[t])
        BY <1>7, <3>1, Zenon DEF Whole
      <3> QED BY <3>1, <3>2
    <2>2. CASE t = s
      BY <1>4, <1>5, <1>6, <2>2 DEF Whole
    <2>3. CASE t \in 1 .. Last /\ t # s
      BY <1>5, <2>3 DEF SegmentsFit
    <2> QED BY <1>5, <2>1, <2>2, <2>3
  <1>11. Forward
    <2> SUFFICES ASSUME NEW t \in (1 .. Last) \ doubled
                 PROVE  /\ t \in 1 .. Last' /\ segs[t].cursor <= segs'[t].cursor
                        /\ segs[t].has => segs'[t].has
      BY <1>1 DEF Forward
    <2>1. segs[t].cursor \in Nat
      BY <1>1, SummaryAssumption DEF Segments
    <2>2. CASE t = s
      BY <1>4, <1>5, <1>6, <2>2
    <2>3. CASE t # s
      BY <1>5, <2>1, <2>3
    <2> QED BY <2>2, <2>3
  <1>12. /\ segs'[s].has
         /\ \A t \in 1 .. Last : (segs'[t].ended <=> segs[t].ended)
                                 /\ (segs[t].has => segs'[t].has)
         /\ \A t \in 1 .. Last' : t \in 1 .. Last \/ ~segs'[t].ended
    BY <1>4, <1>5, <1>7
  <1> QED BY <1>3, <1>8, <1>9, <1>10, <1>11, <1>12 DEF Returns

-----------------------------------------------------------------------------
\* The types after a step, from what it may do to each variable.
LEMMA TypesFollow ==
    ASSUME SumTypes, segs' \in Seq(Segments), Last <= Last', calls' \in [Askers -> Calls],
           sealed' \in {sealed, TRUE}, here' \in {here, TRUE, FALSE},
           dropped' \subseteq dropped \cup (0 .. Last), owed' \subseteq owed \cup {Last},
           minding' \in {0, minding, Last} \cup owed, stops' \in {stops} \cup (0 .. MaxStops),
           doubled' \subseteq doubled \cup ({minding} \ {0}),
           stalled' \in {stalled, TRUE, FALSE}
    PROVE  SumTypes'
  <1>1. Last \in Nat /\ Last' \in Nat /\ Last # 0 /\ Last' # 0
    BY DEF Last, SumTypes
  <1>2. /\ dropped \subseteq 0 .. Last /\ owed \subseteq 1 .. Last /\ minding \in 0 .. Last
        /\ stops \in 0 .. MaxStops /\ doubled \subseteq 1 .. Last
    BY DEF SumTypes, SummaryTypeOK
  <1>3. /\ dropped' \subseteq 0 .. Last' /\ owed' \subseteq 1 .. Last' /\ minding' \in 0 .. Last'
        /\ stops' \in 0 .. MaxStops /\ doubled' \subseteq 1 .. Last'
    BY <1>1, <1>2
  <1>4. {sealed', here', stalled'} \subseteq BOOLEAN
    BY Zenon DEF SumTypes, SummaryTypeOK
  <1> QED BY <1>1, <1>3, <1>4, Zenon DEF SumTypes, SummaryTypeOK, Segments

\* The same, for a step that leaves what is owed alone.
LEMMA TypesStay ==
    ASSUME SumTypes, segs' \in Seq(Segments), Last <= Last', calls' \in [Askers -> Calls],
           sealed' \in {sealed, TRUE}, here' \in {here, TRUE, FALSE},
           dropped' = dropped, owed' = owed, minding' = minding, stops' = stops,
           doubled' = doubled, stalled' = stalled
    PROVE  SumTypes'
  <1>1. /\ dropped' \subseteq dropped \cup (0 .. Last) /\ owed' \subseteq owed \cup {Last}
        /\ minding' \in {0, minding, Last} \cup owed /\ stops' \in {stops} \cup (0 .. MaxStops)
        /\ doubled' \subseteq doubled \cup ({minding} \ {0})
        /\ stalled' \in {stalled, TRUE, FALSE}
    OBVIOUS
  <1> QED BY <1>1, TypesFollow

\* The same, for what a step that takes segments off the list does to them.
LetsTypes ==
    /\ dropped' \subseteq dropped \cup (0 .. Last) /\ owed' \subseteq owed \cup {Last}
    /\ minding' \in {0, minding, Last} \cup owed /\ stalled' \in {stalled, TRUE, FALSE}

\* A call that ended.
LEMMA DropDoes ==
    ASSUME SumTypes, NEW h \in Askers, calls' = [calls EXCEPT ![h] = NoCall]
    PROVE  /\ calls' \in [Askers -> Calls] /\ calls'[h] = NoCall
           /\ \A k \in Askers : k # h => calls'[k] = calls[k]
  BY NoCallType DEF SumTypes

\* Who will make the summary of a segment: a handler that waits for it, the maintenance task
\* that minds it, or, when it is on the list, that task later or the next request.
Owned(s) ==
    \/ \E h \in Final : calls[h].seg = s
    \/ minding = s
    \/ s \in owed /\ (minding # 0 \/ stalled)
\* What is owed, or minded, has ended.
OwedHaveEnded == \A s \in 1 .. Last : s \in owed \/ s = minding => segs[s].ended
\* The invariant of what is owed: the call of the maintenance task is about the segment it
\* minds; and every ended segment without a summary has somebody who will make it.
Owing ==
    /\ calls[Maintenance].seg # 0 => calls[Maintenance].seg = minding
    /\ OwedHaveEnded
    /\ \A s \in (1 .. Last) \ dropped : segs[s].ended /\ ~segs[s].has => Owned(s)

\* Its last part is the property.
LEMMA OwingIsOwed == Owing => SummaryOwed
  <1>1. ASSUME NEW s
        PROVE  Asking(s) \ {Roller} # {} <=> \E h \in Final : calls[h].seg = s
    BY DEF Asking, Final
  <1> QED BY <1>1, Zenon DEF Owing, SummaryOwed, Owned

\* A step that takes segments off the list: each is minded, or lost.
Lets ==
    /\ owed' \subseteq owed /\ minding' = minding /\ stalled' = stalled
    /\ dropped \subseteq dropped' /\ dropped' \subseteq dropped \cup owed
    /\ \A s \in owed : s \in owed' \/ s = minding \/ s \in dropped'

LEMMA PoppingLets ==
    ASSUME RoundPopped \/ UNCHANGED <<owed, dropped>>, UNCHANGED <<minding, stalled>>
    PROVE  Lets
  BY DEF RoundPopped, Loses, Lets

LEMMA AfterLets ==
    ASSUME NEW old, After(old), UNCHANGED <<minding, stalled>>
    PROVE  Lets
  <1>1. RoundPopped \/ UNCHANGED <<owed, dropped>>
    BY DEF After
  <1> QED BY <1>1, PoppingLets

LEMMA LetsAre == SumTypes /\ Lets => LetsTypes
  <1> SUFFICES ASSUME SumTypes, Lets
               PROVE  LetsTypes
    OBVIOUS
  <1>1. owed \subseteq 0 .. Last
    BY DEF SumTypes, SummaryTypeOK
  <1> QED BY <1>1 DEF Lets, LetsTypes

\* Such a step leaves a segment to whoever had it in hand, unless it loses it.
LEMMA LetsOwned ==
    ASSUME Lets, NEW s, s \notin dropped', Owned(s),
           \A k \in Final : calls[k].seg = s => calls'[k].seg = s
    PROVE  Owned(s)'
  <1>1. CASE \E k \in Final : calls[k].seg = s
    BY <1>1, Zenon DEF Owned, Lets
  <1>2. CASE minding = s
    BY <1>2, Zenon DEF Owned, Lets
  <1>3. CASE s \in owed /\ (minding # 0 \/ stalled)
    BY <1>3, Zenon DEF Owned, Lets
  <1> QED BY <1>1, <1>2, <1>3 DEF Owned

\* A segment that has ended stays so.
LEMMA EndedStays ==
    ASSUME SumTypes, OwedHaveEnded, owed' \subseteq owed \cup {minding} \cup {0},
           minding' \in {0, minding} \cup owed,
           \A s \in 1 .. Last : segs[s].ended => segs'[s].ended
    PROVE  OwedHaveEnded'
  <1>1. owed \subseteq 1 .. Last /\ minding \in 0 .. Last /\ Last \in Nat
    BY SegmentsAre DEF SumTypes, SummaryTypeOK
  <1>2. ASSUME NEW s \in 1 .. Last', s \in owed' \/ s = minding'
        PROVE  segs'[s].ended
    <2>1. s # 0
      BY <1>2
    <2>2. s \in owed \/ s = minding
      BY <1>2, <2>1
    <2>3. s \in 1 .. Last
      BY <1>1, <2>1, <2>2
    <2> QED BY <2>2, <2>3 DEF OwedHaveEnded
  <1> QED BY <1>2 DEF OwedHaveEnded

\* Who asks for summaries.
LEMMA Handlers ==
    /\ Roller \in Askers /\ Maintenance \in Final /\ Final \subseteq Askers
    /\ \A h \in Closers : h \in Final /\ h # Maintenance
    /\ Roller \notin Final /\ Maintenance # Roller
    /\ \A h \in Final : h = Maintenance \/ h \in Closers
    /\ NoCall.seg = 0
  BY SummaryAssumption DEF Askers, Final, Roller, Maintenance, NoCall

-----------------------------------------------------------------------------
\* One lemma for each action: it keeps the invariants and takes nothing back.
LEMMA SayKeeps ==
    ASSUME Sums, Owing, Say
    PROVE  Sums' /\ Forward /\ Owing'
  <1> DEFINE g == segs[Last]
             r == [g EXCEPT !.said = g.said + 1]
  <1>1. SumTypes /\ Last \in 1 .. Last /\ g \in Segments
    BY SegmentsAre DEF Sums, SumTypes
  <1>2. g.said + 1 \in 0 .. MaxMessages
    <2>1. g.said < MaxMessages
      BY Zenon DEF Say
    <2> QED BY <1>1, <2>1, SummaryAssumption DEF Segments
  <1>3. /\ r \in Segments /\ r.said = g.said + 1 /\ r.ended = g.ended /\ r.has = g.has
        /\ r.covers = g.covers /\ r.cursor = g.cursor
    BY <1>1, <1>2 DEF Segments
  <1>4. segs' = [segs EXCEPT ![Last] = r]
    BY DEF Say
  <1>5. g.said \in Nat
    BY <1>1, SummaryAssumption DEF Segments
  <1> HIDE DEF r
  <1>6. /\ segs' \in Seq(Segments) /\ Last' = Last
        /\ segs'[Last] = r /\ \A t \in 1 .. Last : t # Last => segs'[t] = segs[t]
    BY <1>1, <1>3, <1>4, OneChanges DEF Last
  <1>7. SumTypes'
    <2>1. /\ sealed' \in {sealed, TRUE} /\ here' \in {here, TRUE, FALSE}
          /\ calls' \in [Askers -> Calls] /\ dropped' = dropped /\ owed' = owed
          /\ minding' = minding /\ stops' = stops /\ doubled' = doubled /\ stalled' = stalled
      BY DEF Say, kept, Sums, SumTypes
    <2>2. Last <= Last' /\ segs' \in Seq(Segments)
      BY <1>1, <1>6, SegmentsAre
    <2> QED BY ONLY <1>1, <2>1, <2>2, TypesStay
  <1>8. \A s \in 1 .. Last : segs[s].said \in Nat
    BY <1>1, SegmentsAre, SummaryAssumption DEF Segments
  <1>9. Grows
    <2>1. doubled' = doubled /\ calls' = calls
      BY Zenon DEF Say
    <2>2. \A s \in 1 .. Last : s # Last => segs[s].said <= segs'[s].said
      BY <1>6, <1>8
    <2>3. g.said <= r.said
      BY <1>3, <1>5
    <2> HIDE DEF g
    <2>4. \A s \in 1 .. Last :
             /\ segs[s].said <= segs'[s].said
             /\ segs'[s].has = segs[s].has /\ segs'[s].ended = segs[s].ended
             /\ segs'[s].covers = segs[s].covers /\ segs'[s].cursor = segs[s].cursor
      BY ONLY <1>3, <1>6, <2>2, <2>3, Zenon DEF g
    <2>5. Last <= Last' /\ 1 .. Last' = 1 .. Last
      BY <1>1, <1>6, SegmentsAre
    <2> QED BY ONLY <1>7, <2>1, <2>4, <2>5 DEF Grows
  <1>10. Owing'
    BY <1>3, <1>6 DEF Say, kept, Owing, OwedHaveEnded, Owned
  <1> QED BY <1>9, <1>10, GrowKeeps

LEMMA RollAsksKeeps ==
    ASSUME Sums, Owing, RollAsks
    PROVE  Sums' /\ Forward /\ Owing'
  <1> DEFINE g == segs[Last]
             u == g.said - Recent
  <1>1. SumTypes /\ Last \in 1 .. Last /\ g \in Segments /\ Roller \in Askers
    BY SegmentsAre, Handlers DEF Sums, SumTypes
  <1>2. g.said \in 0 .. MaxMessages /\ g.cursor \in 0 .. MaxMessages
    BY <1>1 DEF Segments
  <1>3. u \in 0 .. MaxMessages /\ u <= g.said /\ g.cursor <= u
    BY <1>2, SummaryAssumption DEF RollAsks
  <1>4. calls' = [calls EXCEPT ![Roller] = Asked(Last, u)] /\ segs' = segs /\ Last' = Last
    BY DEF RollAsks, Last
  <1>5. /\ calls' \in [Askers -> Calls]
        /\ \A k \in Askers : k # Roller => calls'[k] = calls[k]
    <2> HIDE DEF u
    <2> QED BY <1>1, <1>3, <1>4, AskedDoes
  <1>6. SumTypes'
    <2>1. /\ sealed' \in {sealed, TRUE} /\ here' \in {here, TRUE, FALSE}
          /\ dropped' = dropped /\ owed' = owed
          /\ minding' = minding /\ stops' = stops /\ doubled' = doubled /\ stalled' = stalled
      BY DEF RollAsks, kept
    <2>2. Last <= Last' /\ segs' \in Seq(Segments)
      BY <1>1, <1>4, SegmentsAre
    <2> QED BY ONLY <1>1, <1>5, <2>1, <2>2, TypesStay
  <1>7. Asks(Roller, Last, u)
    <2>1. \A t \in 1 .. Last :
            /\ segs'[t].said = segs[t].said /\ (segs[t].ended => segs'[t].ended)
            /\ SameSummary(segs'[t], segs[t])
      BY <1>4, Zenon DEF SameSummary
    <2>2. doubled \subseteq doubled'
      BY DEF RollAsks
    <2> HIDE DEF u
    <2> QED BY <1>3, <1>4, <1>6, <2>1, <2>2, Handlers DEF Asks
  <1>8. Owing'
    BY <1>4, <1>5, Handlers DEF RollAsks, kept, Owing, OwedHaveEnded, Owned
  <1> HIDE DEF u
  <1> QED BY <1>1, <1>3, <1>7, <1>8, AskKeeps

LEMMA RollReturnsKeeps ==
    ASSUME Sums, Owing, RollReturns
    PROVE  Sums' /\ Forward /\ Owing'
  <1> DEFINE c == calls[Roller]
             r == Summarised(segs[c.seg], c)
  <1>1. /\ SumTypes /\ Last \in Nat /\ Roller \in Askers
        /\ calls' = [calls EXCEPT ![Roller] = NoCall]
    BY SegmentsAre, Handlers DEF Sums, RollReturns
  <1>2. /\ calls' \in [Askers -> Calls] /\ calls'[Roller] = NoCall
        /\ \A k \in Askers : k # Roller => calls'[k] = calls[k]
    BY <1>1, DropDoes
  <1>3. /\ sealed' \in {sealed, TRUE} /\ here' \in {here, TRUE, FALSE}
        /\ dropped' = dropped /\ owed' = owed
        /\ minding' = minding /\ stops' = stops /\ doubled' = doubled /\ stalled' = stalled
    BY DEF RollReturns, kept
  <1>4. \A k \in Final : k \in Askers /\ k # Roller
    BY Handlers
  <1>5. CASE StillRolls(c) /\ segs' = [segs EXCEPT ![c.seg] = r]
    <2>1. c.seg \in 1 .. Last /\ segs[c.seg] \in Segments /\ c \in Calls
      BY <1>1, <1>5, SegmentsAre DEF StillRolls, SumTypes
    <2>2. r \in Segments
      BY <2>1, SummaryDoes
    <2>3. segs' \in Seq(Segments) /\ Last' = Last
      <3> HIDE DEF r
      <3> QED BY <1>1, <1>5, <2>1, <2>2, OneChanges DEF Last
    <2>4. SumTypes'
      <3>1. Last <= Last'
        BY <1>1, <2>3
      <3> QED BY ONLY <1>1, <1>2, <1>3, <2>3, <3>1, TypesStay
    <2>5. Longer([segs EXCEPT ![c.seg] = r])
      <3>1. Longer(segs')
        BY <1>1, <2>3 DEF Longer
      <3> QED BY <1>5, <3>1 DEF Longer
    <2>6. c.seg \notin doubled =>
            /\ segs[c.seg].cursor = c.cursor
            /\ \A k \in Final : k # Roller => calls[k].seg # c.seg
      BY <1>1, <1>5, <2>1 DEF StillRolls, Sums, FinalsFit
    <2>7. Returns(Roller, r)
      BY <1>1, <1>3, <2>4, <2>5, <2>6 DEF Returns, RollReturns
    <2>8. /\ Sums' /\ Forward
          /\ \A s \in 1 .. Last : /\ segs'[s].ended <=> segs[s].ended
                                  /\ segs[s].has => segs'[s].has
      <3> HIDE DEF r
      <3> QED BY <1>1, <2>7, ReturnKeeps
    <2>9. Owing'
      BY <1>2, <1>3, <1>4, <2>3, <2>8, Handlers DEF Owing, OwedHaveEnded, Owned
    <2> QED BY <2>8, <2>9
  <1>6. CASE UNCHANGED segs
    <2>1. segs' \in Seq(Segments) /\ Last' = Last /\ Last <= Last'
      BY <1>1, <1>6, SegmentsAre DEF Last
    <2>2. SumTypes'
      BY ONLY <1>1, <1>2, <1>3, <2>1, TypesStay
    <2>3. \A s \in 1 .. Last : segs[s].said \in Nat
      BY <1>1, SegmentsAre, SummaryAssumption DEF Segments
    <2>4. Grows
      BY <1>2, <1>3, <1>6, <2>1, <2>2, <2>3 DEF Grows
    <2>5. Owing'
      BY <1>2, <1>3, <1>4, <1>6, <2>1, Handlers DEF Owing, OwedHaveEnded, Owned
    <2> QED BY <2>4, <2>5, GrowKeeps
  <1> QED BY <1>5, <1>6 DEF RollReturns

LEMMA CloseDirectlyKeeps ==
    ASSUME Sums, Owing, CloseDirectly
    PROVE  Sums' /\ Forward /\ Owing'
  <1> DEFINE g == segs[Last]
  <1>1. SumTypes /\ Last \in Nat /\ Last \in 1 .. Last /\ g \in Segments
    BY SegmentsAre DEF Sums, SumTypes
  <1>2. PICK r \in Segments :
          /\ After([segs EXCEPT ![Last] = r])
          /\ r.said = g.said /\ r.covers = g.covers /\ r.cursor = g.cursor
          /\ g.ended => r.ended
          /\ \/ (r.has <=> g.has) /\ (r.ended <=> g.ended)
             \/ r.has /\ ~g.ended
    <2>1. CASE g.ended /\ After(segs)
      <3>1. segs \in Seq(Segments)
        BY <1>1, SegmentsAre
      <3>2. [segs EXCEPT ![Last] = g] = segs
        BY <1>1, <3>1 DEF Last
      <3> QED BY <1>1, <2>1, <3>2, Zenon
    <2>2. CASE ~g.ended /\ After([segs EXCEPT ![Last].ended = TRUE, ![Last].has = TRUE])
      <3> DEFINE r == [g EXCEPT !.ended = TRUE, !.has = TRUE]
      <3>1. /\ r \in Segments /\ r.said = g.said /\ r.covers = g.covers /\ r.cursor = g.cursor
            /\ r.ended = TRUE /\ r.has = TRUE
        BY <1>1 DEF Segments
      <3>2. segs \in Seq(Segments)
        BY <1>1, SegmentsAre
      <3>3. [segs EXCEPT ![Last].ended = TRUE, ![Last].has = TRUE] = [segs EXCEPT ![Last] = r]
        BY <1>1, <3>2 DEF Segments, Last
      <3> QED BY <2>2, <3>1, <3>3
    <2> QED BY <2>1, <2>2 DEF CloseDirectly
  <1> DEFINE old == [segs EXCEPT ![Last] = r]
  <1>3. /\ old \in Seq(Segments) /\ Len(old) = Last
        /\ old[Last] = r /\ \A t \in 1 .. Last : t # Last => old[t] = segs[t]
    BY <1>1, OneChanges
  <1> HIDE DEF old
  <1>4. Longer(old) /\ sealed' \in {sealed, TRUE} /\ here' \in {here, TRUE, FALSE}
    BY <1>2, <1>3, AfterDoes DEF old
  <1>5. /\ segs' \in Seq(Segments) /\ Last <= Last'
        /\ segs'[Last] = r /\ \A t \in 1 .. Last : t # Last => segs'[t] = segs[t]
        /\ \A t \in 1 .. Last : t \in 1 .. Last'
        /\ \A t \in 1 .. Last' : t \in 1 .. Last \/ segs'[t] = NewSegment
    BY <1>1, <1>3, <1>4 DEF Longer
  <1>6. /\ calls' = calls /\ minding' = minding /\ stalled' = stalled
        /\ stops' = stops /\ doubled' = doubled
    BY DEF CloseDirectly
  <1>14. Lets
    BY <1>2, <1>6, AfterLets
  <1>7. SumTypes'
    <2>1. calls' \in [Askers -> Calls]
      BY <1>6 DEF Sums, SumTypes
    <2>2. LetsTypes
      BY <1>1, <1>14, LetsAre
    <2>3. /\ stops' \in {stops} \cup (0 .. MaxStops)
          /\ doubled' \subseteq doubled \cup ({minding} \ {0})
      BY <1>6
    <2> QED BY ONLY <1>1, <1>4, <1>5, <2>1, <2>2, <2>3, TypesFollow DEF LetsTypes
  <1>8. \A s \in 1 .. Last : segs[s].said \in Nat
    BY <1>1, SegmentsAre, SummaryAssumption DEF Segments
  <1>9. ~g.ended => \A h \in Final : calls[h].seg # Last
    BY <1>1 DEF Sums, FinalsFit
  <1>10. Grows
    BY <1>1, <1>2, <1>5, <1>6, <1>7, <1>8, <1>9 DEF Grows
  <1>11. ~NewSegment.ended
    BY DEF NewSegment
  <1>12. OwedHaveEnded'
    <2>1. \A s \in 1 .. Last : segs[s].ended => segs'[s].ended
      BY <1>2, <1>5
    <2> QED BY <1>1, <1>14, <2>1, EndedStays DEF Owing, Lets
  <1>13. Owing'
    <2>1. ASSUME NEW s \in (1 .. Last') \ dropped', segs'[s].ended, ~segs'[s].has
          PROVE  Owned(s)'
      <3>1. s \in 1 .. Last /\ segs[s].ended /\ ~segs[s].has
        BY <1>2, <1>5, <1>11, <2>1
      <3>2. Owned(s)
        BY <1>14, <2>1, <3>1 DEF Owing, Lets
      <3> QED BY <1>6, <1>14, <2>1, <3>2, LetsOwned
    <2> QED BY <1>6, <1>12, <2>1 DEF Owing
  <1> QED BY <1>10, <1>13, GrowKeeps

LEMMA CloseAsksKeeps ==
    ASSUME Sums, Owing, NEW h \in Closers, CloseAsks(h)
    PROVE  Sums' /\ Forward /\ Owing'
  <1> DEFINE g == segs[Last]
             u == g.said
             r == [g EXCEPT !.ended = TRUE]
  <1>1. /\ SumTypes /\ Last \in Nat /\ Last \in 1 .. Last /\ g \in Segments
        /\ h \in Askers /\ h \in Final /\ h # Maintenance
    BY SegmentsAre, Handlers DEF Sums, SumTypes
  <1>2. u \in 0 .. MaxMessages /\ g.cursor \in 0 .. MaxMessages /\ u <= g.said /\ g.said > 0
    BY <1>1 DEF Segments, CloseAsks
  <1>3. /\ r \in Segments /\ r.said = g.said /\ r.has = g.has
        /\ r.covers = g.covers /\ r.cursor = g.cursor /\ r.ended = TRUE
    BY <1>1 DEF Segments
  <1>4. /\ calls' = [calls EXCEPT ![h] = Asked(Last, u)]
        /\ segs' = [segs EXCEPT ![Last] = r]
    BY DEF CloseAsks
  <1> HIDE DEF r, u
  <1>5. /\ calls' \in [Askers -> Calls] /\ calls'[h].seg = Last
        /\ \A k \in Askers : k # h => calls'[k] = calls[k]
    BY <1>1, <1>2, <1>4, AskedDoes
  <1>6. /\ segs' \in Seq(Segments) /\ Last' = Last
        /\ segs'[Last] = r /\ \A t \in 1 .. Last : t # Last => segs'[t] = segs[t]
    BY <1>1, <1>3, <1>4, OneChanges DEF Last
  <1>7. SumTypes'
    <2>1. /\ sealed' \in {sealed, TRUE} /\ here' \in {here, TRUE, FALSE}
          /\ dropped' = dropped /\ owed' = owed
          /\ minding' = minding /\ stops' = stops /\ doubled' = doubled /\ stalled' = stalled
      BY DEF CloseAsks, kept
    <2>2. Last <= Last'
      BY <1>1, <1>6
    <2> QED BY ONLY <1>1, <1>5, <1>6, <2>1, <2>2, TypesStay
  <1>8. Asks(h, Last, u)
    <2>1. \A t \in 1 .. Last :
            /\ segs'[t].said = segs[t].said /\ (segs[t].ended => segs'[t].ended)
            /\ SameSummary(segs'[t], segs[t])
      BY <1>3, <1>6 DEF SameSummary
    <2>2. doubled' = doubled
      BY DEF CloseAsks
    <2>3. Last \notin doubled => g.cursor <= u
      BY <1>1, <1>2 DEF Sums, SegmentsFit, u
    <2>4. \A k \in Final : calls[k].seg # Last
      BY <1>1 DEF Sums, FinalsFit, CloseAsks
    <2>5. segs'[Last].ended
      BY <1>3, <1>6
    <2> QED BY <1>2, <1>4, <1>6, <1>7, <2>1, <2>2, <2>3, <2>4, <2>5 DEF Asks
  <1>9. Owing'
    <2>1. /\ owed' = owed /\ minding' = minding /\ dropped' = dropped /\ calls[h].seg = 0
          /\ stalled' = stalled
      BY Handlers DEF CloseAsks, kept
    <2>2. calls'[Maintenance] = calls[Maintenance]
      BY <1>1, <1>5, Handlers
    <2>3. ASSUME NEW s \in (1 .. Last) \ dropped, segs'[s].ended, ~segs'[s].has
          PROVE  Owned(s)'
      <3>1. CASE s = Last
        BY <1>1, <1>5, <3>1 DEF Owned
      <3>2. CASE s # Last
        <4>1. Owned(s)
          BY <1>6, <2>3, <3>2 DEF Owing
        <4>2. \A k \in Final : calls[k].seg = s => calls'[k].seg = s
          BY <1>5, <2>1, Handlers
        <4> QED BY <2>1, <4>1, <4>2, Zenon DEF Owned
      <3> QED BY <3>1, <3>2
    <2>4. OwedHaveEnded'
      <3>1. \A s \in 1 .. Last : segs[s].ended => segs'[s].ended
        BY <1>3, <1>6
      <3> QED BY <1>1, <2>1, <3>1, EndedStays DEF Owing
    <2> QED BY <1>6, <2>1, <2>2, <2>3, <2>4 DEF Owing
  <1> QED BY <1>1, <1>2, <1>8, <1>9, AskKeeps

\* What Returned offers is a summary, or one kept.
LEMMA ReturnedDoes ==
    ASSUME NEW c, NEW old \in Returned(c)
    PROVE  \E r \in {Summarised(segs[c.seg], c), Kept(segs[c.seg], c)} :
              old = [segs EXCEPT ![c.seg] = r]
  BY Zenon DEF Returned

\* A final summary that comes back, whatever becomes of the conversation.
LEMMA FinalReturns ==
    ASSUME Sums, NEW h \in Final, calls[h] # NoCall, NEW old \in Returned(calls[h]),
           Longer(old), calls' = [calls EXCEPT ![h] = NoCall], SumTypes', doubled' = doubled
    PROVE  /\ Sums' /\ Forward /\ calls[h].seg \in 1 .. Last
           /\ segs'[calls[h].seg].has
           /\ \A s \in 1 .. Last : /\ segs'[s].ended <=> segs[s].ended
                                   /\ segs[s].has => segs'[s].has
           /\ \A s \in 1 .. Last' : s \in 1 .. Last \/ ~segs'[s].ended
  <1> DEFINE c == calls[h]
  <1>1. PICK r \in {Summarised(segs[c.seg], c), Kept(segs[c.seg], c)} :
          old = [segs EXCEPT ![c.seg] = r]
    BY ReturnedDoes
  <1>2. h \in Askers /\ Final \subseteq Askers
    BY Handlers
  <1>3. c.seg # 0
    BY <1>2 DEF Sums, CallsFit
  <1>4. c.seg \notin doubled =>
          /\ segs[c.seg].cursor = c.cursor
          /\ \A k \in Final : k # h => calls[k].seg # c.seg
    BY <1>3 DEF Sums, FinalsFit
  <1>5. Returns(h, r)
    BY <1>1, <1>4 DEF Returns
  <1> QED BY <1>2, <1>5, ReturnKeeps

LEMMA CloseReturnsKeeps ==
    ASSUME Sums, Owing, NEW h \in Closers, CloseReturns(h)
    PROVE  Sums' /\ Forward /\ Owing'
  <1>1. /\ SumTypes /\ h \in Askers /\ h \in Final /\ h # Maintenance /\ calls[h] # NoCall
        /\ calls' = [calls EXCEPT ![h] = NoCall]
    BY Handlers DEF Sums, CloseReturns
  <1>2. PICK old \in Returned(calls[h]) : After(old)
    BY DEF CloseReturns
  <1>3. calls[h].seg \in 1 .. Last /\ segs[calls[h].seg] \in Segments /\ calls[h] \in Calls
    <2>1. Last \in Nat /\ calls[h].seg \in 0 .. Last /\ calls[h].seg # 0
      BY <1>1, SegmentsAre DEF Sums, CallsFit
    <2>2. calls[h].seg \in 1 .. Last
      BY <2>1
    <2> QED BY <1>1, <2>2, SegmentsAre DEF SumTypes
  <1>4. old \in Seq(Segments) /\ Len(old) = Last
    <2>1. PICK r \in {Summarised(segs[calls[h].seg], calls[h]),
                      Kept(segs[calls[h].seg], calls[h])} :
            old = [segs EXCEPT ![calls[h].seg] = r]
      BY ReturnedDoes
    <2>2. r \in Segments
      BY <1>3, <2>1, SummaryDoes
    <2> QED BY <1>1, <1>3, <2>1, <2>2, OneChanges
  <1>5. Longer(old) /\ sealed' \in {sealed, TRUE} /\ here' \in {here, TRUE, FALSE}
    BY <1>2, <1>4, AfterDoes
  <1>6. /\ calls' \in [Askers -> Calls] /\ calls'[h] = NoCall
        /\ \A k \in Askers : k # h => calls'[k] = calls[k]
    BY <1>1, DropDoes
  <1>7. minding' = minding /\ stalled' = stalled /\ stops' = stops /\ doubled' = doubled
    BY DEF CloseReturns
  <1>11. Lets
    BY <1>2, <1>7, AfterLets
  <1>8. SumTypes'
    <2>1. segs' \in Seq(Segments) /\ Last <= Last'
      BY <1>5 DEF Longer
    <2>2. LetsTypes
      BY <1>1, <1>11, LetsAre
    <2>3. /\ stops' \in {stops} \cup (0 .. MaxStops)
          /\ doubled' \subseteq doubled \cup ({minding} \ {0})
      BY <1>7
    <2> QED BY ONLY <1>1, <1>5, <1>6, <2>1, <2>2, <2>3, TypesFollow DEF LetsTypes
  <1>9. /\ Sums' /\ Forward /\ segs'[calls[h].seg].has
        /\ \A s \in 1 .. Last : /\ segs'[s].ended <=> segs[s].ended
                                /\ segs[s].has => segs'[s].has
        /\ \A s \in 1 .. Last' : s \in 1 .. Last \/ ~segs'[s].ended
    BY <1>1, <1>2, <1>5, <1>7, <1>8, FinalReturns
  <1>10. Owing'
    <2>1. calls'[Maintenance] = calls[Maintenance]
      BY <1>1, <1>6, Handlers
    <2>2. ASSUME NEW s \in (1 .. Last') \ dropped', segs'[s].ended, ~segs'[s].has
          PROVE  Owned(s)'
      <3>1. s \in 1 .. Last /\ segs[s].ended /\ ~segs[s].has /\ s # calls[h].seg
        BY <1>9, <2>2
      <3>2. Owned(s)
        BY <1>11, <2>2, <3>1 DEF Owing, Lets
      <3>3. \A k \in Final : calls[k].seg = s => calls'[k].seg = s
        BY <1>6, <3>1, Handlers
      <3> QED BY <1>11, <2>2, <3>2, <3>3, LetsOwned
    <2>3. OwedHaveEnded'
      BY <1>1, <1>11, <1>9, EndedStays DEF Owing, Lets
    <2> QED BY <1>7, <2>1, <2>2, <2>3 DEF Owing
  <1> QED BY <1>9, <1>10

LEMMA PlayerGoesKeeps ==
    ASSUME Sums, Owing, PlayerGoes
    PROVE  Sums' /\ Forward /\ Owing'
  <1> DEFINE g == segs[Last]
             r == [g EXCEPT !.ended = TRUE]
             ended == [segs EXCEPT ![Last] = r]
  <1>1. SumTypes /\ Last \in Nat /\ Last \in 1 .. Last /\ g \in Segments
    BY SegmentsAre DEF Sums, SumTypes
  <1>2. /\ r \in Segments /\ r.said = g.said /\ r.has = g.has
        /\ r.covers = g.covers /\ r.cursor = g.cursor /\ r.ended = TRUE
    BY <1>1 DEF Segments
  <1> HIDE DEF r
  <1>3. /\ ended \in Seq(Segments) /\ Len(ended) = Last
        /\ ended[Last] = r /\ \A t \in 1 .. Last : t # Last => ended[t] = segs[t]
    BY <1>1, <1>2, OneChanges
  <1>4. segs' = Append(ended, NewSegment) \/ segs' = ended
    BY DEF PlayerGoes, r
  <1> HIDE DEF ended
  <1>5. /\ segs' \in Seq(Segments) /\ Last <= Last'
        /\ segs'[Last] = r /\ \A t \in 1 .. Last : t # Last => segs'[t] = segs[t]
        /\ \A t \in 1 .. Last : t \in 1 .. Last'
        /\ \A t \in 1 .. Last' : t \in 1 .. Last \/ segs'[t] = NewSegment
    <2>1. CASE segs' = ended
      BY <1>1, <1>3, <2>1 DEF Last
    <2>2. CASE segs' = Append(ended, NewSegment)
      <3>1. /\ segs' \in Seq(Segments) /\ Len(segs') = Last + 1
            /\ \A t \in 1 .. Last : segs'[t] = ended[t]
            /\ segs'[Last + 1] = NewSegment
        BY <1>1, <1>3, <2>2, NoCallType
      <3>2. Last' = Last + 1
        BY <3>1 DEF Last
      <3> QED BY <1>1, <1>3, <3>1, <3>2
    <2> QED BY <1>4, <2>1, <2>2
  <1>6. /\ sealed' \in {sealed, TRUE} /\ here' \in {here, TRUE, FALSE}
        /\ calls' = calls /\ owed' = {Last} /\ dropped' = dropped \cup (owed \ {Last, minding})
        /\ minding' = (IF minding = 0 THEN Last ELSE minding)
        /\ stops' = stops /\ doubled' = doubled /\ stalled' = stalled
    BY DEF PlayerGoes, Scheduled, Loses
  <1>7. owed \subseteq 1 .. Last /\ minding \in 0 .. Last
    BY <1>1 DEF SumTypes, SummaryTypeOK
  <1>8. SumTypes'
    <2>1. /\ dropped' \subseteq dropped \cup (0 .. Last) /\ owed' \subseteq owed \cup {Last}
          /\ minding' \in {0, minding, Last} \cup owed /\ stops' \in {stops} \cup (0 .. MaxStops)
          /\ doubled' \subseteq doubled \cup ({minding} \ {0})
      <3>1. owed \subseteq 0 .. Last
        BY <1>1, <1>7
      <3>2. minding' \in {0, minding, Last}
        BY <1>6
      <3> QED BY <1>6, <3>1, <3>2
    <2>2. calls' \in [Askers -> Calls]
      BY <1>6 DEF Sums, SumTypes
    <2> QED BY ONLY <1>1, <1>5, <1>6, <2>1, <2>2, TypesFollow
  <1>9. \A s \in 1 .. Last : segs[s].said \in Nat
    BY <1>1, SegmentsAre, SummaryAssumption DEF Segments
  <1>10. Grows
    BY <1>1, <1>2, <1>5, <1>6, <1>8, <1>9 DEF Grows
  <1>11. ~NewSegment.ended
    BY DEF NewSegment
  <1>12. Owing'
    <2>1. calls'[Maintenance].seg # 0 => calls'[Maintenance].seg = minding'
      <3>1. Maintenance \in Askers /\ Maintenance \in Final
        BY Handlers
      <3>2. calls[Maintenance].seg # 0 => calls[Maintenance].seg = minding
        BY DEF Owing
      <3> QED BY <1>6, <3>2
    <2>3. ASSUME NEW s \in (1 .. Last') \ dropped', segs'[s].ended, ~segs'[s].has
          PROVE  Owned(s)'
      <3>1. s \in 1 .. Last
        BY <1>5, <1>11, <2>3
      <3>2. CASE s = Last
        BY <1>1, <1>6, <3>2 DEF Owned
      <3>3. CASE s # Last
        <4>1. segs[s].ended /\ ~segs[s].has /\ s \notin dropped /\ (s \notin owed \/ s = minding)
          BY <1>5, <1>6, <2>3, <3>1, <3>3
        <4>2. (\E h \in Final : calls[h].seg = s) \/ minding = s
          BY <3>1, <4>1 DEF Owing, Owned
        <4>3. s # 0
          BY <3>1
        <4>4. minding = s => minding' = s
          BY <1>6, <4>3
        <4> QED BY <1>6, <4>2, <4>4, Zenon DEF Owned
      <3> QED BY <3>2, <3>3
    <2>4. OwedHaveEnded'
      <3>1. segs'[Last].ended
        BY <1>2, <1>5
      <3>2. ASSUME NEW s \in 1 .. Last', s = Last \/ s = minding
            PROVE  segs'[s].ended
        <4>1. CASE s = Last
          BY <3>1, <4>1
        <4>2. CASE s = minding /\ s # Last
          <5>1. s \in 1 .. Last
            BY <1>1, <1>7, <4>2
          <5> QED BY <1>5, <4>2, <5>1 DEF Owing, OwedHaveEnded
        <4> QED BY <3>2, <4>1, <4>2
      <3> QED BY <1>6, <3>2 DEF OwedHaveEnded
    <2> QED BY <2>1, <2>3, <2>4, Zenon DEF Owing
  <1> QED BY <1>10, <1>12, GrowKeeps

LEMMA MaintenanceAsksKeeps ==
    ASSUME Sums, Owing, MaintenanceAsks
    PROVE  Sums' /\ Forward /\ Owing'
  <1> DEFINE s == minding
             u == segs[s].said
  <1>1. /\ SumTypes /\ Last \in Nat /\ s \in 1 .. Last /\ segs[s] \in Segments
        /\ Maintenance \in Askers /\ Maintenance \in Final
    <2>1. minding \in 0 .. Last /\ minding # 0 /\ Last \in Nat
      BY SegmentsAre DEF Sums, SumTypes, SummaryTypeOK, MaintenanceAsks
    <2> QED BY <2>1, SegmentsAre, Handlers DEF Sums
  <1>2. u \in 0 .. MaxMessages /\ u <= segs[s].said /\ segs[s].said > 0
    BY <1>1 DEF Segments, MaintenanceAsks
  <1>3. /\ calls' = [calls EXCEPT ![Maintenance] = Asked(s, u)] /\ segs' = segs /\ Last' = Last
        /\ doubled' = IF Asking(s) \ {Roller} # {} THEN doubled \cup {s} ELSE doubled
    BY DEF MaintenanceAsks, Last
  <1> HIDE DEF u
  <1>4. /\ calls' \in [Askers -> Calls] /\ calls'[Maintenance].seg = s
        /\ \A k \in Askers : k # Maintenance => calls'[k] = calls[k]
    BY <1>1, <1>2, <1>3, AskedDoes
  <1>5. /\ sealed' \in {sealed, TRUE} /\ here' \in {here, TRUE, FALSE}
        /\ dropped' = dropped /\ owed' = owed /\ minding' = minding /\ stops' = stops
        /\ stalled' = stalled
    BY DEF MaintenanceAsks, kept
  <1>6. SumTypes'
    <2>1. /\ dropped' \subseteq dropped \cup (0 .. Last) /\ owed' \subseteq owed \cup {Last}
          /\ minding' \in {0, minding, Last} \cup owed /\ stops' \in {stops} \cup (0 .. MaxStops)
          /\ doubled' \subseteq doubled \cup ({minding} \ {0})
      BY <1>1, <1>3, <1>5
    <2>2. Last <= Last' /\ segs' \in Seq(Segments)
      BY <1>1, <1>3, SegmentsAre
    <2> QED BY ONLY <1>1, <1>4, <1>5, <2>1, <2>2, TypesFollow
  <1>7. Asks(Maintenance, s, u)
    <2>1. \A t \in 1 .. Last :
            /\ segs'[t].said = segs[t].said /\ (segs[t].ended => segs'[t].ended)
            /\ SameSummary(segs'[t], segs[t])
      BY <1>3, Zenon DEF SameSummary
    <2>2. doubled \subseteq doubled'
      BY <1>3
    <2>3. s \notin doubled => segs[s].cursor <= u
      BY <1>1 DEF Sums, SegmentsFit, u
    <2>4. segs'[s].ended
      BY <1>1, <1>3 DEF Owing, OwedHaveEnded
    <2>5. s \notin doubled' => \A k \in Final : k # Maintenance => calls[k].seg # s
      <3>1. s \notin doubled' => Asking(s) \ {Roller} = {}
        BY <1>3
      <3> QED BY <3>1, Handlers DEF Asking
    <2> QED BY <1>2, <1>3, <1>6, <2>1, <2>2, <2>3, <2>4, <2>5 DEF Asks
  <1>8. Owing'
    <2>1. ASSUME NEW t \in (1 .. Last) \ dropped, segs[t].ended, ~segs[t].has
          PROVE  Owned(t)'
      <3>1. Owned(t)
        BY <2>1 DEF Owing
      <3>2. \A k \in Final : calls[k].seg = t => calls'[k].seg = t
        <4>1. calls[Maintenance] = NoCall /\ NoCall.seg = 0
          BY Handlers DEF MaintenanceAsks
        <4> QED BY <1>4, <2>1, <4>1, Handlers
      <3> QED BY <1>5, <3>1, <3>2, Zenon DEF Owned
    <2>2. Last' = Last /\ segs' = segs /\ calls'[Maintenance].seg = minding'
      BY <1>3, <1>4, <1>5
    <2> QED BY <1>5, <2>1, <2>2 DEF Owing, OwedHaveEnded
  <1> QED BY <1>1, <1>2, <1>7, <1>8, AskKeeps

\* The maintenance of a segment that now has a summary ends: it goes on with another one, or
\* raises and leaves the list to the next request.
LEMMA EndsDoes ==
    ASSUME MaintenanceEnds
    PROVE  /\ owed' = owed \ {minding}
           /\ \/ minding' \in owed' /\ stalled' = FALSE /\ stops' = stops
              \/ owed' = {} /\ minding' = 0 /\ stalled' = FALSE /\ stops' = stops
              \/ minding' = 0 /\ stalled' = TRUE /\ stops < MaxStops /\ stops' = stops + 1
  BY DEF MaintenanceEnds, Resumed, Fails

LEMMA EndsOwing ==
    ASSUME Sums, SumTypes', Owing, MaintenanceEnds, minding # 0, calls'[Maintenance] = NoCall,
           \A k \in Final : k # Maintenance => calls'[k] = calls[k],
           calls[Maintenance].seg \in {0, minding}, dropped' = dropped, Last' = Last,
           segs'[minding].has,
           \A s \in 1 .. Last : /\ segs'[s].ended <=> segs[s].ended
                                /\ segs[s].has => segs'[s].has
    PROVE  Owing'
  <1>1. /\ SumTypes /\ owed \subseteq 1 .. Last /\ owed' = owed \ {minding}
        /\ minding' \in {0} \cup owed
    BY EndsDoes DEF Sums, SumTypes, SummaryTypeOK
  <1>2. OwedHaveEnded'
    BY <1>1, EndedStays DEF Owing
  <1>3. ASSUME NEW s \in (1 .. Last) \ dropped, segs'[s].ended, ~segs'[s].has
        PROVE  Owned(s)'
    <2>1. segs[s].ended /\ ~segs[s].has /\ s # minding
      BY <1>3
    <2>2. (\E k \in Final : calls[k].seg = s) \/ s \in owed
      BY <1>3, <2>1 DEF Owing, Owned
    <2>3. CASE s \in owed
      <3>1. s \in owed'
        BY <1>1, <2>1, <2>3
      <3>2. minding' # 0 \/ stalled'
        <4>1. \A u \in owed' : u # 0
          BY <1>1
        <4> QED BY <3>1, <4>1, EndsDoes
      <3> QED BY <3>1, <3>2 DEF Owned
    <2>4. ASSUME NEW k \in Final, calls[k].seg = s
          PROVE  Owned(s)'
      <3>1. k # Maintenance
        BY <2>1, <2>4
      <3>2. calls'[k].seg = s
        BY <2>4, <3>1
      <3> QED BY <3>2 DEF Owned
    <2> QED BY <2>2, <2>3, <2>4
  <1>4. calls'[Maintenance].seg = 0
    BY Handlers
  <1> QED BY <1>1, <1>2, <1>3, <1>4 DEF Owing

LEMMA EndsTypes ==
    ASSUME SumTypes, MaintenanceEnds, segs' \in Seq(Segments), Last' = Last,
           calls' \in [Askers -> Calls], sealed' = sealed, here' = here, dropped' = dropped,
           doubled' = doubled
    PROVE  SumTypes'
  <1>1. stops' \in {stops} \cup (0 .. MaxStops)
    <2>1. stops \in 0 .. MaxStops
      BY DEF SumTypes, SummaryTypeOK
    <2>2. stops' = stops \/ (stops < MaxStops /\ stops' = stops + 1)
      BY EndsDoes
    <2> QED BY <2>1, <2>2, SummaryAssumption
  <1>2. /\ dropped' \subseteq dropped \cup (0 .. Last) /\ owed' \subseteq owed \cup {Last}
        /\ minding' \in {0, minding, Last} \cup owed /\ stalled' \in {stalled, TRUE, FALSE}
        /\ doubled' \subseteq doubled \cup ({minding} \ {0})
        /\ sealed' \in {sealed, TRUE} /\ here' \in {here, TRUE, FALSE}
    BY EndsDoes
  <1>3. Last <= Last'
    BY SegmentsAre
  <1> QED BY ONLY <1>1, <1>2, <1>3, TypesFollow, SumTypes, segs' \in Seq(Segments),
                  calls' \in [Askers -> Calls]

LEMMA MaintenanceSkipsKeeps ==
    ASSUME Sums, Owing, MaintenanceSkips
    PROVE  Sums' /\ Forward /\ Owing'
  <1> DEFINE g == segs[minding]
             r == [g EXCEPT !.has = TRUE]
  <1>1. /\ SumTypes /\ Last \in Nat /\ minding \in 1 .. Last /\ minding # 0 /\ g \in Segments
    <2>1. minding \in 0 .. Last /\ minding # 0 /\ Last \in Nat
      BY SegmentsAre DEF Sums, SumTypes, SummaryTypeOK, MaintenanceSkips
    <2> QED BY <2>1, SegmentsAre DEF Sums
  <1>2. /\ r \in Segments /\ r.said = g.said /\ r.has = TRUE /\ r.ended = g.ended
        /\ r.covers = g.covers /\ r.cursor = g.cursor
    BY <1>1 DEF Segments
  <1>3. segs' = [segs EXCEPT ![minding] = r]
    BY DEF MaintenanceSkips
  <1> HIDE DEF r
  <1>4. /\ segs' \in Seq(Segments) /\ Last' = Last
        /\ segs'[minding] = r /\ \A t \in 1 .. Last : t # minding => segs'[t] = segs[t]
    BY <1>1, <1>2, <1>3, OneChanges DEF Last
  <1>5. /\ MaintenanceEnds /\ calls' = calls /\ sealed' = sealed /\ here' = here
        /\ dropped' = dropped /\ doubled' = doubled
        /\ calls[Maintenance] = NoCall /\ calls' \in [Askers -> Calls]
    BY DEF MaintenanceSkips, Sums, SumTypes
  <1>6. SumTypes'
    BY <1>1, <1>4, <1>5, EndsTypes
  <1>7. \A s \in 1 .. Last : segs[s].said \in Nat
    BY <1>1, SegmentsAre, SummaryAssumption DEF Segments
  <1>8. g.has \/ \A h \in Final : calls[h].seg # minding
    <2>1. g.has \/ g.said = 0
      BY DEF MaintenanceSkips
    <2>2. \A h \in Final : calls[h].seg = minding => g.said > 0
      BY <1>1 DEF Sums, FinalsFit
    <2> QED BY <2>1, <2>2
  <1>9. Grows
    BY <1>1, <1>2, <1>4, <1>5, <1>6, <1>7, <1>8 DEF Grows
  <1>10. Owing'
    <2>1. \A s \in 1 .. Last : /\ segs'[s].ended <=> segs[s].ended
                               /\ segs[s].has => segs'[s].has
      BY <1>2, <1>4
    <2>2. segs'[minding].has /\ calls[Maintenance].seg \in {0, minding}
      BY <1>2, <1>4, <1>5, Handlers
    <2> QED BY <1>1, <1>4, <1>5, <1>6, <2>1, <2>2, EndsOwing
  <1> QED BY <1>9, <1>10, GrowKeeps

LEMMA MaintenanceReturnsKeeps ==
    ASSUME Sums, Owing, MaintenanceReturns
    PROVE  Sums' /\ Forward /\ Owing'
  <1> DEFINE c == calls[Maintenance]
  <1>1. /\ SumTypes /\ Maintenance \in Askers /\ Maintenance \in Final /\ c # NoCall
        /\ calls' = [calls EXCEPT ![Maintenance] = NoCall] /\ segs' \in Returned(c)
        /\ MaintenanceEnds /\ sealed' = sealed /\ here' = here /\ dropped' = dropped
        /\ doubled' = doubled
    BY Handlers DEF Sums, MaintenanceReturns
  <1>2. Last \in Nat /\ c.seg # 0 /\ c.seg \in 1 .. Last /\ c.seg = minding
    <2>1. Last \in Nat /\ c.seg \in 0 .. Last /\ c.seg # 0
      BY <1>1, SegmentsAre DEF Sums, CallsFit
    <2> QED BY <2>1 DEF Owing
  <1>3. segs[c.seg] \in Segments /\ c \in Calls
    BY <1>1, <1>2, SegmentsAre DEF SumTypes
  <1>4. segs' \in Seq(Segments) /\ Last' = Last
    <2>1. PICK r \in {Summarised(segs[c.seg], c), Kept(segs[c.seg], c)} :
            segs' = [segs EXCEPT ![c.seg] = r]
      BY <1>1, ReturnedDoes
    <2>2. r \in Segments
      BY <1>3, <2>1, SummaryDoes
    <2> QED BY <1>1, <1>2, <2>1, <2>2, OneChanges DEF Last
  <1>5. /\ calls' \in [Askers -> Calls] /\ calls'[Maintenance] = NoCall
        /\ \A k \in Askers : k # Maintenance => calls'[k] = calls[k]
    BY <1>1, DropDoes
  <1>6. SumTypes'
    BY <1>1, <1>4, <1>5, EndsTypes
  <1>7. Longer(segs')
    BY <1>2, <1>4 DEF Longer
  <1>8. /\ Sums' /\ Forward /\ segs'[c.seg].has
        /\ \A s \in 1 .. Last : /\ segs'[s].ended <=> segs[s].ended
                                /\ segs[s].has => segs'[s].has
    <2> HIDE DEF c
    <2>1. ASSUME NEW old, old = segs'
          PROVE  old \in Returned(calls[Maintenance]) /\ Longer(old)
      BY <1>1, <1>7, <2>1 DEF c
    <2> QED BY <1>1, <1>6, <1>7, FinalReturns DEF c
  <1>9. Owing'
    <2>1. \A k \in Final : k # Maintenance => calls'[k] = calls[k]
      BY <1>5, Handlers
    <2>2. minding # 0 /\ c.seg \in {0, minding} /\ segs'[minding].has
      BY <1>2, <1>8
    <2> QED BY <1>1, <1>4, <1>5, <1>6, <1>8, <2>1, <2>2, EndsOwing
  <1> QED BY <1>8, <1>9

\* A step in which handlers are gone, with what they waited for, unless the list has it.
Breaks(lost) ==
    /\ segs' = segs /\ Last' = Last /\ sealed' = sealed /\ here' = here
    /\ owed' = owed /\ doubled' = doubled /\ stops < MaxStops /\ stops' = stops + 1
    /\ lost \subseteq 0 .. Last /\ dropped' = dropped \cup lost
    /\ calls' \in [Askers -> Calls]
    /\ \A h \in Askers : calls'[h] = calls[h] \/ calls'[h] = NoCall
    /\ \A h \in Final :
          \/ calls'[h] = calls[h]
          \/ calls[h].seg \in lost \/ calls[h].seg = 0 \/ h = Maintenance
    /\ \/ UNCHANGED <<minding, stalled>> /\ calls'[Maintenance] = calls[Maintenance]
       \/ /\ minding' = 0 /\ stalled' = TRUE /\ calls'[Maintenance] = NoCall
          /\ minding \in lost \cup owed \cup {0}

LEMMA BreakKeeps ==
    ASSUME Sums, Owing, NEW lost, Breaks(lost)
    PROVE  Sums' /\ Forward /\ Owing'
  <1>1. /\ SumTypes /\ Last \in Nat /\ owed \subseteq 1 .. Last /\ minding \in 0 .. Last
        /\ segs' = segs /\ Last' = Last /\ owed' = owed /\ dropped' = dropped \cup lost
    BY SegmentsAre DEF Sums, SumTypes, SummaryTypeOK, Breaks
  <1>2. SumTypes'
    <2>1. stops' \in {stops} \cup (0 .. MaxStops)
      <3>1. stops \in 0 .. MaxStops
        BY <1>1 DEF SumTypes, SummaryTypeOK
      <3> QED BY <3>1, SummaryAssumption DEF Breaks
    <2>2. dropped' \subseteq dropped \cup (0 .. Last) /\ calls' \in [Askers -> Calls]
      BY DEF Breaks
    <2>3. /\ owed' \subseteq owed \cup {Last} /\ minding' \in {0, minding, Last} \cup owed
          /\ doubled' \subseteq doubled \cup ({minding} \ {0})
          /\ sealed' \in {sealed, TRUE} /\ here' \in {here, TRUE, FALSE}
          /\ stalled' \in {stalled, TRUE, FALSE}
      BY DEF Breaks
    <2>4. Last <= Last' /\ segs' \in Seq(Segments)
      BY <1>1, SegmentsAre
    <2> QED BY ONLY <1>1, <2>1, <2>2, <2>3, <2>4, TypesFollow
  <1>3. \A s \in 1 .. Last : segs[s].said \in Nat
    BY <1>1, SegmentsAre, SummaryAssumption DEF Segments
  <1>4. Grows
    BY <1>1, <1>2, <1>3 DEF Breaks, Grows
  <1>5. OwedHaveEnded'
    <2>1. \A s \in 1 .. Last : segs[s].ended => segs'[s].ended
      BY <1>1
    <2>2. owed' \subseteq owed \cup {minding} \cup {0} /\ minding' \in {0, minding} \cup owed
      BY DEF Breaks
    <2> QED BY <1>1, <2>1, <2>2, EndedStays DEF Owing
  <1>6. ASSUME NEW s \in (1 .. Last) \ dropped', segs[s].ended, ~segs[s].has
        PROVE  Owned(s)'
    <2>1. s \notin dropped /\ s \notin lost /\ s # 0
      BY <1>1, <1>6
    <2>2. Owned(s)
      BY <1>6, <2>1 DEF Owing
    <2>3. CASE minding = s
      <3>1. CASE UNCHANGED <<minding, stalled>>
        BY <2>3, <3>1 DEF Owned
      <3>2. CASE minding' = 0 /\ stalled' = TRUE /\ minding \in lost \cup owed \cup {0}
        BY <1>1, <2>1, <2>3, <3>2 DEF Owned
      <3> QED BY <3>1, <3>2 DEF Breaks
    <2>4. CASE s \in owed /\ (minding # 0 \/ stalled)
      BY <1>1, <2>4, Zenon DEF Breaks, Owned
    <2>5. ASSUME NEW k \in Final, calls[k].seg = s, minding # s
          PROVE  Owned(s)'
      <3>1. k # Maintenance
        BY <2>1, <2>5 DEF Owing
      <3>2. calls'[k] = calls[k]
        BY <2>1, <2>5, <3>1 DEF Breaks
      <3> QED BY <2>5, <3>2 DEF Owned
    <2> QED BY <2>2, <2>3, <2>4, <2>5 DEF Owned
  <1>7. calls'[Maintenance].seg # 0 => calls'[Maintenance].seg = minding'
    BY Handlers DEF Breaks, Owing
  <1> QED BY <1>1, <1>4, <1>5, <1>6, <1>7, GrowKeeps DEF Owing

LEMMA CloseRaisesKeeps ==
    ASSUME Sums, Owing, NEW h \in Closers, CloseRaises(h)
    PROVE  Sums' /\ Forward /\ Owing'
  <1>1. /\ SumTypes /\ h \in Askers /\ h \in Final /\ h # Maintenance
        /\ calls' = [calls EXCEPT ![h] = NoCall]
    BY Handlers DEF Sums, CloseRaises
  <1>2. /\ calls' \in [Askers -> Calls] /\ calls'[h] = NoCall
        /\ \A k \in Askers : k # h => calls'[k] = calls[k]
    BY <1>1, DropDoes
  <1> DEFINE lost == {calls[h].seg}
  <1>3. lost \subseteq 0 .. Last
    BY <1>1 DEF Sums, CallsFit
  <1>4. calls'[Maintenance] = calls[Maintenance]
    BY <1>1, <1>2, Handlers
  <1>5. \A k \in Final : calls'[k] = calls[k] \/ calls[k].seg \in lost
    BY <1>2, Handlers
  <1>6. \A k \in Askers : calls'[k] = calls[k] \/ calls'[k] = NoCall
    BY <1>2
  <1>7. Last' = Last
    BY DEF CloseRaises, Last
  <1>8. Breaks(lost)
    BY <1>2, <1>3, <1>4, <1>5, <1>6, <1>7 DEF Breaks, CloseRaises, Fails, Loses
  <1> HIDE DEF lost
  <1> QED BY <1>8, BreakKeeps

LEMMA MaintenanceRaisesKeeps ==
    ASSUME Sums, Owing, MaintenanceRaises
    PROVE  Sums' /\ Forward /\ Owing'
  <1>1. /\ SumTypes /\ Maintenance \in Askers /\ Maintenance \in Final
        /\ calls' = [calls EXCEPT ![Maintenance] = NoCall]
    BY Handlers DEF Sums, MaintenanceRaises
  <1>2. /\ calls' \in [Askers -> Calls] /\ calls'[Maintenance] = NoCall
        /\ \A k \in Askers : k # Maintenance => calls'[k] = calls[k]
    BY <1>1, DropDoes
  <1> DEFINE lost == {minding} \ owed
  <1>3. lost \subseteq 0 .. Last
    BY <1>1 DEF SumTypes, SummaryTypeOK
  <1>4. \A k \in Final : calls'[k] = calls[k] \/ k = Maintenance
    BY <1>2, Handlers
  <1>5. \A k \in Askers : calls'[k] = calls[k] \/ calls'[k] = NoCall
    BY <1>2
  <1>6. Last' = Last
    BY DEF MaintenanceRaises, Last
  <1>7. Breaks(lost)
    BY <1>2, <1>3, <1>4, <1>5, <1>6 DEF Breaks, MaintenanceRaises, Fails, Loses
  <1> HIDE DEF lost
  <1> QED BY <1>7, BreakKeeps

LEMMA StoppedKeeps ==
    ASSUME Sums, Owing, Stopped
    PROVE  Sums' /\ Forward /\ Owing'
  <1>1. SumTypes /\ calls' = [h \in Askers |-> NoCall] /\ Maintenance \in Askers
    BY Handlers DEF Sums, Stopped
  <1>2. calls' \in [Askers -> Calls] /\ \A h \in Askers : calls'[h] = NoCall
    BY <1>1, NoCallType
  <1> DEFINE lost == {calls[h].seg : h \in Closers} \cup ({minding} \ owed)
  <1>3. lost \subseteq 0 .. Last
    <2>1. \A h \in Closers : calls[h].seg \in 0 .. Last
      BY Handlers DEF Sums, CallsFit
    <2>2. minding \in 0 .. Last
      BY <1>1 DEF SumTypes, SummaryTypeOK
    <2> QED BY <2>1, <2>2
  <1>4. \A h \in Final : calls[h].seg \in lost \/ h = Maintenance
    BY Handlers
  <1>5. Last' = Last /\ minding \in lost \cup owed
    BY DEF Stopped, Last
  <1>6. Breaks(lost)
    BY <1>1, <1>2, <1>3, <1>4, <1>5 DEF Breaks, Stopped, Fails, Loses
  <1> HIDE DEF lost
  <1> QED BY <1>6, BreakKeeps

\* The chat worker of a closed conversation, and a request, only touch the list and the task.
LEMMA ListKeeps ==
    ASSUME Sums, Owing, segs' = segs, calls' = calls, doubled' = doubled, stops' = stops,
           sealed' = sealed, here' = here, LetsTypes, owed' \subseteq owed,
           minding' \in {minding} \cup owed, minding # 0 => minding' = minding,
           dropped \subseteq dropped', \A s \in (1 .. Last) \ dropped' : Owned(s) => Owned(s)'
    PROVE  Sums' /\ Forward /\ Owing'
  <1>1. /\ SumTypes /\ Last \in Nat /\ Last' = Last /\ Last <= Last' /\ segs' \in Seq(Segments)
        /\ calls' \in [Askers -> Calls]
    BY SegmentsAre DEF Sums, SumTypes, Last
  <1>2. SumTypes'
    <2>1. /\ stops' \in {stops} \cup (0 .. MaxStops)
          /\ doubled' \subseteq doubled \cup ({minding} \ {0})
          /\ sealed' \in {sealed, TRUE} /\ here' \in {here, TRUE, FALSE}
      OBVIOUS
    <2> QED BY ONLY <1>1, <2>1, LetsTypes, TypesFollow DEF LetsTypes
  <1>3. \A s \in 1 .. Last : segs[s].said \in Nat
    BY <1>1, SegmentsAre, SummaryAssumption DEF Segments
  <1>4. Grows
    BY <1>1, <1>2, <1>3 DEF Grows
  <1>5. OwedHaveEnded'
    <2>1. \A s \in 1 .. Last : segs[s].ended => segs'[s].ended
      BY <1>1
    <2> QED BY <1>1, <2>1, EndedStays DEF Owing
  <1>6. calls'[Maintenance].seg # 0 => calls'[Maintenance].seg = minding'
    BY DEF Owing
  <1>7. ASSUME NEW s \in (1 .. Last) \ dropped', segs[s].ended, ~segs[s].has
        PROVE  Owned(s)'
    <2>1. Owned(s)
      BY <1>7 DEF Owing
    <2> QED BY <1>7, <2>1
  <1>8. Owing'
    BY <1>1, <1>5, <1>6, <1>7 DEF Owing
  <1> QED BY <1>4, <1>8, GrowKeeps

LEMMA WorkerEndsKeeps ==
    ASSUME Sums, Owing, WorkerEnds
    PROVE  Sums' /\ Forward /\ Owing'
  <1>1. /\ segs' = segs /\ calls' = calls /\ doubled' = doubled /\ stops' = stops
        /\ sealed' = sealed /\ here' = here
    BY DEF WorkerEnds
  <1>2. Lets
    BY PoppingLets DEF WorkerEnds
  <1>3. LetsTypes
    BY <1>2, LetsAre DEF Sums
  <1>4. \A s \in (1 .. Last) \ dropped' : Owned(s) => Owned(s)'
    BY <1>1, <1>2, LetsOwned
  <1> QED BY <1>1, <1>2, <1>3, <1>4, ListKeeps DEF Lets

LEMMA RequestedKeeps ==
    ASSUME Sums, Owing, Requested
    PROVE  Sums' /\ Forward /\ Owing'
  <1>1. /\ segs' = segs /\ calls' = calls /\ doubled' = doubled /\ stops' = stops
        /\ sealed' = sealed /\ here' = here /\ owed' = owed /\ dropped' = dropped
        /\ stalled' = FALSE
        /\ \/ minding' = minding /\ (minding = 0 => owed = {})
           \/ minding = 0 /\ minding' \in owed
    BY DEF Requested, Resumed
  <1>2. LetsTypes
    BY <1>1 DEF LetsTypes
  <1>3. ASSUME NEW s \in (1 .. Last) \ dropped', Owned(s)
        PROVE  Owned(s)'
    <2>1. s # 0
      BY <1>3
    <2>2. \A u \in owed : u # 0
      BY DEF Sums, SumTypes, SummaryTypeOK
    <2>3. CASE \E k \in Final : calls[k].seg = s
      BY <1>1, <2>1, <2>3 DEF Owned
    <2>4. CASE minding = s
      BY <1>1, <2>1, <2>4 DEF Owned
    <2>5. CASE s \in owed
      BY <1>1, <2>1, <2>2, <2>5 DEF Owned
    <2> QED BY <1>3, <2>3, <2>4, <2>5 DEF Owned
  <1> QED BY <1>1, <1>2, <1>3, ListKeeps

-----------------------------------------------------------------------------
\* The invariants hold initially and every step keeps them.
LEMMA SummaryInits == SummaryInit => Sums /\ Owing
  <1> SUFFICES ASSUME SummaryInit
               PROVE  Sums /\ Owing
    OBVIOUS
  <1>1. /\ segs = <<NewSegment>> /\ Last = 1 /\ segs \in Seq(Segments)
        /\ calls \in [Askers -> Calls] /\ \A h \in Askers : calls[h] = NoCall
    BY NoCallType DEF SummaryInit, Last
  <1>2. {sealed, here, stalled} \subseteq BOOLEAN
    BY Zenon DEF SummaryInit
  <1>3. SumTypes
    BY <1>1, <1>2, SummaryAssumption DEF SummaryInit, SumTypes, SummaryTypeOK, Segments
  <1>4. /\ NoCall.seg = 0 /\ NewSegment.covers = {} /\ NewSegment.cursor = 0
        /\ NewSegment.said = 0 /\ ~NewSegment.ended /\ 1 .. 0 = {}
    BY DEF NoCall, NewSegment
  <1>5. CallsFit /\ FinalsFit
    BY <1>1, <1>4 DEF CallsFit, FinalsFit, Final
  <1>6. SegmentsFit
    <2>1. \A s \in 1 .. Last : segs[s] = NewSegment
      BY <1>1
    <2>2. Whole(NewSegment)
      BY <1>4, Zenon DEF Whole
    <2> QED BY <1>4, <2>1, <2>2 DEF SegmentsFit
  <1>7. Owing
    <2>1. \A s \in 1 .. Last : segs[s] = NewSegment
      BY <1>1
    <2>2. calls[Maintenance].seg = 0
      BY <1>1, <1>4, Handlers
    <2> QED BY <1>4, <2>1, <2>2 DEF SummaryInit, Owing, OwedHaveEnded
  <1> QED BY <1>3, <1>5, <1>6, <1>7 DEF Sums

LEMMA SummaryStep == Sums /\ Owing /\ [SummaryNext]_summaryVars => Sums' /\ Forward /\ Owing'
  <1> SUFFICES ASSUME Sums, Owing, [SummaryNext]_summaryVars
               PROVE  Sums' /\ Forward /\ Owing'
    OBVIOUS
  <1>1. CASE Say
    BY <1>1, SayKeeps
  <1>2. CASE RollAsks
    BY <1>2, RollAsksKeeps
  <1>3. CASE RollReturns
    BY <1>3, RollReturnsKeeps
  <1>4. CASE CloseDirectly
    BY <1>4, CloseDirectlyKeeps
  <1>5. CASE PlayerGoes
    BY <1>5, PlayerGoesKeeps
  <1>6. ASSUME NEW h \in Closers, CloseAsks(h)
        PROVE  Sums' /\ Forward /\ Owing'
    BY <1>6, CloseAsksKeeps
  <1>7. ASSUME NEW h \in Closers, CloseReturns(h)
        PROVE  Sums' /\ Forward /\ Owing'
    BY <1>7, CloseReturnsKeeps
  <1>8. CASE MaintenanceAsks
    BY <1>8, MaintenanceAsksKeeps
  <1>9. CASE MaintenanceSkips
    BY <1>9, MaintenanceSkipsKeeps
  <1>10. CASE MaintenanceReturns
    BY <1>10, MaintenanceReturnsKeeps
  <1>11. CASE Stopped
    BY <1>11, StoppedKeeps
  <1>13. ASSUME NEW h \in Closers, CloseRaises(h)
         PROVE  Sums' /\ Forward /\ Owing'
    BY <1>13, CloseRaisesKeeps
  <1>14. CASE MaintenanceRaises
    BY <1>14, MaintenanceRaisesKeeps
  <1>15. CASE WorkerEnds
    BY <1>15, WorkerEndsKeeps
  <1>16. CASE Requested
    BY <1>16, RequestedKeeps
  <1>12. CASE UNCHANGED summaryVars
    <2>1. /\ segs' = segs /\ sealed' = sealed /\ here' = here /\ calls' = calls /\ owed' = owed
          /\ minding' = minding /\ stops' = stops /\ doubled' = doubled /\ dropped' = dropped
          /\ stalled' = stalled /\ Last' = Last
      BY <1>12 DEF summaryVars, Last
    <2>2. SumTypes'
      BY <2>1, Zenon DEF Sums, SumTypes, SummaryTypeOK
    <2>3. Last \in Nat /\ \A s \in 1 .. Last : segs[s].said \in Nat
      BY SegmentsAre, SummaryAssumption DEF Sums, Segments
    <2>4. Grows
      BY <2>1, <2>2, <2>3 DEF Grows
    <2>5. Owing'
      BY <2>1, Zenon DEF Owing, Owned, OwedHaveEnded
    <2> QED BY <2>4, <2>5, GrowKeeps
  <1> QED BY <1>1, <1>2, <1>3, <1>4, <1>5, <1>6, <1>7, <1>8, <1>9, <1>10, <1>11, <1>12,
             <1>13, <1>14, <1>15, <1>16 DEF SummaryNext

\* The inductive invariant of the summaries and of what is owed.
THEOREM SummaryInvariant == SummarySpec => [](Sums /\ Owing)
  BY SummaryInits, SummaryStep, PTL DEF SummarySpec

\* Every segment, cursor and list of owed segments stays of its type.
THEOREM SummaryTypeCorrect == SummarySpec => []SummaryTypeOK
  <1>1. Sums => SummaryTypeOK
    BY DEF Sums, SumTypes
  <1> QED BY <1>1, SummaryInvariant, PTL

\* An ended segment without a summary is in hand, over leaves, failed calls, tasks that raise
\* and restarts, but for the steps that lose one: a join or a leave that waits for it raises
\* or is stopped; a later leave of the player writes the list anew, or the closing of the
\* conversation pops it (_chat_worker, _close_conversation_locked), while no task minds it;
\* and the task that minds it, off the list since, raises or is stopped.
THEOREM SummariesAreOwed == SummarySpec => []SummaryOwed
  <1>1. Owing => SummaryOwed
    BY OwingIsOwed
  <1> QED BY <1>1, SummaryInvariant, PTL

\* With whole summaries up to the cursors, the prompts show every message.
LEMMA ForwardHidesNothing ==
    Forward /\ Sums' => \A s \in (1 .. Last) \ doubled' :
                            /\ segs[s].cursor <= segs'[s].cursor
                            /\ segs[s].has => segs'[s].has
                            /\ Shown(segs'[s]) = 1 .. segs'[s].said
  <1> SUFFICES ASSUME Forward, Sums', NEW s \in (1 .. Last) \ doubled'
               PROVE  Shown(segs'[s]) = 1 .. segs'[s].said
    BY Zenon DEF Forward
  <1>1. s \in (1 .. Last') \ doubled' /\ segs'[s] \in Segments
    BY SegmentsWillBe DEF Forward, Sums
  <1> DEFINE g == segs'[s]
  <1>2. g.covers = 1 .. g.cursor /\ g.cursor <= g.said
    BY <1>1 DEF Sums, SegmentsFit, Whole
  <1>3. g.cursor \in Nat /\ g.said \in Nat
    BY <1>1, SummaryAssumption DEF Segments
  <1>4. (1 .. g.cursor) \cup (g.cursor + 1 .. g.said) = 1 .. g.said
    BY <1>2, <1>3
  <1> QED BY <1>2, <1>4 DEF Shown

\* No message is hidden from a prompt, and neither cursor nor summary goes back, whatever is
\* said, joined or summarised while the model works (_maybe_roll_segment_summary_locked,
\* _summarize_segment_locked), unless two final summaries of a segment are asked for at a time.
THEOREM SummariesHideNothing == SummarySpec => NothingHidden
  <1>1. Sums /\ Owing /\ [SummaryNext]_summaryVars
          => [\A s \in (1 .. Last) \ doubled' :
                 /\ segs[s].cursor <= segs'[s].cursor
                 /\ segs[s].has => segs'[s].has
                 /\ Shown(segs'[s]) = 1 .. segs'[s].said]_summaryVars
    BY SummaryStep, ForwardHidesNothing, Zenon
  <1> QED BY <1>1, SummaryInvariant, PTL DEF NothingHidden, SummarySpec
================================================================================
