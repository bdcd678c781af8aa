---------------------------- MODULE Consolidation ----------------------------
(***************************************************************************)
(* What an NPC takes with it when it leaves a conversation                 *)
(* (orchestration/run_service.py, class RunService): while it talks, its   *)
(* goal and relationship changes are a draft of the conversation; when it  *)
(* has left, its exit consolidation waits for a model, commits the draft,  *)
(* stores the memories and new goals of the model's answer and counts the  *)
(* meeting.  A consolidation that failed may be retried once; those a      *)
(* player's leave owes are done by a maintenance task, one a conversation. *)
(*                                                                         *)
(* The module follows one NPC through the conversations it takes part in.  *)
(* run.lock is released during the model calls: who takes part changes     *)
(* while a join, a leave or a closing waits, and the entry of              *)
(* consolidation_status read before the call decides, after it, whether    *)
(* the draft is committed and the meeting counted.  Any handler may raise  *)
(* while it waits (a save that fails), and the process may stop.           *)
(***************************************************************************)
EXTENDS Integers, FiniteSets

CONSTANTS Stays,         \* conversations the NPC may take part in
          StayBounds     \* bounds, one of them for a behaviour: how often it enters each
                         \* (visits); those the player may leave (shared); joins, leaves,
                         \* closings and retries under way at a time (handlers); handlers
                         \* that raise and restarts (failures)

ASSUME ConsolidationAssumption ==
    /\ IsFiniteSet(Stays)
    /\ StayBounds \subseteq [visits : [Stays -> Nat], shared : SUBSET Stays,
                             handlers : Nat, failures : Nat]

VARIABLES
    seat,      \* "away", "in" or "left"; of a closed conversation, "over" (still among
               \* its participants) or "gone"
    joining,   \* conversations it joins: the segment summary is awaited
    leaving,   \* conversations it leaves: the segment summary is awaited
    closing,   \* the handler that consolidates the remaining participants: "no" such,
               \* it has "listed" the NPC, then "settled" it, and is "done"
    draft,     \* run.conversation_drafts[c][npc]
    entry,     \* run.consolidation_status[(c, npc)]
    work,      \* consolidations that wait for a model: what they read before
    leaveTask, \* the maintenance task: "none", it is "due" to consolidate the NPC, or at
               \* its "last": done with the NPC, or not told of it
    stranded,  \* conversations whose task was lost with an entry pending: it raised, or
               \* the process stopped; until the next request
    goal,      \* status of the NPC's goal: "open" (active, blocked) or "done"
    met,       \* interactionCount of its relationships
    departed,  \* run.actor_states[npc]["status"] is "departed"
    commits,   \* history: how often a draft of each conversation was committed
    visits,    \* history: how often it entered each conversation
    overlap,   \* history: two consolidations of it waited at the same time
    failures,  \* handlers that raised and restarts so far
    bound      \* the bounds of this behaviour

stayVars == <<seat, joining, leaving, closing, draft, entry, work, leaveTask, stranded,
              goal, met, departed, commits, visits, overlap, failures, bound>>
waits    == <<joining, leaving, closing>>
tasks    == <<leaveTask, stranded>>
ownVars  == <<goal, met, departed, commits>>

NoDraft == [held |-> FALSE, goal |-> "none"]
NewDraft == [NoDraft EXCEPT !.held = TRUE]
NoEntry == [st |-> "none", tries |-> 0, committed |-> FALSE, counted |-> FALSE]

HandlersAllowed ==
    Cardinality(joining) + Cardinality(leaving)
        + Cardinality({c \in Stays : closing[c] \in {"listed", "settled"}})
        + Cardinality({w \in work : w.as \in {"leave", "retry"}}) < bound.handlers

-----------------------------------------------------------------------------
(* Taking part *)

Unengaged == ~departed /\ \A d \in Stays : seat[d] # "in"

\* a fresh draft
TakesPart(c) ==
    /\ visits[c] < bound.visits[c]
    /\ seat' = [seat EXCEPT ![c] = "in"]
    /\ draft' = [draft EXCEPT ![c] = NewDraft]
    /\ visits' = [visits EXCEPT ![c] = @ + 1]

\* a new conversation
EnterNew(c) ==
    /\ seat[c] = "away" /\ c \notin joining /\ Unengaged
    /\ TakesPart(c)
    /\ UNCHANGED <<waits, entry, work, tasks, ownVars, overlap, failures>>

\* _join_conversation_locked checks the NPC, then waits for the segment summary ...
EnterAsked(c) ==
    /\ seat[c] \in {"away", "left"} /\ c \notin joining /\ Unengaged /\ HandlersAllowed
    /\ joining' = joining \cup {c}
    /\ UNCHANGED <<seat, leaving, closing, draft, entry, work, tasks, ownVars, visits,
                   overlap, failures>>

\* ... and adds it, unless it takes part or the conversation is closed or full by then
Entered(c) ==
    /\ c \in joining /\ joining' = joining \ {c}
    /\ \/ seat[c] \in {"away", "left"} /\ TakesPart(c)
       \/ UNCHANGED <<seat, draft, visits>>
    /\ UNCHANGED <<leaving, closing, entry, work, tasks, ownVars, overlap, failures>>

\* _apply_chat_drafts: a goal that is done, in the draft or else for real, is not
\* updated again (the relationship updates, chapter effects and goals to come go with it)
Decided(c) ==
    /\ seat[c] = "in"
    /\ \E g \in {"none", "open", "done"} :
         LET now == IF draft[c].goal = "none" THEN goal ELSE draft[c].goal IN
         /\ g # "none" => now # "done"
         /\ draft' = [draft EXCEPT ![c] =
              [held |-> TRUE, goal |-> IF g = "none" THEN @.goal ELSE g]]
    /\ UNCHANGED <<seat, waits, entry, work, tasks, ownVars, visits, overlap, failures>>

-----------------------------------------------------------------------------
(* _consolidate_locked *)

\* up to the model call; nothing is left to do after one that succeeded
Begun(c, kind) ==
    /\ IF entry[c].st = "succeeded" THEN UNCHANGED <<work, overlap>>
       ELSE /\ work' = work \cup {[on |-> c, as |-> kind, seen |-> entry[c], draft |-> draft[c]]}
            /\ overlap' = (overlap \/ work # {})
    /\ UNCHANGED draft

\* Mutants (here and below, each before the operator it changes): what the
\* operator would be with a plausible bug in the code it stands for; they are
\* used by no definition of the specification.
RecordedAgain(w, ok) ==
    entry' = [entry EXCEPT ![w.on] =
        [st |-> IF ok THEN "succeeded" ELSE "failed", tries |-> w.seen.tries + 1,
         committed |-> FALSE, counted |-> TRUE]]

\* the entry after the call: the draft is committed also when the call failed
Recorded(w, ok) ==
    entry' = [entry EXCEPT ![w.on] =
        [st |-> IF ok THEN "succeeded" ELSE "failed", tries |-> w.seen.tries + 1,
         committed |-> TRUE, counted |-> TRUE]]

\* an NPC without an open goal departs for good, unless the call failed and the draft
\* has goals to come
Departs(ok, after) ==
    \E toCome \in BOOLEAN : departed' = (departed \/ (after # "open" /\ (ok \/ ~toCome)))

\* after the model call; new: its answer has a valid new short-term goal
Ended(w) ==
    /\ w \in work /\ work' = work \ {w}
    /\ \E ok, new \in BOOLEAN :
         IF entry[w.on].st = "succeeded" THEN UNCHANGED <<draft, entry, ownVars>>
         ELSE LET first == ~w.seen.committed
                  kept  == IF first /\ w.draft.goal # "none" THEN w.draft.goal ELSE goal
                  after == IF ok /\ new THEN "open" ELSE kept
              IN /\ commits' = [commits EXCEPT ![w.on] = IF first THEN @ + 1 ELSE @]
                 /\ goal' = after
                 /\ met' = IF w.seen.counted THEN met ELSE met + 1
                 /\ Recorded(w, ok)
                 /\ draft' = IF ok THEN [draft EXCEPT ![w.on] = NoDraft] ELSE draft
                 /\ Departs(ok, after)
    /\ UNCHANGED <<seat, waits, tasks, visits, overlap, failures>>

-----------------------------------------------------------------------------
(* What begins a consolidation *)

\* _leave_and_consolidate_locked waits for the segment summary ...
LeaveAsked(c) ==
    /\ seat[c] = "in" /\ c \notin leaving /\ HandlersAllowed
    /\ leaving' = leaving \cup {c}
    /\ UNCHANGED <<seat, joining, closing, draft, entry, work, tasks, ownVars, visits,
                   overlap, failures>>

\* ... and removes the NPC and consolidates it, also when the conversation closed
\* meanwhile, or closes with it; remove_participant refuses one that is gone
LeaveRemoved(c) ==
    /\ c \in leaving /\ leaving' = leaving \ {c}
    /\ \/ /\ seat[c] \in {"in", "over"}
          /\ \E to \in {"left", "gone"} :
               /\ seat[c] = "over" => to = "gone"
               /\ seat' = [seat EXCEPT ![c] = to]
          /\ Begun(c, "leave")
       \/ seat[c] \notin {"in", "over"} /\ UNCHANGED <<seat, work, overlap, draft>>
    /\ UNCHANGED <<joining, closing, entry, tasks, ownVars, visits, failures>>

\* where the NPC is when the conversation has closed
ClosedSeat == [c \in Stays |-> CASE seat[c] = "in" -> "over" [] seat[c] = "left" -> "gone"
                                  [] OTHER -> seat[c]]
Shuts(c) == seat' = [seat EXCEPT ![c] = ClosedSeat[c]]

\* another NPC's leave closes it, or a closing that listed its participants before the
\* NPC joined
OthersClose(c) ==
    /\ seat[c] \in {"in", "left"} /\ Shuts(c)
    /\ UNCHANGED <<waits, draft, entry, work, tasks, ownVars, visits, overlap, failures>>

\* A closing, or that leave, lists the participants to consolidate them one by one ...
CloseListed(c) ==
    /\ seat[c] \in {"in", "over"} /\ closing[c] = "no" /\ HandlersAllowed
    /\ closing' = [closing EXCEPT ![c] = "listed"]
    /\ UNCHANGED <<seat, joining, leaving, draft, entry, work, tasks, ownVars, visits,
                   overlap, failures>>

\* ... the NPC too, even if it has left meanwhile ...
CloseBegins(c) ==
    /\ closing[c] = "listed" /\ closing' = [closing EXCEPT ![c] = "settled"]
    /\ Begun(c, "close")
    /\ UNCHANGED <<seat, joining, leaving, entry, tasks, ownVars, visits, failures>>

\* ... and closes the conversation.  The drafts go when every NPC of it has succeeded.
Closed(c) ==
    /\ closing[c] = "settled" /\ \A w \in work : ~(w.on = c /\ w.as = "close")
    /\ closing' = [closing EXCEPT ![c] = "done"]
    /\ Shuts(c)
    /\ \/ UNCHANGED draft
       \/ entry[c].st = "succeeded" /\ draft' = [draft EXCEPT ![c] = NoDraft]
    /\ UNCHANGED <<joining, leaving, entry, work, tasks, ownVars, visits, overlap, failures>>

\* retry_consolidation
Retried(c) ==
    /\ entry[c].st = "failed" /\ entry[c].tries < 2
    /\ HandlersAllowed /\ \A w \in work : w.as # "retry"
    /\ Begun(c, "retry")
    /\ UNCHANGED <<seat, waits, entry, tasks, ownVars, visits, failures>>

-----------------------------------------------------------------------------
(* What the leave of the player owes *)

\* the consolidation is marked as pending; what was done of it stays noted
Owes(c) == entry' = [entry EXCEPT ![c].st = "pending"]
Pending == {c \in Stays : entry[c].st = "pending"}

\* _schedule_player_leave_maintenance: a second task is not started
TaskScheduled(c, as) == leaveTask' = [leaveTask EXCEPT ![c] = IF @ = "none" THEN as ELSE @]

\* _remove_player_locked: others stay, or the NPC is not among the last ones ...
PlayerLeft(c) ==
    /\ c \in bound.shared /\ seat[c] \in {"away", "in", "left"}
    /\ TaskScheduled(c, "last")
    /\ UNCHANGED seat \/ (seat[c] = "left" /\ Shuts(c))
    /\ UNCHANGED <<waits, draft, entry, work, stranded, ownVars, visits, overlap, failures>>

\* ... or the conversation closes with the NPC in it
PlayerLeftLast(c) ==
    /\ c \in bound.shared /\ seat[c] = "in" /\ Shuts(c)
    /\ Owes(c)
    /\ TaskScheduled(c, "due")
    /\ UNCHANGED <<waits, draft, work, stranded, ownVars, visits, overlap, failures>>

\* _complete_player_leave_maintenance consolidates the NPCs it was given ...
TaskBegins(c) ==
    /\ leaveTask[c] = "due" /\ leaveTask' = [leaveTask EXCEPT ![c] = "last"]
    /\ Begun(c, "maintenance")
    /\ UNCHANGED <<seat, waits, entry, stranded, ownVars, visits, failures>>

\* _resume_maintenance_tasks: a task for every conversation with a pending entry
TasksNotResumed(now) == leaveTask' = now /\ UNCHANGED stranded
TasksResumed(now) ==
    /\ leaveTask' = [c \in Stays |-> IF now[c] = "none" /\ c \in Pending THEN "due" ELSE now[c]]
    /\ stranded' = {}

\* ... and when it has ended well, the tasks of all conversations are resumed
TaskEnds(c) ==
    /\ leaveTask[c] = "last" /\ \A w \in work : ~(w.on = c /\ w.as = "maintenance")
    /\ TasksResumed([leaveTask EXCEPT ![c] = "none"])
    /\ UNCHANGED <<seat, waits, draft, entry, work, ownVars, visits, overlap, failures>>

\* get_run_entity, which every request begins with
RunLoaded ==
    /\ TasksResumed(leaveTask)
    /\ UNCHANGED <<seat, waits, draft, entry, work, ownVars, visits, overlap, failures>>

-----------------------------------------------------------------------------
(* Faults *)

Faulty == failures < bound.failures /\ failures' = failures + 1

\* The task raises: its keys are discarded, and nothing is resumed.
TaskRaises(c) ==
    /\ leaveTask[c] # "none" /\ Faulty
    /\ work' = {w \in work : ~(w.on = c /\ w.as = "maintenance")}
    /\ leaveTask' = [leaveTask EXCEPT ![c] = "none"]
    /\ stranded' = stranded \cup ({c} \cap Pending)
    /\ UNCHANGED <<seat, waits, draft, entry, ownVars, visits, overlap>>

\* Another handler raises while it waits: what it would have done after is left undone.
CallRaises(w) ==
    /\ w \in work /\ w.as \in {"leave", "retry"} /\ Faulty
    /\ work' = work \ {w}
    /\ UNCHANGED <<seat, waits, draft, entry, tasks, ownVars, visits, overlap>>

LeaveRaises(c) ==
    /\ c \in leaving /\ Faulty
    /\ leaving' = leaving \ {c}
    /\ UNCHANGED <<seat, joining, closing, draft, entry, work, tasks, ownVars, visits, overlap>>

ClosingRaises(c) ==
    /\ closing[c] \in {"listed", "settled"} /\ Faulty
    /\ work' = {w \in work : ~(w.on = c /\ w.as = "close")}
    /\ closing' = [closing EXCEPT ![c] = "no"]
    /\ UNCHANGED <<seat, joining, leaving, draft, entry, tasks, ownVars, visits, overlap>>

\* The process stops and starts again: calls and tasks are gone.
Restarted ==
    /\ Faulty
    /\ work' = {} /\ joining' = {} /\ leaving' = {}
    /\ closing' = [c \in Stays |-> IF closing[c] = "done" THEN "done" ELSE "no"]
    /\ leaveTask' = [c \in Stays |-> "none"]
    /\ stranded' = Pending
    /\ UNCHANGED <<seat, draft, entry, ownVars, visits, overlap>>

StayInit ==
    /\ seat = [c \in Stays |-> "away"] /\ joining = {} /\ leaving = {}
    /\ closing = [c \in Stays |-> "no"]
    /\ draft = [c \in Stays |-> NoDraft] /\ entry = [c \in Stays |-> NoEntry]
    /\ work = {} /\ leaveTask = [c \in Stays |-> "none"] /\ stranded = {}
    /\ goal = "open" /\ met = 0 /\ departed = FALSE
    /\ commits = [c \in Stays |-> 0] /\ visits = [c \in Stays |-> 0]
    /\ overlap = FALSE /\ failures = 0 /\ bound \in StayBounds

StayNext ==
    /\ UNCHANGED bound
    /\ \/ \E c \in Stays :
            \/ EnterNew(c) \/ EnterAsked(c) \/ Entered(c) \/ Decided(c)
            \/ LeaveAsked(c) \/ LeaveRemoved(c) \/ OthersClose(c)
            \/ CloseListed(c) \/ CloseBegins(c) \/ Closed(c) \/ Retried(c)
            \/ PlayerLeft(c) \/ PlayerLeftLast(c)
            \/ TaskBegins(c) \/ TaskEnds(c) \/ TaskRaises(c)
            \/ LeaveRaises(c) \/ ClosingRaises(c)
       \/ \E w \in work : Ended(w) \/ CallRaises(w)
       \/ RunLoaded \/ Restarted

StaySpec == StayInit /\ [][StayNext]_stayVars

-----------------------------------------------------------------------------
(* Properties *)

Drafts  == [held : BOOLEAN, goal : {"none", "open", "done"}]
Entries == [st : {"none", "pending", "failed", "succeeded"}, tries : Nat,
            committed : BOOLEAN, counted : BOOLEAN]

\* The type invariant.
StayTypeOK ==
    /\ seat \in [Stays -> {"away", "in", "left", "over", "gone"}]
    /\ joining \subseteq Stays /\ leaving \subseteq Stays
    /\ closing \in [Stays -> {"no", "listed", "settled", "done"}]
    /\ draft \in [Stays -> Drafts] /\ entry \in [Stays -> Entries]
    /\ work \subseteq [on : Stays, as : {"leave", "close", "maintenance", "retry"},
                       seen : Entries, draft : Drafts]
    /\ leaveTask \in [Stays -> {"none", "due", "last"}] /\ stranded \subseteq Stays
    /\ goal \in {"open", "done"} /\ met \in Nat /\ departed \in BOOLEAN
    /\ commits \in [Stays -> Nat] /\ visits \in [Stays -> Nat]
    /\ overlap \in BOOLEAN /\ bound \in StayBounds /\ failures \in 0..bound.failures

\* The draft of a first stay is in the store until it is committed, over failing
\* calls and restarts during the call; and a draft is committed at most once and
\* its meeting counted once, over failures, retries and restarts, as long as no
\* two consolidations of the NPC wait at the same time (draftsCommitted and
\* interactionRecorded in _consolidate_locked).
CommittedOnce ==
    /\ \A c \in Stays : visits[c] = 1 => draft[c].held \/ commits[c] > 0
    /\ ~overlap => /\ \A c \in Stays : commits[c] <= 1
                   /\ met = Cardinality({c \in Stays : entry[c].counted})

\* A consolidation that a player's leave owes has a task that will carry it out, or one
\* that resumes it at its end, whatever other consolidations of the NPC end meanwhile; a
\* task that raised and a stopped process leave it without, until the next request
\* (_schedule_player_leave_maintenance, _resume_maintenance_tasks).
OwedIsOwned == \A c \in Pending \ stranded : leaveTask[c] # "none"

\* A draft is committed only once.
DraftsCommitOnce == \A c \in Stays : commits[c] <= 1
=============================================================================
