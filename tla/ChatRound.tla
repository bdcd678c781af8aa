------------------------------ MODULE ChatRound ------------------------------
(***************************************************************************)
(* The message-driven round of ONE conversation                            *)
(* (core/backend/app/orchestration/run_service.py, class RunService).      *)
(*                                                                         *)
(* A conversation has at most one worker task (_chat_worker).  The worker  *)
(* looks at the durable round state, runs the round it asks for (message   *)
(* round, opener round, publication of a finished round, cooldown), and    *)
(* looks again.  While it waits for a model call it does NOT hold run.lock,*)
(* so player messages, joins, leaves, the idle endpoint, the end of the    *)
(* day, a failed task and a process crash all interleave with it.          *)
(*                                                                         *)
(* Every action is one section of code executed under run.lock.  A section *)
(* that contains further awaits (leaving a conversation summarises the     *)
(* segment and consolidates the NPC with the lock released) is split at    *)
(* the awaits; "lock" names the process that still owns it in between.     *)
(* Every section ends in repository.save, and what a section leaves        *)
(* unsaved (the normalisations at the top of the worker loop) is computed  *)
(* again by the next worker, so a crash keeps the shared variables and     *)
(* loses exactly the process-local ones.                                   *)
(*                                                                         *)
(* queuedMessageIds is left out: only player_message queues a round, and a *)
(* player message in an active round preempts it and empties that list.    *)
(***************************************************************************)
EXTENDS Integers, Sequences, FiniteSets

CONSTANTS Player,        \* registry.player_actor_id
          NPCs,          \* the NPCs that may take part
          SafetyRounds,  \* chat_npc_only_safety_rounds
          None,          \* no actor
          MaxMsgs,       \* bound: messages of the conversation
          MaxChanges,    \* bound: joins, leaves and idle calls of the API
          MaxFails,      \* bound: exceptions that end a worker task
          MaxCrashes,    \* bound: process restarts
          NpcsMayLeave   \* whether a model decision may be leave_chat

Actors == NPCs \cup {Player}

ASSUME ConstantsAssumption ==
    /\ Player \notin NPCs /\ None \notin NPCs \cup {Player}
    /\ IsFiniteSet(NPCs)
    /\ SafetyRounds \in Nat \ {0}
    /\ MaxMsgs \in Nat /\ MaxChanges \in Nat
    /\ MaxFails \in Nat /\ MaxCrashes \in Nat
    /\ NpcsMayLeave \in BOOLEAN

VARIABLES
    lock,      \* run.lock: "free", or the process whose section continues
    open,      \* conversation.is_open
    parts,     \* conversation.participants
    seg,       \* number of the last segment
    segEnded,  \* the last segment has endedAt
    msgs,      \* run.messages of the conversation
    rs,        \* run.conversation_round_states of the conversation
    late,      \* the clock has reached active_end_minutes (18:00)
    deferred,  \* run.pending_day_end
    piped,     \* run.active_chat_pipelines > 0 for this conversation
    pc,        \* where the worker task is; "none" when there is no task
    frozen,    \* what the worker froze when its round began
    pubd,      \* published_ids, local of _publish_pending_round
    cast,      \* the NPCs asked for a decision, then those asked for a speech
    item,      \* author of the publication being delayed
    wake,      \* the worker's asyncio.Event
    raised,    \* the worker is unwinding an exception
    fails,     \* finished callbacks that have not recorded their failure yet
    leave,     \* progress of _leave_and_consolidate_locked, per process
    closing,   \* who runs _close_conversation_locked: "no", "world", "worker"
    used,      \* how much of each bound has been used
    triggered  \* history: player messages some round froze as its trigger

convVars    == <<open, parts, seg, segEnded, msgs>>
workerVars  == <<pc, frozen, cast, pubd, item, raised>>
dayVars     == <<late, deferred, closing>>
vars == <<lock, open, parts, seg, segEnded, msgs, rs, late, deferred, piped,
          pc, frozen, cast, pubd, item, wake, raised, fails, leave, closing, used,
          triggered>>

Active     == {"deciding", "generating", "publishing"}
Statuses   == Active \cup {"queued", "cooldown", "final_check", "opener", "idle",
                           "awaiting_player_opener", "closed_maintenance"}

\* Mutants (here and below, each before the operator it changes): what the
\* operator would be with a plausible bug in the code it stands for; they are
\* used by no definition of the specification.
ResumableUnlessActive  == {"queued", "cooldown", "final_check", "opener"}

\* the states in which _resume_chat_tasks starts a worker
Resumable  == Active \cup {"queued", "cooldown", "final_check", "opener"}
Procs      == {"worker", "api"}
MsgIds     == 1..Len(msgs)
PlayerMsgs == {i \in MsgIds : msgs[i].by = Player}
NpcParts   == parts \ {Player}

-----------------------------------------------------------------------------
(* The round state and the functions that change it *)

\* _default_round_state
DefaultRound(s) ==
    [status |-> "idle", trigger |-> {}, rid |-> 0, ver |-> 0, pver |-> 1,
     seg |-> s, pend |-> <<>>, published |-> {}, attempt |-> 0,
     leavers |-> {}, post |-> {}, npcOnly |-> 0, opener |-> None]

NoTailKeepsPending(r) == [r EXCEPT !.leavers = {}, !.post = {}]
NoTailSetsNone(r)     == [r EXCEPT !.pend = None, !.leavers = {}, !.post = {}]

NoRecovery(r) == [r EXCEPT !.published = {}, !.attempt = 0]
NoTail(r)     == [r EXCEPT !.pend = <<>>, !.leavers = {}, !.post = {}]

\* _reset_round_for_participant_change_locked; s is the last segment
ResetRound(r, s, st, op) ==
    [NoTail(NoRecovery(r)) EXCEPT
        !.ver = @ + 1, !.pver = @ + 1, !.status = st, !.trigger = {},
        !.seg = s, !.npcOnly = 0, !.opener = op]

\* _queue_message_round_locked for the player message m.  An active round is
\* preempted: its unpublished tail goes, and the player messages it was
\* triggered by come back unless it has already published an answer.
QueueRound(r, m, playerMsgs) ==
    IF r.status \in Active
    THEN [NoTail(NoRecovery(r)) EXCEPT
            !.ver = @ + 1, !.status = "queued", !.npcOnly = 0,
            !.trigger = {m} \cup (IF r.published = {} THEN r.trigger \cap playerMsgs
                                                      ELSE {})]
    ELSE [r EXCEPT
            !.ver = @ + 1, !.status = "queued", !.npcOnly = 0,
            !.trigger = IF r.status = "queued" THEN @ \cup {m} ELSE {m}]

\* _enter_cooldown_locked
EnterCooldown(r) == [r EXCEPT !.status = "cooldown", !.trigger = {}]

StillCurrentIgnoringVersion(f) ==
    open /\ rs.rid = f.rid /\ rs.pver = f.pver /\ rs.seg = f.seg /\ seg = f.seg
StillCurrentByRoundOnly(f) == open /\ rs.rid = f.rid

\* _round_still_current_locked
StillCurrent(f) ==
    /\ open
    /\ rs.rid = f.rid /\ rs.ver = f.ver /\ rs.pver = f.pver
    /\ rs.seg = f.seg /\ seg = f.seg

\* what a task freezes when its round begins (seen and kind are history)
Freeze(r, kind, fc) ==
    [rid |-> r.rid, ver |-> r.ver, pver |-> r.pver, seg |-> r.seg,
     kind |-> kind, fc |-> fc, seen |-> Len(msgs)]

NoFrozen == [rid |-> 0, ver |-> 0, pver |-> 0, seg |-> 0,
             kind |-> "message", fc |-> FALSE, seen |-> 0]
NoLeave  == [stage |-> "none", who |-> None, todo |-> {}, after |-> "none"]

\* _prepare_round_invocations_locked: an NPC does not answer only itself
Invited == {n \in NpcParts : {msgs[i].by : i \in rs.trigger} # {n}}

\* the enumerations of a set (speakers in the order of _order_speakers, which
\* depends on what the model answers)
Orders(S) == {s \in [1..Cardinality(S) -> S] :
                 \A i, j \in 1..Cardinality(S) : s[i] = s[j] => i = j}

\* _ensure_chat_task and _wake_chat_worker
EnsureTask == /\ wake' = TRUE
              /\ pc' = IF pc = "none" THEN "top" ELSE pc

\* an exception unwinds the worker task: through the finally of its round when
\* it is in one; the finished callback then starts _record_chat_worker_failure
Unwind == IF piped
          THEN pc' = "finally" /\ raised' = TRUE /\ UNCHANGED fails
          ELSE pc' = "none" /\ fails' = fails + 1 /\ UNCHANGED raised

Use(k) == used' = [used EXCEPT ![k] = @ + 1]

-----------------------------------------------------------------------------
(* The player and the HTTP commands *)

\* every command and query enters through get_run_entity, which starts a worker
\* where the round state asks for one (_resume_chat_tasks).  A worker that runs is
\* woken, which it notices in a cooldown only.
Request ==
    /\ rs.status \in Resumable /\ pc \in {"none", "cooling"}
    /\ EnsureTask
    /\ UNCHANGED <<lock, convVars, rs, dayVars, piped, frozen, cast, pubd, item, raised,
                   fails, leave, used, triggered>>

\* player_message
PlayerMessage ==
    /\ lock = "free" /\ open /\ Player \in parts /\ ~late
    /\ Len(msgs) < MaxMsgs
    /\ msgs' = Append(msgs, [by |-> Player, seg |-> seg, rid |-> 0, seen |-> Len(msgs)])
    /\ rs' = QueueRound(rs, Len(msgs) + 1, PlayerMsgs)
    /\ EnsureTask
    /\ UNCHANGED <<lock, open, parts, seg, segEnded, late, deferred, piped, frozen,
                   cast, pubd, item, raised, fails, leave, closing, used, triggered>>

\* conversation_idle
ConversationIdle ==
    /\ lock = "free" /\ open /\ Player \in parts /\ ~late
    /\ used.changes < MaxChanges
    /\ rs.status \in {"idle", "awaiting_player_opener", "opener"}
    /\ rs' = EnterCooldown(rs)
    /\ EnsureTask /\ Use("changes")
    /\ UNCHANGED <<lock, convVars, dayVars, piped, frozen, cast, pubd, item, raised,
                   fails, leave, triggered>>

\* remove_participant of the player, _remove_player_locked
PlayerLeaves ==
    /\ lock = "free" /\ open /\ Player \in parts /\ ~late
    /\ used.changes < MaxChanges
    /\ parts' = parts \ {Player}
    /\ wake' = TRUE /\ Use("changes")
    /\ IF Cardinality(parts) > 2
       THEN /\ seg' = seg + 1 /\ segEnded' = FALSE
            /\ rs' = ResetRound(rs, seg + 1, "idle", None)
            /\ UNCHANGED open
       ELSE /\ open' = FALSE /\ segEnded' = TRUE
            /\ rs' = [rs EXCEPT !.status = "closed_maintenance"]
            /\ UNCHANGED seg
    /\ UNCHANGED <<lock, msgs, dayVars, piped, workerVars, fails, leave, triggered>>

\* remove_participant of an NPC: enters _leave_and_consolidate_locked
ApiRemove(n) ==
    /\ lock = "free" /\ open /\ n \in NpcParts /\ ~late
    /\ leave.api.stage = "none" /\ used.changes < MaxChanges
    /\ lock' = "api" /\ Use("changes")
    /\ leave' = [leave EXCEPT !.api = [stage |-> "begin", who |-> n,
                                       todo |-> {}, after |-> "none"]]
    /\ UNCHANGED <<convVars, rs, dayVars, piped, workerVars, wake, fails, triggered>>

SegmentTalked == \E i \in MsgIds : msgs[i].seg = seg

\* _join_conversation_locked up to the summary of the current segment
JoinBegin(a) ==
    /\ lock = "free" /\ open /\ Cardinality(parts) < 3 /\ ~late
    /\ a \notin parts /\ leave.api.stage = "none" /\ used.changes < MaxChanges
    /\ Use("changes")
    /\ segEnded' = TRUE
    /\ leave' = [leave EXCEPT !.api = [stage |-> "join", who |-> a,
                                       todo |-> {}, after |-> "none"]]
    /\ lock' = IF SegmentTalked /\ ~segEnded THEN "free" ELSE "api"
    /\ UNCHANGED <<open, parts, seg, msgs, rs, dayVars, piped, workerVars, wake,
                   fails, triggered>>

\* _join_conversation_locked after the summary; conversation.add_participant
\* raises when the conversation has meanwhile closed or filled up
JoinFinish ==
    /\ leave.api.stage = "join" /\ lock \in {"free", "api"}
    /\ lock' = "free"
    /\ leave' = [leave EXCEPT !.api = NoLeave]
    /\ LET a == leave.api.who IN
       IF open /\ a \notin parts /\ Cardinality(parts) < 3
       THEN /\ parts' = parts \cup {a}
            /\ seg' = seg + 1 /\ segEnded' = FALSE
            /\ IF a = Player
               THEN /\ rs' = ResetRound(rs, seg + 1, "awaiting_player_opener", None)
                    /\ wake' = TRUE /\ UNCHANGED pc
               ELSE /\ rs' = ResetRound(rs, seg + 1, "opener", a)
                    /\ EnsureTask
       ELSE UNCHANGED <<parts, seg, segEnded, rs, wake, pc>>
    /\ UNCHANGED <<open, msgs, dayVars, piped, frozen, cast, pubd, item, raised, fails,
                   used, triggered>>

-----------------------------------------------------------------------------
(* Leaving: _leave_and_consolidate_locked, run by a command or by the worker *)

\* the part after the summary: the participant goes, the conversation closes
\* with fewer than two, otherwise a new segment starts; then the NPC's
\* consolidation is awaited with the lock released
Depart(p) ==
    LET n == leave[p].who IN
    /\ parts' = parts \ {n}
    /\ open'  = (open /\ Cardinality(parts) > 2)
    /\ IF open' THEN seg' = seg + 1 /\ segEnded' = FALSE
                ELSE seg' = seg /\ segEnded' = TRUE
    /\ leave' = [leave EXCEPT ![p].stage = "consolidate"]
    /\ lock' = "free"

LeaveBegin(p) ==
    /\ lock = p /\ leave[p].stage = "begin"
    /\ IF leave[p].who \notin parts
       THEN /\ leave' = [leave EXCEPT ![p].stage = "done"]
            /\ UNCHANGED <<lock, open, parts, seg, segEnded>>
       ELSE IF SegmentTalked /\ ~segEnded
       THEN /\ segEnded' = TRUE /\ lock' = "free"
            /\ leave' = [leave EXCEPT ![p].stage = "summarise"]
            /\ UNCHANGED <<open, parts, seg>>
       ELSE Depart(p)
    /\ UNCHANGED <<msgs, rs, dayVars, piped, workerVars, wake, fails, used, triggered>>

\* the summary is back; conversation.remove_participant raises when another
\* task removed the NPC meanwhile
LeaveSummarised(p) ==
    /\ lock = "free" /\ leave[p].stage = "summarise"
    /\ IF leave[p].who \in parts
       THEN Depart(p) /\ UNCHANGED <<pc, raised, fails>>
       ELSE /\ leave' = [leave EXCEPT ![p] = NoLeave]
            /\ IF p = "worker" THEN Unwind ELSE UNCHANGED <<raised, pc, fails>>
            /\ UNCHANGED <<lock, open, parts, seg, segEnded>>
    /\ UNCHANGED <<msgs, rs, dayVars, piped, frozen, cast, pubd, item, wake,
                   used, triggered>>

\* the consolidation is back; the section goes on with the lock held again
LeaveConsolidated(p) ==
    /\ lock = "free" /\ leave[p].stage = "consolidate"
    /\ lock' = p
    /\ leave' = [leave EXCEPT ![p].stage = "done"]
    /\ IF open /\ Cardinality(parts) >= 2
       THEN rs' = ResetRound(rs, seg, "idle", None) /\ wake' = TRUE
       ELSE UNCHANGED <<rs, wake>>
    /\ UNCHANGED <<convVars, dayVars, piped, workerVars, fails, used, triggered>>

ApiRemoved ==
    /\ lock = "api" /\ leave.api.stage = "done"
    /\ lock' = "free"
    /\ leave' = [leave EXCEPT !.api = NoLeave]
    /\ UNCHANGED <<convVars, rs, dayVars, piped, workerVars, wake, fails, used, triggered>>

-----------------------------------------------------------------------------
(* The worker: choosing what to do *)

HasPublicationTail(r) == r.published # {} \/ r.leavers # {} \/ r.post # {}

\* the status after the normalisations at the top of the loop
Normalised(r) ==
    CASE r.status \in {"deciding", "generating"} -> "queued"
      [] r.status = "publishing" /\ r.pend = <<>> /\ ~HasPublicationTail(r) -> "idle"
      [] OTHER -> r.status

\* _chat_worker, the section under run.lock; the locals of the round before it
\* are out of scope
WorkerTop ==
    /\ pc = "top" /\ lock = "free"
    /\ wake' = FALSE
    /\ frozen' = NoFrozen /\ cast' = {} /\ pubd' = {} /\ item' = None
    /\ IF ~open
       THEN pc' = "none" /\ rs' = DefaultRound(seg)
       ELSE LET st == Normalised(rs) IN
            /\ rs' = [rs EXCEPT !.status = IF st = "closed_maintenance" THEN "idle" ELSE st]
            /\ pc' = CASE st = "cooldown" -> "cooling"
                       [] st = "publishing" -> "publish"
                       [] st = "opener" -> "opener"
                       [] st \in {"queued", "final_check"} -> "round"
                       [] OTHER -> "none"
    /\ UNCHANGED <<lock, convVars, dayVars, piped, raised, fails, leave, used, triggered>>

\* _chat_worker, the cooldown ends early because somebody called _wake
CooldownWoken ==
    /\ pc = "cooling" /\ wake
    /\ pc' = "top"
    /\ UNCHANGED <<lock, convVars, rs, dayVars, piped, frozen, cast, pubd, item, wake,
                   raised, fails, leave, used, triggered>>

\* _chat_worker, the cooldown timed out; the message that came with the
\* timeout is seen by the check of the status
CooldownExpired ==
    /\ pc = "cooling" /\ lock = "free"
    /\ IF ~open THEN pc' = "none" ELSE pc' = "top"
    /\ rs' = IF open /\ rs.status = "cooldown"
             THEN [rs EXCEPT !.ver = @ + 1, !.status = "final_check"]
             ELSE rs
    /\ UNCHANGED <<lock, convVars, dayVars, piped, frozen, cast, pubd, item, wake,
                   raised, fails, leave, used, triggered>>

-----------------------------------------------------------------------------
(* The worker: a message round and an opener round *)

BegunUnderTheOldNumber(r) == [NoRecovery(r) EXCEPT !.status = "deciding"]

\* a round gets the next number and a fresh recovery record
Begun(r) == [NoRecovery(r) EXCEPT !.rid = @ + 1, !.status = "deciding"]

\* what a round starts with
StartRound(kind, fc, invited) ==
    /\ rs' = Begun(rs)
    /\ frozen' = Freeze(Begun(rs), kind, fc)
    /\ cast' = invited
    /\ piped' = TRUE
    /\ pc' = "deciding"

\* _execute_message_round, first section.  It does not look at the status the
\* loop chose it for: another section may have run since.
BeginRound ==
    /\ pc = "round" /\ lock = "free"
    /\ IF open /\ ~late
       THEN /\ StartRound("message", rs.status = "final_check", Invited)
            /\ triggered' = triggered \cup (rs.trigger \cap PlayerMsgs)
       ELSE /\ pc' = "top"
            /\ rs' = IF open THEN [rs EXCEPT !.status = "idle"] ELSE rs
            /\ UNCHANGED <<piped, frozen, cast, triggered>>
    /\ UNCHANGED <<lock, convVars, dayVars, pubd, item, wake, raised, fails, leave, used>>

\* _execute_opener_round, first section
BeginOpener ==
    /\ pc = "opener" /\ lock = "free"
    /\ IF open /\ rs.opener \in parts
       THEN StartRound("opener", FALSE, {rs.opener})
       ELSE /\ pc' = "top"
            /\ rs' = IF open THEN [rs EXCEPT !.status = "idle"] ELSE rs
            /\ UNCHANGED <<piped, frozen, cast>>
    /\ UNCHANGED <<lock, convVars, dayVars, pubd, item, wake, raised, fails, leave,
                   used, triggered>>

\* the sections after an await return when the round is no longer current
DropStale ==
    /\ pc \in {"deciding", "examples", "speech"} /\ lock = "free"
    /\ ~StillCurrent(frozen)
    /\ pc' = "finally"
    /\ UNCHANGED <<lock, convVars, rs, dayVars, piped, frozen, cast, pubd, item, wake,
                   raised, fails, leave, used, triggered>>

\* the leavers of a round go one after the other in one section
BeginLeaving(todo, after) ==
    /\ leave' = [leave EXCEPT !.worker = [stage |-> "next", who |-> None,
                                          todo |-> todo, after |-> after]]
    /\ lock' = "worker" /\ pc' = "leaving"

NoSpeech == IF frozen.fc THEN "finalCheck" ELSE "noSpeech"

\* the decisions of a message round are in: who speaks, who leaves at once,
\* who leaves after speaking.  Without speakers: _finish_no_speech_round.
Decide ==
    /\ pc = "deciding" /\ frozen.kind = "message"
    /\ lock = "free" /\ StillCurrent(frozen)
    /\ \E speak \in SUBSET (cast \cap parts), go \in SUBSET (cast \cap parts) :
        /\ speak \cap go = {}
        /\ go # {} => NpcsMayLeave
        /\ IF speak = {} \/ late
           THEN /\ BeginLeaving(go, NoSpeech)
                /\ UNCHANGED <<rs, cast>>
           ELSE /\ \E post \in SUBSET speak :
                    /\ post # {} => NpcsMayLeave
                    /\ rs' = [rs EXCEPT !.status = "generating",
                                        !.leavers = go, !.post = post]
                /\ cast' = speak
                /\ pc' = "examples"
                /\ UNCHANGED <<lock, leave>>
    /\ UNCHANGED <<convVars, dayVars, piped, frozen, pubd, item, wake, raised, fails,
                   used, triggered>>

\* the decision of an opener round is in; the NPC speaks whatever it decided
DecideOpener ==
    /\ pc = "deciding" /\ frozen.kind = "opener"
    /\ lock = "free" /\ StillCurrent(frozen)
    /\ rs' = [rs EXCEPT !.status = IF late THEN "idle" ELSE "generating"]
    /\ pc' = IF late THEN "finally" ELSE "examples"
    /\ UNCHANGED <<lock, convVars, dayVars, piped, frozen, cast, pubd, item, wake,
                   raised, fails, leave, used, triggered>>

\* the speech examples are in; the speech calls start
PromptSpeech ==
    /\ pc = "examples" /\ lock = "free" /\ StillCurrent(frozen)
    /\ pc' = "speech"
    /\ UNCHANGED <<lock, convVars, rs, dayVars, piped, frozen, cast, pubd, item, wake,
                   raised, fails, leave, used, triggered>>

\* the round state that waits for these authors' speeches to be published
Prepared(order) ==
    [rs EXCEPT !.pend = [k \in DOMAIN order |-> [by |-> order[k], rid |-> frozen.rid,
                                                 seen |-> frozen.seen]],
               !.status = "publishing"]

\* the speeches are in; those that failed, are near duplicates or whose author
\* is gone are dropped, the others wait for their publication
SpeechDone ==
    /\ pc = "speech" /\ lock = "free" /\ StillCurrent(frozen)
    /\ \E kept \in SUBSET (cast \cap parts) : \E order \in Orders(kept) :
        /\ Len(msgs) + Cardinality(kept) <= MaxMsgs
        /\ IF kept # {}
           THEN rs' = Prepared(order) /\ pc' = "publish" /\ UNCHANGED <<lock, leave>>
           ELSE IF frozen.kind = "opener"
           THEN rs' = EnterCooldown(rs) /\ pc' = "finally" /\ UNCHANGED <<lock, leave>>
           ELSE rs' = Prepared(order) /\ BeginLeaving(rs.leavers, NoSpeech)
    /\ cast' = {}
    /\ UNCHANGED <<convVars, dayVars, piped, frozen, pubd, item, wake, raised,
                   fails, used, triggered>>

-----------------------------------------------------------------------------
(* The worker: publication, _publish_pending_round *)

AfterPublish == IF piped THEN "finally" ELSE "top"

\* first section: the tokens are taken from the state as it is NOW
PublishEnter ==
    /\ pc = "publish" /\ lock = "free"
    /\ IF open
       THEN /\ frozen' = [frozen EXCEPT !.rid = rs.rid, !.ver = rs.ver,
                                        !.pver = rs.pver, !.seg = rs.seg]
            /\ pubd' = rs.published
            /\ pc' = "pick"
       ELSE pc' = AfterPublish /\ UNCHANGED <<frozen, pubd>>
    /\ UNCHANGED <<lock, convVars, rs, dayVars, piped, cast, item, wake, raised,
                   fails, leave, used, triggered>>

DropStalePublication ==
    /\ pc \in {"pick", "gap", "tail"} /\ lock = "free" /\ ~StillCurrent(frozen)
    /\ pc' = AfterPublish
    /\ UNCHANGED <<lock, convVars, rs, dayVars, piped, frozen, cast, pubd, item, wake,
                   raised, fails, leave, used, triggered>>

\* the next publication is picked and its delay begins
PickPublication ==
    /\ pc = "pick" /\ lock = "free" /\ StillCurrent(frozen)
    /\ IF rs.pend = <<>> THEN pc' = "tail" /\ UNCHANGED item
                         ELSE pc' = "gap" /\ item' = Head(rs.pend).by
    /\ UNCHANGED <<lock, convVars, rs, dayVars, piped, frozen, cast, pubd, wake,
                   raised, fails, leave, used, triggered>>

\* the delay is over: the message is written, the publication removed and the
\* message recorded as published, all saved together
PublishItem ==
    /\ pc = "gap" /\ lock = "free" /\ StillCurrent(frozen)
    /\ pc' = "pick" /\ item' = None
    /\ IF rs.pend = <<>> \/ Head(rs.pend).by # item
       THEN UNCHANGED <<msgs, rs, pubd>>
       ELSE IF item \notin parts
       THEN rs' = [rs EXCEPT !.pend = Tail(@)] /\ UNCHANGED <<msgs, pubd>>
       ELSE LET p == Head(rs.pend) IN
            /\ msgs' = Append(msgs, [by |-> p.by, seg |-> seg, rid |-> p.rid,
                                     seen |-> p.seen])
            /\ pubd' = pubd \cup {Len(msgs) + 1}
            /\ rs' = [rs EXCEPT !.pend = Tail(@), !.published = pubd']
    /\ UNCHANGED <<lock, open, parts, seg, segEnded, dayVars, piped, frozen, cast,
                   wake, raised, fails, leave, used, triggered>>

\* everything is published: the round counts as an NPC-only one, its leavers go
PublishTail ==
    /\ pc = "tail" /\ lock = "free" /\ StillCurrent(frozen)
    /\ rs' = [NoTail(NoRecovery(rs)) EXCEPT !.npcOnly = @ + 1]
    /\ BeginLeaving(rs.leavers \cup (rs.post \cap {msgs[i].by : i \in pubd}), "tail")
    /\ UNCHANGED <<convVars, dayVars, piped, frozen, cast, pubd, item, wake, raised,
                   fails, used, triggered>>

\* the end of _publish_pending_round
AfterTail(r) ==
    IF r.npcOnly >= SafetyRounds THEN EnterCooldown(r)
    ELSE IF pubd # {} /\ ~late
    THEN [r EXCEPT !.ver = @ + 1, !.trigger = pubd, !.status = "queued"]
    ELSE [r EXCEPT !.status = "idle"]

\* the section continues with the lock held: the next leaver, or, when none is
\* left, the end of the section.  After a final check all NPCs leave.
NextLeaver ==
    /\ lock = "worker" /\ pc = "leaving" /\ leave.worker.stage \in {"next", "done"}
    /\ LET l == leave.worker IN
       IF l.todo # {}
       THEN /\ \E n \in l.todo :
                leave' = [leave EXCEPT !.worker = [l EXCEPT !.stage = "begin", !.who = n,
                                                            !.todo = @ \ {n}]]
            /\ UNCHANGED <<lock, pc, rs>>
       ELSE IF l.after = "finalCheck" /\ open
       THEN /\ leave' = [leave EXCEPT !.worker = [l EXCEPT !.stage = "next", !.who = None,
                                                  !.todo = NpcParts, !.after = "checked"]]
            /\ UNCHANGED <<lock, pc, rs>>
       ELSE /\ leave' = [leave EXCEPT !.worker = NoLeave]
            /\ lock' = "free"
            /\ pc' = IF l.after = "tail" THEN AfterPublish ELSE "finally"
            /\ rs' = CASE ~open -> rs
                       [] open /\ l.after = "tail" -> AfterTail(rs)
                       [] open /\ l.after = "noSpeech" -> EnterCooldown(rs)
                       [] OTHER -> [rs EXCEPT !.status = "idle"]
    /\ UNCHANGED <<convVars, dayVars, piped, frozen, cast, pubd, item, wake, raised,
                   fails, used, triggered>>

-----------------------------------------------------------------------------
(* The end of a pipeline, failures, the end of the day, crashes *)

\* the worker looks at the state again unless an exception ends its task
AfterTask == IF raised THEN "none" ELSE "top"

\* the finally of both rounds, with _finish_pending_boundary_locked
Finally ==
    /\ pc = "finally" /\ lock = "free"
    /\ piped' = FALSE
    /\ deferred' = FALSE
    /\ IF deferred /\ open
       THEN /\ closing' = "worker" /\ segEnded' = TRUE /\ pc' = "closing"
            /\ UNCHANGED <<raised, fails>>
       ELSE /\ pc' = AfterTask /\ raised' = FALSE
            /\ fails' = IF raised THEN fails + 1 ELSE fails
            /\ UNCHANGED <<closing, segEnded>>
    /\ UNCHANGED <<lock, open, parts, seg, msgs, rs, late, frozen, cast, pubd, item,
                   wake, leave, used, triggered>>

\* a section raises (the persistence layer, the prompt building)
WorkerRaises ==
    /\ pc \in {"deciding", "examples", "speech", "pick", "gap"} /\ lock = "free"
    /\ used.fails < MaxFails /\ Use("fails")
    /\ Unwind
    /\ UNCHANGED <<lock, convVars, rs, dayVars, piped, frozen, cast, pubd, item, wake,
                   leave, triggered>>

\* the status a failed task leaves behind for its first retry
RetryStatus(r) ==
    CASE r.status = "publishing" -> "publishing"
      [] r.status # "publishing" /\ r.trigger # {} -> "queued"
      [] r.status # "publishing" /\ r.trigger = {} /\ r.opener # None -> "opener"
      [] OTHER -> "idle"

RestartsUnlessPublishing(st) == st \in {"queued", "opener"}

Restarts(st) == st \in {"publishing", "queued", "opener"}

\* _record_chat_worker_failure
RecordFailure ==
    /\ fails > 0 /\ lock = "free"
    /\ fails' = fails - 1
    /\ IF ~open THEN UNCHANGED <<rs, wake, pc>>
       ELSE IF rs.attempt = 0
       THEN LET st == RetryStatus(rs) IN
            /\ rs' = [rs EXCEPT !.attempt = 1, !.status = st]
            /\ IF Restarts(st) THEN EnsureTask ELSE UNCHANGED <<wake, pc>>
       ELSE /\ rs' = [EnterCooldown(NoTail(rs)) EXCEPT !.attempt = @ + 1]
            /\ UNCHANGED <<wake, pc>>
    /\ UNCHANGED <<lock, convVars, dayVars, piped, frozen, cast, pubd, item, raised,
                   leave, used, triggered>>

NoPipelineCounted == FALSE

\* active_chat_pipelines is not zero
PipelineActive == piped

\* _close_day_locked reaches this conversation: deferred while a pipeline runs,
\* otherwise the closing begins with the summary of the segment
DayEnds ==
    /\ lock = "free" /\ ~late /\ late' = TRUE
    /\ deferred' = PipelineActive
    /\ IF open /\ ~PipelineActive THEN closing' = "world" /\ segEnded' = TRUE
                         ELSE UNCHANGED <<closing, segEnded>>
    /\ UNCHANGED <<lock, open, parts, seg, msgs, rs, piped, workerVars, wake, fails,
                   leave, used, triggered>>

\* _close_conversation_locked after its awaits; the round state is popped
CloseFinish ==
    /\ closing # "no" /\ lock = "free"
    /\ closing' = "no" /\ open' = FALSE /\ segEnded' = TRUE
    /\ rs' = DefaultRound(seg)
    /\ wake' = TRUE
    /\ IF closing = "worker"
       THEN /\ pc' = AfterTask /\ raised' = FALSE
            /\ fails' = IF raised THEN fails + 1 ELSE fails
       ELSE UNCHANGED <<pc, raised, fails>>
    /\ UNCHANGED <<lock, parts, seg, msgs, late, deferred, piped, frozen, cast, pubd,
                   item, leave, used, triggered>>

\* the process dies and restarts: tasks, locks, events and the pipeline counter
\* are gone.  The first request loads the run and resumes it (Request), before
\* anything else can happen to it.
Crash ==
    /\ used.crashes < MaxCrashes /\ Use("crashes")
    /\ lock' = "free" /\ piped' = FALSE /\ raised' = FALSE /\ fails' = 0
    /\ leave' = [p \in Procs |-> NoLeave] /\ closing' = "no"
    /\ pc' = IF rs.status \in Resumable THEN "top" ELSE "none"
    /\ frozen' = NoFrozen /\ cast' = {} /\ pubd' = {} /\ item' = None /\ wake' = FALSE
    /\ UNCHANGED <<convVars, rs, late, deferred, triggered>>

-----------------------------------------------------------------------------

\* a conversation just opened (create_conversation, _open_conversation_locked):
\* an NPC opens it with an opener round, the player with a message of its own
Init ==
    /\ lock = "free" /\ open = TRUE
    /\ \E first \in Actors, other \in Actors \ {Player} :
        /\ first # other
        /\ parts = {first, other}
        /\ rs = [DefaultRound(1) EXCEPT
                    !.status = IF first = Player THEN "awaiting_player_opener" ELSE "opener",
                    !.opener = IF first = Player THEN None ELSE first]
        /\ pc = IF first = Player THEN "none" ELSE "top"
    /\ seg = 1 /\ segEnded = FALSE /\ msgs = <<>>
    /\ late = FALSE /\ deferred = FALSE /\ piped = FALSE
    /\ frozen = NoFrozen /\ cast = {} /\ pubd = {} /\ item = None
    /\ wake = FALSE /\ raised = FALSE /\ fails = 0
    /\ leave = [p \in Procs |-> NoLeave] /\ closing = "no"
    /\ used = [changes |-> 0, fails |-> 0, crashes |-> 0]
    /\ triggered = {}

Leaving == \E p \in Procs : LeaveBegin(p) \/ LeaveSummarised(p) \/ LeaveConsolidated(p)

Worker ==
    \/ WorkerTop \/ CooldownWoken \/ CooldownExpired
    \/ BeginRound \/ BeginOpener \/ Decide \/ DecideOpener \/ PromptSpeech \/ SpeechDone
    \/ PublishEnter \/ PickPublication \/ PublishItem \/ PublishTail
    \/ DropStale \/ DropStalePublication \/ NextLeaver \/ Finally

Next ==
    \/ Request \/ PlayerMessage \/ ConversationIdle \/ PlayerLeaves
    \/ \E n \in NPCs : ApiRemove(n)
    \/ \E a \in Actors : JoinBegin(a)
    \/ JoinFinish \/ ApiRemoved \/ Leaving
    \/ Worker \/ WorkerRaises \/ RecordFailure
    \/ DayEnds \/ CloseFinish \/ Crash

Spec == Init /\ [][Next]_vars

\* The event loop runs every ready task, model calls end (they are bounded by
\* chat_model_call_timeout_seconds) and the cooldown timer fires: requests may wake
\* the worker before, but the due time stays, and past it the wait ends at once.
Fairness == /\ WF_vars(Worker) /\ WF_vars(Leaving) /\ WF_vars(RecordFailure)
            /\ WF_vars(JoinFinish) /\ WF_vars(ApiRemoved) /\ WF_vars(CloseFinish)
            /\ SF_vars(CooldownExpired)
FairSpec == Spec /\ Fairness

\* A run that is looked at: the browser asks for a world_step every two seconds.
ServedSpec == FairSpec /\ WF_vars(Request)

-----------------------------------------------------------------------------
(* Properties *)

Publication == [by: NPCs, rid: Nat, seen: Nat]
Round   == [status: Statuses, trigger: SUBSET Nat, rid: Nat, ver: Nat, pver: Nat,
            seg: Nat, pend: Seq(Publication),
            published: SUBSET Nat, attempt: Nat, leavers: SUBSET NPCs,
            post: SUBSET NPCs, npcOnly: Nat, opener: NPCs \cup {None}]
Message == [by: Actors, seg: Nat, rid: Nat, seen: Nat]
Frozen  == [rid: Nat, ver: Nat, pver: Nat, seg: Nat, kind: {"message", "opener"},
            fc: BOOLEAN, seen: Nat]
Leave   == [stage: {"none", "next", "begin", "summarise", "consolidate", "done", "join"},
            who: Actors \cup {None}, todo: SUBSET NPCs,
            after: {"none", "noSpeech", "finalCheck", "checked", "tail"}]

\* Type correctness of the round state machine.
TypeOK ==
    /\ lock \in {"free", "worker", "api"}
    /\ open \in BOOLEAN /\ parts \in SUBSET Actors
    /\ seg \in Nat /\ segEnded \in BOOLEAN
    /\ msgs \in Seq(Message)
    /\ rs \in Round
    /\ late \in BOOLEAN /\ deferred \in BOOLEAN /\ piped \in BOOLEAN
    /\ pc \in {"none", "top", "cooling", "round", "opener", "deciding", "examples",
               "speech", "publish", "pick", "gap", "tail", "leaving", "finally",
               "closing"}
    /\ frozen \in Frozen /\ cast \in SUBSET NPCs /\ pubd \in SUBSET Nat
    /\ item \in NPCs \cup {None}
    /\ wake \in BOOLEAN /\ raised \in BOOLEAN /\ fails \in Nat
    /\ leave \in [Procs -> Leave]
    /\ closing \in {"no", "world", "worker"}
    /\ used \in [{"changes", "fails", "crashes"} -> Nat]
    /\ triggered \in SUBSET Nat

SpokenMsgs == {i \in MsgIds : msgs[i].by # Player}

\* What an NPC says was decided in the light of every player message before
\* it: no speech generated before a player message is published after it, not
\* after a preemption, a retry of a failed task or a restart in the middle of
\* a publication (_queue_message_round_locked, _publish_pending_round).
NoStaleSpeech ==
    \A i \in SpokenMsgs, j \in PlayerMsgs : ~(msgs[i].seen < j /\ j < i)

\* An NPC says at most one thing per round, whatever is retried or resumed.
OneSpeechPerRound ==
    \A i, j \in SpokenMsgs :
        msgs[i].rid = msgs[j].rid /\ msgs[i].by = msgs[j].by => i = j

\* Rounds do not overlap: a round speaks only after everything the rounds
\* before it published, and what is still pending belongs to the last round.
RoundsDoNotOverlap ==
    /\ \A i, j \in SpokenMsgs : i < j => msgs[i].rid <= msgs[j].rid
    /\ \A k \in DOMAIN rs.pend : rs.pend[k].rid = rs.rid

\* Nobody speaks into a segment that began after the speech was prepared: a
\* join or a leave makes the unpublished speeches stale.  (Whoever was asked
\* saw every message of the segment it speaks in, and nobody spoke in it who
\* was not asked.)
SpeechMatchesSegment ==
    \A i \in SpokenMsgs, j \in MsgIds :
        j <= i /\ msgs[j].seg = msgs[i].seg /\ j > msgs[i].seen =>
            msgs[j].rid = msgs[i].rid

\* Work is not left to the next request: while the conversation is open and its
\* round state asks for a worker, there is one, or a failed one is about to be
\* recorded and restarted.  Only a round that failed again is put to rest, in a
\* cooldown that the next request takes up (_record_chat_worker_failure).
NoOrphanedRound ==
    open /\ rs.status \in Resumable =>
        pc # "none" \/ fails > 0 \/ (rs.status = "cooldown" /\ rs.attempt > 1)

\* The end of the day never closes a conversation under a running round: the
\* close waits for the pipeline (_close_day_locked, active_chat_pipelines), so
\* nothing is said while the closing summary and consolidations are computed.
\* (A publication resumed after a failure or a restart is not counted as a
\* pipeline: the property is one of runs without them.)
NothingSaidWhileClosing ==
    [][closing # "no" => UNCHANGED msgs]_vars

\* A player message reaches the rounds: when the conversation comes to rest,
\* some round has taken every player message as its trigger.
NoMessageLostToIdle ==
    open /\ ~late /\ rs.status = "idle" => PlayerMsgs \subseteq triggered

\* An active round and a cooldown end: the conversation comes to rest or closes.
RoundsSettle ==
    open /\ rs.status \in Active \cup {"cooldown"} ~> ~open \/ rs.status = "idle"
=============================================================================
