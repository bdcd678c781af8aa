----------------------------- MODULE DayBoundary -----------------------------
(***************************************************************************)
(* The clock of one run and its boundaries                                 *)
(* (orchestration/run_service.py, class RunService): world_step moves the  *)
(* clock from point to point and runs what is due, the end of a day closes *)
(* every conversation, and the deadline of the last day resolves the       *)
(* chapter.  A boundary that arrives while a chat pipeline waits for a     *)
(* model is deferred, and the last pipeline to end takes it over.          *)
(*                                                                         *)
(* run.lock is released while a section waits for a model: the daily       *)
(* action of an NPC inside a world_step, and each of the summaries and     *)
(* consolidations a conversation is closed with.  Between two awaits a     *)
(* section is atomic; "lock" names the world_step or the worker whose      *)
(* section continues.  Every section ends in repository.save, so a restart *)
(* keeps the shared variables and loses the process-local ones.            *)
(*                                                                         *)
(* What happens inside a pipeline is module ChatRound.  Here a pipeline is *)
(* one interval between its start and its finally.                         *)
(***************************************************************************)
EXTENDS Integers, FiniteSets

CONSTANTS Steppers,    \* callers of world_step
          Convs,       \* conversations of the run, each opened at most once
          LastDay,     \* registry.end_day
          Limit,       \* open conversations a run may have (two)
          None,        \* no day
          MaxStep,     \* bound: points of the clock one world_step passes
          MaxFails,    \* bound: failing saves at the start of a pipeline
          MaxCrashes   \* bound: process restarts

ASSUME BoundaryAssumption ==
    /\ Steppers \cap Convs = {} /\ "free" \notin Steppers \cup Convs
    /\ IsFiniteSet(Convs)
    /\ LastDay \in Nat \ {0} /\ Limit \in Nat /\ None \notin Nat
    /\ MaxStep \in Nat \ {0} /\ MaxFails \in Nat /\ MaxCrashes \in Nat

\* The points of a day at which a world_step stops: 08:00, the thought of an NPC,
\* the new-chat cutoff at 17:00 and the end of the day at 18:00.
Morning == 0
Thought == 1
Cutoff  == 2
DayEnd  == 3

VARIABLES
    lock,      \* run.lock: "free", or the process whose section continues
    day,       \* run.clock.current.day
    time,      \* the point of the day reached
    ended,     \* run.clock.is_ended
    conv,      \* run.conversations: "new", "open" or "closed"
    round,     \* status of the round state of each conversation
    thought,   \* run.thought_days: the days whose thought is marked
    pipelines, \* run.active_chat_pipelines
    pendEnd,   \* run.pending_day_end: its day, or None
    pendCh,    \* run.pending_chapter_event_id is set
    closed,    \* run.closed_days
    fired,     \* the deadline event is in run.fired_event_ids
    finished,  \* run.run_finished
    step,      \* where each world_step is
    task,      \* what the worker of each conversation waits for
    close,     \* closings under way: what is left to close, and for what
    dayEnded,  \* history: world_day_ended events, per day they close
    resolved,  \* history: chapter_resolved events
    used       \* how much of each bound has been used

vars == <<lock, day, time, ended, conv, round, thought, pipelines, pendEnd, pendCh,
          closed, fired, finished, step, task, close, dayEnded, resolved, used>>
clockVars == <<day, time, ended>>
chatVars  == <<conv, round, pipelines, task>>
deferVars == <<pendEnd, pendCh>>
endVars   == <<closed, fired, finished, close, dayEnded, resolved>>

Procs    == Steppers \cup Convs
OpenNow  == {c \in Convs : conv[c] = "open"}
\* Mutants (here and below, each before the operator it changes): what the
\* operator would be with a plausible bug in the code it stands for; they are
\* used by no definition of the specification.
RestingNowhere == [at |-> "idle", left |-> 0, asked |-> None]

Resting  == [at |-> "idle", from |-> "start", left |-> 0, asked |-> None]
NoClose  == [todo |-> {}, day |-> None, chapter |-> FALSE]
Closing(p) == close[p].day # None

Use(k) == used' = [used EXCEPT ![k] = @ + 1]

-----------------------------------------------------------------------------
(* _close_day_locked and _finish_chapter_locked, once no pipeline is active *)

SettleSilently(p, d, chapter, announce) ==
    /\ close' = [close EXCEPT ![p] = NoClose]
    /\ dayEnded' = IF announce /\ ~chapter THEN [dayEnded EXCEPT ![d] = @ + 1] ELSE dayEnded
    /\ resolved' = IF chapter THEN resolved + 1 ELSE resolved
    /\ finished' = (finished \/ chapter)
    /\ ended' = (ended \/ chapter)

\* a closing by p has nothing left: its day is over, and for the deadline the
\* chapter is resolved
Settle(p, d, chapter, announce) ==
    /\ close' = [close EXCEPT ![p] = NoClose]
    /\ dayEnded' = IF announce THEN [dayEnded EXCEPT ![d] = @ + 1] ELSE dayEnded
    /\ resolved' = IF chapter THEN resolved + 1 ELSE resolved
    /\ finished' = (finished \/ chapter)
    /\ ended' = (ended \/ chapter)

CloseDayAgain(p, d, chapter) ==
    /\ fired' = (fired \/ chapter)
    /\ closed' = closed \cup {d}
    /\ IF OpenNow = {}
       THEN Settle(p, d, chapter, TRUE)
       ELSE /\ close' = [close EXCEPT ![p] = [todo |-> OpenNow, day |-> d,
                                              chapter |-> chapter]]
            /\ UNCHANGED <<dayEnded, resolved, finished, ended>>

\* p begins to close day d.  The day is marked first; a marked day is not closed
\* again.  Closing a conversation waits for models, so the section ends here
\* unless there is none.
CloseDay(p, d, chapter) ==
    /\ fired' = (fired \/ chapter)
    /\ closed' = closed \cup {d}
    /\ IF d \in closed \/ OpenNow = {}
       THEN Settle(p, d, chapter, d \notin closed)
       ELSE /\ close' = [close EXCEPT ![p] = [todo |-> OpenNow, day |-> d,
                                              chapter |-> chapter]]
            /\ UNCHANGED <<dayEnded, resolved, finished, ended>>

FinishChapter(p) ==
    IF finished THEN UNCHANGED <<ended, endVars>> ELSE CloseDay(p, LastDay, TRUE)

\* after it began to close day d, the section waits
Waits(d) == d \notin closed /\ OpenNow # {}

\* the awaits of _close_conversation_locked for c are over: it is closed, its
\* round state is popped, and the next one is closed or the closing settles
CloseConversation(p, c) ==
    /\ lock = "free" /\ Closing(p) /\ c \in close[p].todo
    /\ conv' = [conv EXCEPT ![c] = "closed"]
    /\ round' = [round EXCEPT ![c] = "idle"]
    /\ IF close[p].todo = {c}
       THEN /\ Settle(p, close[p].day, close[p].chapter, TRUE)
            /\ IF p \in Steppers
               THEN /\ lock' = p /\ step' = [step EXCEPT ![p].at = "due"]
                    /\ UNCHANGED task
               ELSE task' = [task EXCEPT ![p] = "none"] /\ UNCHANGED <<lock, step>>
       ELSE /\ close' = [close EXCEPT ![p].todo = @ \ {c}]
            /\ UNCHANGED <<lock, ended, step, task, dayEnded, resolved, finished>>
    /\ UNCHANGED <<day, time, thought, pipelines, deferVars, closed, fired, used>>

-----------------------------------------------------------------------------
(* world_step *)

StepBegin(w) ==
    /\ lock = "free" /\ step[w].at = "idle" /\ ~ended
    /\ lock' = w
    /\ \E n \in 1..MaxStep :
        step' = [step EXCEPT ![w] = [@ EXCEPT !.at = "thought", !.left = n]]
    /\ UNCHANGED <<clockVars, chatVars, thought, deferVars, endVars, used>>

\* _process_due_locked: the thought of the day is marked before the model is
\* asked; a busy NPC does not think
DueThought(w) ==
    /\ lock = w /\ step[w].at = "thought"
    /\ IF time >= Thought /\ day \notin thought
       THEN /\ thought' = thought \cup {day}
            /\ \/ /\ lock' = "free"
                  /\ step' = [step EXCEPT ![w] = [@ EXCEPT !.at = "thinking",
                                                          !.asked = day]]
               \/ step' = [step EXCEPT ![w].at = "deadline"] /\ UNCHANGED lock
       ELSE step' = [step EXCEPT ![w].at = "deadline"] /\ UNCHANGED <<lock, thought>>
    /\ UNCHANGED <<clockVars, chatVars, deferVars, endVars, used>>

\* after the await: the day and the chat window are still those it was asked in
StillToday(w) == ~finished /\ day = step[w].asked /\ time < Cutoff

\* the daily action returns: the NPC waits or is refused, or opens a conversation
ThinkDone(w) ==
    /\ lock = "free" /\ step[w].at = "thinking"
    /\ step' = [step EXCEPT ![w] = [@ EXCEPT !.at = "boundary", !.asked = None]]
    /\ lock' = w
    /\ \/ UNCHANGED <<conv, round>>
       \/ /\ StillToday(w) /\ Cardinality(OpenNow) < Limit
          /\ \E c \in Convs :
                /\ conv[c] = "new"
                /\ conv' = [conv EXCEPT ![c] = "open"]
                /\ round' = [round EXCEPT ![c] = "opener"]
    /\ UNCHANGED <<clockVars, thought, pipelines, task, deferVars, endVars, used>>

\* or its invitation has become impossible and the whole command raises
ThinkRaises(w) ==
    /\ lock = "free" /\ step[w].at = "thinking" /\ StillToday(w)
    /\ step' = [step EXCEPT ![w] = Resting]
    /\ UNCHANGED <<lock, clockVars, chatVars, thought, deferVars, endVars, used>>

\* the deadline event is due: deferred while a pipeline is active
DueDeadline(w) ==
    /\ lock = w /\ step[w].at = "deadline"
    /\ IF day = LastDay /\ time = DayEnd /\ ~fired
       THEN IF pipelines > 0
            THEN /\ pendEnd' = LastDay /\ pendCh' = TRUE
                 /\ step' = [step EXCEPT ![w].at = "due"]
                 /\ UNCHANGED <<lock, ended, endVars>>
            ELSE /\ FinishChapter(w)
                 /\ lock' = IF Waits(LastDay) THEN "free" ELSE w
                 /\ step' = [step EXCEPT ![w].at = IF Waits(LastDay) THEN "closing"
                                                                  ELSE "due"]
                 /\ UNCHANGED deferVars
       ELSE /\ step' = [step EXCEPT ![w].at = "boundary"]
            /\ UNCHANGED <<lock, ended, deferVars, endVars>>
    /\ UNCHANGED <<day, time, chatVars, thought, used>>

\* the end of _process_due_locked: at 18:00 the day is closed, or deferred
DueBoundary(w) ==
    /\ lock = w /\ step[w].at = "boundary"
    /\ IF ~finished /\ time = DayEnd
       THEN IF pipelines > 0
            THEN /\ pendEnd' = day
                 /\ step' = [step EXCEPT ![w].at = "due"]
                 /\ UNCHANGED <<lock, ended, endVars>>
            ELSE /\ CloseDay(w, day, FALSE)
                 /\ lock' = IF Waits(day) THEN "free" ELSE w
                 /\ step' = [step EXCEPT ![w].at = IF Waits(day) THEN "closing"
                                                              ELSE "due"]
                 /\ UNCHANGED pendEnd
       ELSE /\ step' = [step EXCEPT ![w].at = "due"]
            /\ UNCHANGED <<lock, ended, pendEnd, endVars>>
    /\ UNCHANGED <<day, time, chatVars, thought, pendCh, used>>

\* _advance_virtual_locked gives up while a boundary is deferred: at its start,
\* and with minutes left after it arrived at a point

HeldBack(w) ==
    /\ pendEnd # None
    /\ step[w].from = "start" \/ (step[w].from = "arrived" /\ step[w].left > 0)

StepEnd(w) ==
    /\ lock = w /\ step[w].at = "due"
    /\ HeldBack(w) \/ step[w].left = 0 \/ ended
    /\ lock' = "free"
    /\ step' = [step EXCEPT ![w] = Resting]
    /\ UNCHANGED <<clockVars, chatVars, thought, deferVars, endVars, used>>

\* the loop of _advance_virtual_locked at 18:00: the next day begins at 08:00
NextDay(w) ==
    /\ lock = w /\ step[w].at = "due"
    /\ ~HeldBack(w) /\ step[w].left > 0 /\ ~ended
    /\ time = DayEnd /\ day < LastDay
    /\ day' = day + 1 /\ time' = Morning
    /\ step' = [step EXCEPT ![w] = [@ EXCEPT !.at = "thought", !.from = "rolled"]]
    /\ UNCHANGED <<lock, ended, chatVars, thought, deferVars, endVars, used>>

\* otherwise the clock arrives at the next point (WorldClock.advance ends the
\* chapter's time at 18:00 of the last day)
Arrive(w) ==
    /\ lock = w /\ step[w].at = "due"
    /\ ~HeldBack(w) /\ step[w].left > 0 /\ ~ended
    /\ time < DayEnd
    /\ time' = time + 1
    /\ ended' = (day = LastDay /\ time' = DayEnd)
    /\ step' = [step EXCEPT ![w] = [@ EXCEPT !.at = "thought", !.from = "arrived",
                                            !.left = step[w].left - 1]]
    /\ UNCHANGED <<lock, day, chatVars, thought, deferVars, endVars, used>>

-----------------------------------------------------------------------------
(* Conversations and their pipelines *)

\* create_conversation, respond_to_invitation: the player opens a conversation
Opens(c) ==
    /\ lock = "free" /\ ~finished /\ time < Cutoff
    /\ conv[c] = "new" /\ Cardinality(OpenNow) < Limit
    /\ conv' = [conv EXCEPT ![c] = "open"]
    /\ \E st \in {"idle", "opener"} : round' = [round EXCEPT ![c] = st]
    /\ UNCHANGED <<lock, clockVars, thought, pipelines, task, deferVars, endVars, step,
                   used>>

\* a player message or the end of a cooldown asks for a round
Wakes(c) ==
    /\ lock = "free" /\ conv[c] = "open" /\ round[c] # "queued"
    /\ round' = [round EXCEPT ![c] = "queued"]
    /\ UNCHANGED <<lock, clockVars, conv, thought, pipelines, task, deferVars, endVars,
                   step, used>>

\* _execute_message_round and _execute_opener_round begin; no message round
\* begins at 18:00
RoundBegin(c) ==
    /\ lock = "free" /\ conv[c] = "open" /\ task[c] = "none"
    /\ round[c] \in {"queued", "opener"}
    /\ IF round[c] = "queued" /\ time = DayEnd
       THEN round' = [round EXCEPT ![c] = "idle"] /\ UNCHANGED <<pipelines, task>>
       ELSE /\ round' = [round EXCEPT ![c] = "running"]
            /\ pipelines' = pipelines + 1
            /\ task' = [task EXCEPT ![c] = "model"]
    /\ UNCHANGED <<lock, clockVars, conv, thought, deferVars, endVars, step, used>>

\* the save that follows the count fails before the try: the round is retried,
\* the count stays
SaveFails(c) ==
    /\ lock = "free" /\ conv[c] = "open" /\ task[c] = "none"
    /\ round[c] \in {"queued", "opener"} /\ ~(round[c] = "queued" /\ time = DayEnd)
    /\ used.fails < MaxFails /\ Use("fails")
    /\ pipelines' = pipelines + 1
    /\ UNCHANGED <<lock, clockVars, conv, round, thought, task, deferVars, endVars, step>>

BoundaryKept(c) ==
    IF pipelines' = 0 /\ pendCh
    THEN FinishChapter(c) /\ UNCHANGED deferVars
    ELSE IF pipelines' = 0 /\ pendEnd # None
    THEN CloseDay(c, pendEnd, FALSE) /\ UNCHANGED deferVars
    ELSE UNCHANGED <<ended, deferVars, endVars>>

BoundaryForgotten(c) ==
    /\ pendEnd' = IF pipelines' = 0 THEN None ELSE pendEnd
    /\ pendCh'  = IF pipelines' = 0 THEN FALSE ELSE pendCh
    /\ UNCHANGED <<ended, endVars>>

\* _finish_pending_boundary_locked: the last pipeline takes the boundary over
Boundary(c) ==
    IF pipelines' = 0 /\ pendCh
    THEN pendEnd' = None /\ pendCh' = FALSE /\ FinishChapter(c)
    ELSE IF pipelines' = 0 /\ pendEnd # None
    THEN pendEnd' = None /\ CloseDay(c, pendEnd, FALSE) /\ UNCHANGED pendCh
    ELSE UNCHANGED <<ended, deferVars, endVars>>

\* the finally of a pipeline; the round it ran left the conversation idle, with
\* the next round queued, or without enough participants
RoundEnd(c) ==
    /\ lock = "free" /\ task[c] = "model"
    /\ \/ round[c] # "running" /\ UNCHANGED round
       \/ round[c] = "running" /\ round' = [round EXCEPT ![c] = "idle"]
       \/ round[c] = "running" /\ time < DayEnd /\ round' = [round EXCEPT ![c] = "queued"]
    /\ pipelines' = pipelines - 1
    /\ Boundary(c)
    /\ task' = [task EXCEPT ![c] = IF close'[c].day # None THEN "closing" ELSE "none"]
    /\ UNCHANGED <<lock, day, time, conv, thought, step, used>>

\* a conversation closes because too few participants are left
Empties(c) ==
    /\ lock = "free" /\ conv[c] = "open"
    /\ conv' = [conv EXCEPT ![c] = "closed"]
    /\ round' = [round EXCEPT ![c] = "idle"]
    /\ UNCHANGED <<lock, clockVars, thought, pipelines, task, deferVars, endVars, step,
                   used>>

\* the process restarts from what was saved (active_chat_pipelines is not), and
\* _resume_chat_tasks queues the rounds that were running.  Between two saves
\* nothing is durable: a crash inside a section is the crash before it.
Crash ==
    /\ lock = "free"
    /\ used.crashes < MaxCrashes /\ Use("crashes")
    /\ lock' = "free" /\ pipelines' = 0
    /\ step' = [w \in Steppers |-> Resting]
    /\ task' = [c \in Convs |-> "none"]
    /\ close' = [p \in Procs |-> NoClose]
    /\ round' = [c \in Convs |-> IF round[c] = "running" THEN "queued" ELSE round[c]]
    /\ UNCHANGED <<clockVars, conv, thought, deferVars, closed, fired, finished,
                   dayEnded, resolved>>

-----------------------------------------------------------------------------

\* create_run
Init ==
    /\ lock = "free" /\ day = 1 /\ time = Morning /\ ended = FALSE
    /\ conv = [c \in Convs |-> "new"] /\ round = [c \in Convs |-> "idle"]
    /\ thought = {} /\ pipelines = 0 /\ pendEnd = None /\ pendCh = FALSE
    /\ closed = {} /\ fired = FALSE /\ finished = FALSE
    /\ step = [w \in Steppers |-> Resting] /\ task = [c \in Convs |-> "none"]
    /\ close = [p \in Procs |-> NoClose]
    /\ dayEnded = [d \in 1..LastDay |-> 0] /\ resolved = 0
    /\ used = [k \in {"fails", "crashes"} |-> 0]

Due(w) == DueThought(w) \/ DueDeadline(w) \/ DueBoundary(w)

Thinking(w) == ThinkDone(w) \/ ThinkRaises(w)

Stepping(w) == Due(w) \/ StepEnd(w) \/ NextDay(w) \/ Arrive(w)

CloseNext(p) == \E c \in Convs : CloseConversation(p, c)

Next ==
    \/ \E w \in Steppers : StepBegin(w) \/ Stepping(w) \/ Thinking(w)
    \/ \E p \in Procs : CloseNext(p)
    \/ \E c \in Convs : Opens(c) \/ Wakes(c) \/ RoundBegin(c) \/ SaveFails(c)
                                 \/ RoundEnd(c) \/ Empties(c)
    \/ Crash

Spec == Init /\ [][Next]_vars

\* The browser asks for a world_step every two seconds, asyncio.Lock is first come
\* first served, and the model calls end (they are bounded by timeouts).
Fairness ==
    /\ \A w \in Steppers : /\ SF_vars(StepBegin(w)) /\ WF_vars(Stepping(w))
                           /\ SF_vars(Thinking(w))
    /\ \A p \in Procs : SF_vars(CloseNext(p))
    /\ \A c \in Convs : SF_vars(RoundEnd(c))
FairSpec == Spec /\ Fairness

-----------------------------------------------------------------------------
(* Properties *)

\* Type correctness of the clock and the boundaries.
DayTypeOK ==
    /\ lock \in {"free"} \cup Steppers
    /\ day \in 1..LastDay /\ time \in Morning..DayEnd /\ ended \in BOOLEAN
    /\ conv \in [Convs -> {"new", "open", "closed"}]
    /\ round \in [Convs -> {"idle", "queued", "opener", "running"}]
    /\ thought \subseteq 1..LastDay /\ pipelines \in Nat
    /\ pendEnd \in 1..LastDay \cup {None} /\ pendCh \in BOOLEAN
    /\ closed \subseteq 1..LastDay /\ fired \in BOOLEAN /\ finished \in BOOLEAN
    /\ step \in [Steppers -> [at: {"idle", "thought", "thinking", "deadline", "boundary",
                                   "closing", "due"},
                              from: {"start", "arrived", "rolled"}, left: Nat,
                              asked: 1..LastDay \cup {None}]]
    /\ task \in [Convs -> {"none", "model", "closing"}]
    /\ close \in [Procs -> [todo: SUBSET Convs, day: 1..LastDay \cup {None},
                            chapter: BOOLEAN]]
    /\ dayEnded \in [1..LastDay -> Nat] /\ resolved \in Nat
    /\ used \in [{"fails", "crashes"} -> Nat]

\* No day passes without its end: whoever moves the clock on, and whatever was
\* deferred, failed or lost in a restart, the day before was taken to its closing.
NoDaySkipped == \A d \in 1..(day - 1) : d \in closed

\* A day is announced as ended once, and the chapter is resolved once, even when
\* several world_steps and pipelines arrive at the boundary together.
EndsOnce ==
    /\ \A d \in 1..LastDay : dayEnded[d] <= 1
    /\ resolved <= 1

\* The chapter is resolved after every conversation was closed: no stance can
\* still change, and no conversation of the run is ever left open behind it.
ResolvedAfterClosing == finished => OpenNow = {}

\* The days end in order: none is passed over, none is announced twice, and the chapter is
\* resolved once, when every conversation is closed, whoever arrives at a boundary together.
DaysEndInOrder == NoDaySkipped /\ EndsOnce /\ ResolvedAfterClosing

\* No save failed in front of a round and the process did not restart: either leaves the
\* count of the active pipelines wrong, or a deferred boundary without its pipeline.
Undisturbed == \A k \in DOMAIN used : used[k] = 0

\* As long as nothing failed, a deferred boundary has a pipeline that will take it over.
DeferredIsOwned ==
    Undisturbed /\ (pendEnd # None \/ pendCh) => \E c \in Convs : task[c] = "model"

\* A deferred boundary is carried out: nothing keeps the clock held back by it.
DeferralEnds == pendEnd # None ~> pendEnd = None

\* Unless something fails, the clock reaches the end of the chapter and the chapter is
\* resolved.
ChapterResolves == <>(finished \/ ~Undisturbed)

\* A day that was taken to its closing is closed and announced as ended, unless something
\* fails meanwhile.
EveryDayIsAnnounced ==
    \A d \in 1..LastDay : (d \in closed) ~> (dayEnded[d] > 0 \/ ~Undisturbed)
=============================================================================
