---------------------------- MODULE SegmentSummary ----------------------------
(***************************************************************************)
(* The summaries of the segments of one conversation.  A segment ends when *)
(* somebody joins or leaves; the model then summarises it while the run    *)
(* lock is free, so that messages are said, a player leaves and other      *)
(* summaries return in the meantime.  A long segment is summarised while   *)
(* it runs, up to a cursor: the prompts show the summary and the messages  *)
(* after the cursor.                                                       *)
(***************************************************************************)
EXTENDS Naturals, Sequences, FiniteSets

LOCAL INSTANCE Functions

CONSTANTS
    Closers,      \* handlers of a join or of the leave of an NPC, which summarise inline
    Trigger,      \* segment_summary_trigger_messages
    Recent,       \* segment_summary_recent_messages
    MaxMessages,  \* bound on the messages of a segment, and
    MaxSaid,      \* of all segments
    MaxSegments,  \* bound on the segments of the conversation
    MaxStops      \* bound on the handlers that raise and the stops of the process

ASSUME SummaryAssumption ==   \* the checks of RunService.__init__ (114-131)
    /\ Recent \in Nat \ {0} /\ Trigger \in Nat /\ Recent < Trigger
    /\ {MaxMessages, MaxSaid, MaxSegments, MaxStops} \subseteq Nat
    /\ Closers \cap {"roll", "maintenance"} = {}   \* the other two handlers

VARIABLES
    segs,      \* the segments: said (messages), ended, has (a summary), covers, cursor
    sealed,    \* the conversation is closed
    here,      \* the player takes part
    calls,     \* handler |-> the summary it waits for, a record like the segment's
    owed,      \* pendingSummarySegmentIds of the round state
    minding,   \* the segment the maintenance task was given, 0 when none runs
    stalled,   \* the task raised, or the process stopped, and no request came since
    stops,     \* handlers that raised and stops of the process so far
    doubled,   \* history: segments that two final summaries were asked for at a time
    dropped    \* history: segments that lost whoever was to summarise them, see Loses

summaryVars == <<segs, sealed, here, calls, owed, minding, stalled, stops, doubled, dropped>>
kept == <<here, stalled, dropped>>

Roller == "roll"
Maintenance == "maintenance"
Askers == Closers \cup {Roller, Maintenance}
NoCall == [seg |-> 0, upTo |-> 0, had |-> FALSE, covers |-> {}, cursor |-> 0]

Last == Len(segs)
NewSegment == [said |-> 0, ended |-> FALSE, has |-> FALSE, covers |-> {}, cursor |-> 0]
Asking(s) == {h \in Askers : calls[h].seg = s}

\* What the model is asked to summarise: the summary so far and the messages after the cursor.
Asked(s, upTo) == [seg |-> s, upTo |-> upTo, had |-> segs[s].has,
                   covers |-> segs[s].covers, cursor |-> segs[s].cursor]

\* The summary that comes back covers both; a failed one leaves the summary it knew.
Summarised(sg, c) ==
    [sg EXCEPT !.has = TRUE, !.covers = c.covers \cup (c.cursor + 1 .. c.upTo), !.cursor = c.upTo]
Kept(sg, c) == [sg EXCEPT !.has = TRUE, !.covers = IF c.had THEN c.covers ELSE {}]

\* _chat_context: a prompt shows the summary and the messages after the cursor.
Shown(sg) == sg.covers \cup (sg.cursor + 1 .. sg.said)

-----------------------------------------------------------------------------
\* A message of anyone goes to the last segment, even one that has ended.
Say ==
    /\ ~sealed /\ segs[Last].said < MaxMessages
    /\ FoldFunction(+, 0, [s \in DOMAIN segs |-> segs[s].said]) < MaxSaid
    /\ segs' = [segs EXCEPT ![Last].said = @ + 1]
    /\ UNCHANGED <<sealed, calls, owed, minding, stops, doubled, kept>>

\* _maybe_roll_segment_summary_locked, which only tests call so far: the messages before
\* the recent ones are compressed.
RollAsks ==
    LET tail == segs[Last].said - segs[Last].cursor IN
    /\ ~sealed /\ ~segs[Last].ended /\ calls[Roller] = NoCall
    /\ tail > Trigger
    /\ calls' = [calls EXCEPT ![Roller] = Asked(Last, segs[Last].said - Recent)]
    /\ UNCHANGED <<segs, sealed, owed, minding, stops, doubled, kept>>

\* Mutants (here and below, each before the operator it changes): what the operator would be
\* with a plausible bug in the code it stands for; they are used by no definition of the
\* specification.
StillOpen(c) == ~sealed /\ c.seg = Last
StillRolls(c) ==
    ~sealed /\ c.seg = Last /\ ~segs[Last].ended /\ segs[Last].cursor = c.cursor

RollReturns ==
    LET c == calls[Roller] IN
    /\ c # NoCall
    /\ calls' = [calls EXCEPT ![Roller] = NoCall]
    /\ \/ StillRolls(c) /\ segs' = [segs EXCEPT ![c.seg] = Summarised(@, c)]
       \/ UNCHANGED segs   \* the call failed, or its segment moved on
    /\ UNCHANGED <<sealed, owed, minding, stops, doubled, kept>>

-----------------------------------------------------------------------------
\* Segments that nobody has in hand any more, unless the maintenance task minds them.
Loses(lost) == dropped' = dropped \cup lost

\* The round state of a closed conversation is popped, with the list of what is owed.
RoundPopped == owed' = {} /\ Loses(owed \ {minding})

\* What follows the summary in a join or in the leave of an NPC: a new segment, no change
\* (the conversation filled up or the NPC is gone), or the end of the conversation: by the
\* leave, or by _close_conversation_locked, which pops the round state.
After(old) ==
    \/ UNCHANGED <<sealed, here, owed, dropped>> /\ segs' = old
    \/ /\ ~sealed /\ Last < MaxSegments /\ segs' = Append(old, NewSegment)
       /\ here' \in {here, TRUE} /\ UNCHANGED <<sealed, owed, dropped>>
    \/ /\ sealed' = TRUE /\ here' = FALSE /\ segs' = old
       /\ RoundPopped \/ UNCHANGED <<owed, dropped>>

\* _close_current_segment_locked: one that has ended, or an empty one, needs no model.
CloseDirectly ==
    /\ ~sealed
    /\ \/ segs[Last].ended /\ After(segs)
       \/ /\ ~segs[Last].ended /\ segs[Last].said = 0
          /\ After([segs EXCEPT ![Last].ended = TRUE, ![Last].has = TRUE])
    /\ UNCHANGED <<calls, minding, stalled, stops, doubled>>

CloseAsks(h) ==
    /\ ~sealed /\ calls[h] = NoCall /\ ~segs[Last].ended /\ segs[Last].said > 0
    /\ segs' = [segs EXCEPT ![Last].ended = TRUE]
    /\ calls' = [calls EXCEPT ![h] = Asked(Last, segs[Last].said)]
    /\ UNCHANGED <<sealed, owed, minding, stops, doubled, kept>>

Returned(c) == {[segs EXCEPT ![c.seg] = Summarised(@, c)], [segs EXCEPT ![c.seg] = Kept(@, c)]}

CloseReturns(h) ==
    /\ calls[h] # NoCall
    /\ calls' = [calls EXCEPT ![h] = NoCall]
    /\ \E old \in Returned(calls[h]) : After(old)
    /\ UNCHANGED <<minding, stalled, stops, doubled>>

\* The handler fails otherwise than by a failed model call: the segment stays as it is.
Fails == stops < MaxStops /\ stops' = stops + 1

CloseRaises(h) ==
    /\ calls[h] # NoCall /\ Fails
    /\ calls' = [calls EXCEPT ![h] = NoCall]
    /\ Loses({calls[h].seg})
    /\ UNCHANGED <<segs, sealed, here, owed, minding, stalled, doubled>>

\* The loop of the chat worker of a closed conversation (_chat_worker).
WorkerEnds ==
    /\ sealed /\ owed # {} /\ RoundPopped
    /\ UNCHANGED <<segs, sealed, here, calls, minding, stalled, stops, doubled>>

-----------------------------------------------------------------------------
\* _schedule_player_leave_maintenance: one task a conversation; a second one is not started.
Scheduled(s) == minding' = IF minding = 0 THEN s ELSE minding

\* _remove_player_locked: the player does not wait for the summary of its segment.
PlayerGoes ==
    LET ended == [segs EXCEPT ![Last].ended = TRUE] IN
    /\ ~sealed /\ here /\ here' = FALSE
    /\ \/ Last < MaxSegments /\ UNCHANGED sealed /\ segs' = Append(ended, NewSegment)
       \/ sealed' = TRUE /\ segs' = ended
    /\ owed' = {Last} /\ Loses(owed \ {Last, minding})
    /\ Scheduled(Last)
    /\ UNCHANGED <<calls, stalled, stops, doubled>>

\* _resume_maintenance_tasks, at the end of a task or on a request (get_run_entity)
Resumed(list) ==
    /\ IF list = {} THEN minding' = 0 ELSE minding' \in list
    /\ stalled' = FALSE

\* _complete_player_leave_maintenance, its summary made; it may still raise, and then
\* resumes nothing.
MaintenanceForgets ==
    /\ owed' = owed \ {minding} /\ minding' = 0 /\ UNCHANGED <<stalled, stops>>
MaintenanceEnds ==
    /\ owed' = owed \ {minding}
    /\ \/ Resumed(owed \ {minding}) /\ UNCHANGED stops
       \/ Fails /\ minding' = 0 /\ stalled' = TRUE

MaintenanceAsks ==
    /\ minding # 0 /\ calls[Maintenance] = NoCall
    /\ ~segs[minding].has /\ segs[minding].said > 0
    /\ calls' = [calls EXCEPT ![Maintenance] = Asked(minding, segs[minding].said)]
    /\ doubled' = IF Asking(minding) \ {Roller} # {} THEN doubled \cup {minding} ELSE doubled
    /\ UNCHANGED <<segs, sealed, owed, minding, stops, kept>>

MaintenanceSkips ==
    /\ minding # 0 /\ calls[Maintenance] = NoCall
    /\ segs[minding].has \/ segs[minding].said = 0
    /\ segs' = [segs EXCEPT ![minding].has = TRUE]
    /\ MaintenanceEnds
    /\ UNCHANGED <<sealed, here, calls, doubled, dropped>>

MaintenanceReturns ==
    /\ calls[Maintenance] # NoCall
    /\ segs' \in Returned(calls[Maintenance])
    /\ calls' = [calls EXCEPT ![Maintenance] = NoCall]
    /\ MaintenanceEnds
    /\ UNCHANGED <<sealed, here, doubled, dropped>>

\* It raises before its summary is made.
MaintenanceRaises ==
    /\ minding # 0 /\ Fails
    /\ minding' = 0 /\ stalled' = TRUE
    /\ calls' = [calls EXCEPT ![Maintenance] = NoCall]
    /\ Loses({minding} \ owed)
    /\ UNCHANGED <<segs, sealed, here, owed, doubled>>

\* get_run_entity, which every request begins with
Requested ==
    /\ IF minding = 0 THEN Resumed(owed) ELSE stalled' = FALSE /\ UNCHANGED minding
    /\ UNCHANGED <<segs, sealed, here, calls, owed, stops, doubled, dropped>>

\* The process stops after another handler saved the run, and starts again.
Stopped ==
    /\ Fails
    /\ minding' = 0 /\ stalled' = TRUE
    /\ calls' = [h \in Askers |-> NoCall]
    /\ Loses({calls[h].seg : h \in Closers} \cup ({minding} \ owed))
    /\ UNCHANGED <<segs, sealed, here, owed, doubled>>

SummaryInit ==
    /\ segs = <<NewSegment>> /\ sealed = FALSE /\ here = TRUE
    /\ owed = {} /\ minding = 0 /\ stalled = FALSE /\ dropped = {} /\ doubled = {}
    /\ calls = [h \in Askers |-> NoCall] /\ stops = 0

SummaryNext ==
    \/ Say \/ RollAsks \/ RollReturns \/ CloseDirectly \/ PlayerGoes
    \/ \E h \in Closers : CloseAsks(h) \/ CloseReturns(h) \/ CloseRaises(h)
    \/ MaintenanceAsks \/ MaintenanceSkips \/ MaintenanceReturns \/ MaintenanceRaises
    \/ WorkerEnds \/ Requested \/ Stopped

SummarySpec == SummaryInit /\ [][SummaryNext]_summaryVars

-----------------------------------------------------------------------------
\* The types, over the segments there are.
SummaryTypeOK ==
    /\ segs \in Seq([said : 0 .. MaxMessages, ended : BOOLEAN, has : BOOLEAN,
                     covers : SUBSET (1 .. MaxMessages), cursor : 0 .. MaxMessages])
    /\ {sealed, here, stalled} \subseteq BOOLEAN
    /\ dropped \subseteq 0 .. Last /\ owed \subseteq 1 .. Last /\ minding \in 0 .. Last
    /\ stops \in 0 .. MaxStops /\ doubled \subseteq 1 .. Last

\* No message is hidden from a prompt (SYSTEM_DESIGN.md:130: the cursor moves only when a
\* summary succeeds), and neither cursor nor summary ever goes back, whatever was said,
\* joined or summarised while the model worked.  The exception is a segment summarised for
\* a join or a leave of an NPC when the player leaves it too: the call that returns last
\* wins, also one made from fewer messages, or a failed one.
NothingHidden ==
    [][\A s \in (1 .. Last) \ doubled' :
          /\ segs[s].cursor <= segs'[s].cursor
          /\ segs[s].has => segs'[s].has
          /\ Shown(segs'[s]) = 1 .. segs'[s].said]_summaryVars

\* An ended segment without a summary is in hand: a handler waits for it, the maintenance
\* task has it or will find it on the list when it ends, or, after a task raised or the
\* process stopped, the next request will.  The exceptions are four holes of the code, the
\* steps that lose a segment: a join or a leave that waits for it raises or is stopped; the
\* next leave of the player writes the list anew; the closing of the conversation pops the
\* list while no task minds the segment; and a task that minded it after such a change of
\* the list raises or is stopped.
SummaryOwed ==
    \A s \in (1 .. Last) \ dropped :
        segs[s].ended /\ ~segs[s].has =>
            \/ Asking(s) \ {Roller} # {}
            \/ minding = s
            \/ s \in owed /\ (minding # 0 \/ stalled)
=============================================================================
