----------------------------- MODULE EventStream -----------------------------
(***************************************************************************)
(* The event stream of one run, from Run.append_event to the WebSockets:   *)
(* sections of RunService under run.lock append events and publish them    *)
(* after they released it, the EventHub puts them back in order, and every *)
(* WebSocket handler combines a snapshot, a replay and its hub queue       *)
(* (orchestration/event_hub.py, api/routes/websocket.py, domain/run.py,    *)
(* the sections of orchestration/run_service.py).                          *)
(*                                                                         *)
(* An event is its number.  Sections overlap: a section releases run.lock  *)
(* while it waits for a model, so the events_after(before_seq) it publishes*)
(* at its end also contains what others appended meanwhile, and events are *)
(* published twice and out of order.  The critical sections of the hub     *)
(* contain no await; the delivery loop of publish is modelled one event at *)
(* a time, and no other hub operation runs before it has ended (HubFree).  *)
(***************************************************************************)
EXTENDS Integers, Sequences, FiniteSets, Functions

CONSTANTS Sections,    \* tasks that run a section: requests and round workers
          Sockets,     \* clients, each with at most one connection
          MaxEvents,   \* bound: events of the run
          MaxSilent,   \* bound: sections that end without publishing
          MaxRaised,   \* bound: sections that raise after appending
          MaxDrops,    \* bound: lost connections
          MaxCrashes   \* bound: process restarts

ASSUME StreamAssumption ==
    /\ "free" \notin Sections
    /\ MaxEvents \in Nat /\ MaxSilent \in Nat /\ MaxRaised \in Nat
    /\ MaxDrops \in Nat /\ MaxCrashes \in Nat

VARIABLES
    eventSeq,  \* run.event_seq; run.events are 1..eventSeq
    saved,     \* run.event_seq of the last repository.save
    lock,      \* run.lock: "free" or the section that holds it
    sect,      \* the sections: where they are, the events they publish
    last,      \* hub._last_published_seq
    pending,   \* hub._pending: event -> the subscribers captured with it
    subs,      \* hub._subscribers
    conn,      \* where the WebSocket handler is
    queue,     \* the handler's queue
    pos,       \* snapshot_event_seq of the handler: what it has sent
    used       \* how much of each bound has been used

streamVars == <<eventSeq, saved, lock, sect, last, pending, subs, conn, queue, pos, used>>
runVars    == <<eventSeq, saved, lock, sect>>
hubVars    == <<last, pending>>
socketVars == <<subs, conn, queue, pos>>

\* Mutants (here and below, each before the operator it changes): what the
\* operator would be with a plausible bug in the code it stands for; they are
\* used by no definition of the specification.
IdleWithoutRange == [at |-> "idle"]

Idle == [at |-> "idle", next |-> 1, upto |-> 0]

Nothing == [n \in {} |-> {}]

Use(k) == used' = [used EXCEPT ![k] = @ + 1]

-----------------------------------------------------------------------------
(* Sections under run.lock *)

\* before_seq = run.event_seq
Begin(p) ==
    /\ lock = "free" /\ sect[p].at = "idle"
    /\ lock' = p
    /\ sect' = [sect EXCEPT ![p] = [at |-> "open", next |-> eventSeq + 1, upto |-> 0]]
    /\ UNCHANGED <<eventSeq, saved, hubVars, socketVars, used>>

\* Run.append_event
AppendEvent(p) ==
    /\ lock = p /\ sect[p].at = "open"
    /\ eventSeq < MaxEvents
    /\ eventSeq' = eventSeq + 1
    /\ UNCHANGED <<saved, lock, sect, hubVars, socketVars, used>>

\* _await_model_without_run_lock: save, release, wait
AwaitModel(p) ==
    /\ lock = p /\ sect[p].at = "open"
    /\ saved' = eventSeq /\ lock' = "free"
    /\ sect' = [sect EXCEPT ![p].at = "waiting"]
    /\ UNCHANGED <<eventSeq, hubVars, socketVars, used>>

Resume(p) ==
    /\ lock = "free" /\ sect[p].at = "waiting"
    /\ lock' = p
    /\ sect' = [sect EXCEPT ![p].at = "open"]
    /\ UNCHANGED <<eventSeq, saved, hubVars, socketVars, used>>

ToPublishButTheLast(p) == sect' = [sect EXCEPT ![p].at = "publishing", ![p].upto = eventSeq - 1]

\* events_after(before_seq), taken before the lock is released
ToPublish(p) == sect' = [sect EXCEPT ![p].at = "publishing", ![p].upto = eventSeq]

EndSectionUnsaved(p) ==
    /\ lock = p /\ sect[p].at = "open"
    /\ lock' = "free"
    /\ ToPublish(p)
    /\ UNCHANGED <<eventSeq, saved, hubVars, socketVars, used>>

\* the usual end: save, release, publish
EndSection(p) ==
    /\ lock = p /\ sect[p].at = "open"
    /\ saved' = eventSeq /\ lock' = "free"
    /\ ToPublish(p)
    /\ UNCHANGED <<eventSeq, hubVars, socketVars, used>>

\* the finally of a chat pipeline closes a deferred day and saves, but
\* publishes nothing (a pipeline is never the section that creates the run)
EndSilently(p) ==
    /\ lock = p /\ sect[p].at = "open" /\ sect[p].next > 1
    /\ used.silent < MaxSilent
    /\ saved' = eventSeq /\ lock' = "free"
    /\ sect' = [sect EXCEPT ![p] = Idle]
    /\ Use("silent")
    /\ UNCHANGED <<eventSeq, hubVars, socketVars>>

\* a command raises a DomainError after it appended events (the invitation of
\* a daily action that became impossible while the model was deciding)
EndRaised(p) ==
    /\ lock = p /\ sect[p].at = "open" /\ used.raised < MaxRaised
    /\ lock' = "free"
    /\ sect' = [sect EXCEPT ![p] = Idle]
    /\ Use("raised")
    /\ UNCHANGED <<eventSeq, saved, hubVars, socketVars>>

-----------------------------------------------------------------------------
(* The EventHub *)

HubFree == last + 1 \notin DOMAIN pending

AcceptUnordered(n) ==
    IF n <= last THEN UNCHANGED hubVars
    ELSE /\ last' = n - 1
         /\ pending' = [m \in DOMAIN pending \cup {n} |->
                           IF m = n THEN subs ELSE pending[m]]

\* EventHub.publish up to its loop: an event that was delivered is dropped, any
\* other waits for its turn with the subscribers of this moment
Accept(n) ==
    IF n <= last THEN UNCHANGED hubVars
    ELSE /\ pending' = [m \in DOMAIN pending \cup {n} |->
                           IF m = n THEN subs ELSE pending[m]]
         /\ UNCHANGED last

\* the loop over the events to publish at the end of a section
Publish(p) ==
    /\ sect[p].at = "publishing" /\ HubFree
    /\ IF sect[p].next > sect[p].upto
       THEN sect' = [sect EXCEPT ![p] = Idle] /\ UNCHANGED hubVars
       ELSE Accept(sect[p].next) /\ sect' = [sect EXCEPT ![p].next = @ + 1]
    /\ UNCHANGED <<eventSeq, saved, lock, socketVars, used>>

\* the loop of EventHub.publish
Deliver ==
    /\ ~HubFree
    /\ LET n == last + 1 IN
       /\ queue' = [s \in Sockets |-> IF s \in pending[n] THEN Append(queue[s], n)
                                                         ELSE queue[s]]
       /\ pending' = Restrict(pending, DOMAIN pending \ {n})
       /\ last' = n
    /\ UNCHANGED <<runVars, subs, conn, pos, used>>

PrimedAnyTime == eventSeq

\* EventHub.prime, called by get_run_entity
Primed == IF last = 0 /\ DOMAIN pending = {} THEN eventSeq ELSE last

Prime ==
    /\ HubFree /\ last' = Primed
    /\ UNCHANGED <<runVars, pending, socketVars, used>>

-----------------------------------------------------------------------------
(* The WebSocket handler, run_websocket *)

\* get_run_entity and EventHub.subscribe
Subscribe(s) ==
    /\ conn[s] = "closed" /\ HubFree
    /\ last' = Primed
    /\ subs' = subs \cup {s}
    /\ queue' = [queue EXCEPT ![s] = <<>>]
    /\ conn' = [conn EXCEPT ![s] = "subscribed"]
    /\ UNCHANGED <<runVars, pending, pos, used>>

\* the snapshot is taken under run.lock
TakeSnapshot(s) ==
    /\ conn[s] = "subscribed" /\ lock = "free"
    /\ pos' = [pos EXCEPT ![s] = eventSeq]
    /\ conn' = [conn EXCEPT ![s] = "replaying"]
    /\ UNCHANGED <<runVars, hubVars, subs, queue, used>>

\* the events the client missed and the snapshot are sent
Replay(s) ==
    /\ conn[s] = "replaying"
    /\ conn' = [conn EXCEPT ![s] = "live"]
    /\ UNCHANGED <<runVars, hubVars, subs, queue, pos, used>>

SkipsNothing(s, n) == FALSE

\* events the snapshot contains are skipped
Skips(s, n) == n <= pos[s]

\* one turn of the loop that forwards the queue
Send(s) ==
    /\ conn[s] = "live" /\ queue[s] # <<>>
    /\ queue' = [queue EXCEPT ![s] = Tail(@)]
    /\ pos' = [pos EXCEPT ![s] = IF Skips(s, Head(queue[s])) THEN @ ELSE Head(queue[s])]
    /\ UNCHANGED <<runVars, hubVars, subs, conn, used>>

\* the connection is lost and the handler unsubscribes
Drop(s) ==
    /\ conn[s] # "closed" /\ HubFree /\ used.drops < MaxDrops
    /\ conn' = [conn EXCEPT ![s] = "closed"]
    /\ subs' = subs \ {s}
    /\ queue' = [queue EXCEPT ![s] = <<>>]
    /\ Use("drops")
    /\ UNCHANGED <<runVars, hubVars, pos>>

\* the process restarts from what was saved; get_run_entity primes the new hub
\* before anything else happens to the run
Crash ==
    /\ used.crashes < MaxCrashes /\ Use("crashes")
    /\ eventSeq' = saved /\ lock' = "free"
    /\ sect' = [p \in Sections |-> Idle]
    /\ last' = saved /\ pending' = Nothing
    /\ subs' = {} /\ conn' = [s \in Sockets |-> "closed"]
    /\ queue' = [s \in Sockets |-> <<>>]
    /\ UNCHANGED <<saved, pos>>

-----------------------------------------------------------------------------

\* create_run: the run is registered with its first event, and the section
\* that creates it goes on
Init ==
    /\ eventSeq = 1 /\ saved = 1
    /\ \E p \in Sections :
        /\ lock = p
        /\ sect = [q \in Sections |-> IF q = p THEN [Idle EXCEPT !.at = "open"] ELSE Idle]
    /\ last = 0 /\ pending = Nothing
    /\ subs = {} /\ conn = [s \in Sockets |-> "closed"]
    /\ queue = [s \in Sockets |-> <<>>] /\ pos = [s \in Sockets |-> 0]
    /\ used = [k \in {"silent", "raised", "drops", "crashes"} |-> 0]

End(p) == EndSection(p) \/ EndSilently(p) \/ EndRaised(p)

Section(p) == Begin(p) \/ AppendEvent(p) \/ AwaitModel(p) \/ Resume(p) \/ End(p) \/ Publish(p)

Handler(s) == Subscribe(s) \/ TakeSnapshot(s) \/ Replay(s) \/ Send(s)

Next ==
    \/ \E p \in Sections : Section(p)
    \/ \E s \in Sockets : Handler(s) \/ Drop(s)
    \/ Deliver \/ Prime \/ Crash

Spec == Init /\ [][Next]_streamVars

\* asyncio runs every ready task and asyncio.Lock is first come first served;
\* a section is finite and its model calls are bounded by timeouts.
Fairness ==
    /\ \A p \in Sections : WF_streamVars(Publish(p)) /\ SF_streamVars(Resume(p))
                                                     /\ SF_streamVars(End(p))
    /\ WF_streamVars(Deliver)
    /\ \A s \in Sockets : SF_streamVars(TakeSnapshot(s)) /\ WF_streamVars(Replay(s))
                                                         /\ WF_streamVars(Send(s))
FairSpec == Spec /\ Fairness

-----------------------------------------------------------------------------
(* Properties *)

\* Type correctness of the stream.
TypeOK ==
    /\ eventSeq \in Nat /\ saved \in Nat
    /\ lock \in Sections \cup {"free"}
    /\ sect \in [Sections -> [at: {"idle", "open", "waiting", "publishing"},
                              next: Nat, upto: Nat]]
    /\ last \in Nat
    /\ DOMAIN pending \subseteq Nat /\ pending \in [DOMAIN pending -> SUBSET Sockets]
    /\ subs \in SUBSET Sockets
    /\ conn \in [Sockets -> {"closed", "subscribed", "replaying", "live"}]
    /\ queue \in [Sockets -> Seq(Nat)] /\ pos \in [Sockets -> Nat]
    /\ used \in [{"silent", "raised", "drops", "crashes"} -> Nat]

\* A connected client is told every event after its snapshot, one by one, in
\* order, none twice and none left out: whatever sections publish twice, out
\* of order or not at all, wherever in a publication the client subscribed
\* (EventHub.publish, run_websocket).
ToldOneByOne ==
    [][\A s \in Sockets : conn[s] = "live" /\ conn'[s] = "live" =>
            pos'[s] \in {pos[s], pos[s] + 1}]_streamVars

\* What the hub has delivered and the client was not told yet is in its queue:
\* a subscriber that comes while an event waits for its turn does not get it
\* from the hub, and finds it in its snapshot.
NothingSlipsThrough ==
    \A s \in Sockets : conn[s] \in {"replaying", "live"} =>
        \A n \in (pos[s] + 1)..last : \E i \in DOMAIN queue[s] : queue[s][i] = n

\* Clients are only told events that a restart will not take back
\* (repository.save before publish).
ToldIsDurable ==
    \A s \in Sockets : conn[s] \in {"replaying", "live"} => pos[s] <= saved

\* Every event of the run reaches every client that stays connected.
EveryEventArrives ==
    \A s \in Sockets : \A n \in 1..MaxEvents :
        (conn[s] = "live" /\ n <= saved) ~> (pos[s] >= n \/ conn[s] # "live")

\* What was handed to the hub reaches every client that stays connected.
PublishedEventArrives ==
    \A s \in Sockets : \A n \in 1..MaxEvents :
        (conn[s] = "live" /\ n \in DOMAIN pending) ~> (pos[s] >= n \/ conn[s] # "live")

\* The stream implements the feed a listener may rely on.
Feed == INSTANCE EventFeed WITH
            Listeners <- Sockets, log <- eventSeq, view <- pos,
            up <- {s \in Sockets : conn[s] \in {"replaying", "live"}}
FeedSpec == Feed!Spec
=============================================================================
