------------------------------ MODULE Membership ------------------------------
(***************************************************************************)
(* Who talks with whom (orchestration/run_service.py, class RunService):   *)
(* invitations, join requests, the conversations they lead to, and how an  *)
(* actor leaves one.  At most two conversations are open, each with two or *)
(* three participants.                                                     *)
(*                                                                         *)
(* An invitation waits for the model of the invited NPC, a join request    *)
(* for the models of the participants and, once accepted, for the summary  *)
(* of the segment it ends; an NPC that leaves waits for that summary too   *)
(* and then for its consolidation.  run.lock is released during each wait: *)
(* what the code validated before it may have changed after it.  A step is *)
(* what one section does between two waits.                                *)
(*                                                                         *)
(* The rounds of a conversation are module ChatRound; a boundary deferred  *)
(* by a chat pipeline is module DayBoundary, here the end of a day just    *)
(* comes any time after 18:00.                                             *)
(***************************************************************************)
EXTENDS Integers, Sequences, FiniteSets

CONSTANTS Player, NPCs,
          None,        \* nobody
          MaxOpen,     \* open conversations a run may have (two)
          MaxDays,     \* bound: days
          Allowances   \* bounds: how many conversations, invitations, join requests,
                       \* daily actions, leaves, new days and restarts there may
                       \* be; a behaviour has one of these allowances

Counted == {"talk", "invite", "join", "thought", "leave", "day", "restart"}

ASSUME MembershipAssumption ==
    /\ Player \notin NPCs /\ None \notin NPCs /\ IsFiniteSet(NPCs)
    /\ MaxOpen \in Nat /\ MaxDays \in Nat \ {0}
    /\ Allowances \subseteq [Counted -> Nat]

Actors == NPCs \cup {Player}
Days == 1..MaxDays

\* The parts of a day: before new_chat_cutoff (17:00), before active_end (18:00),
\* and after it.
Open == 0
Late == 1
Over == 2

VARIABLES
    today,    \* run.clock.current.day
    hour,     \* the part of the day
    shut,     \* run.closed_days
    thought,  \* NPCs whose thought of the day is marked (run.thought_days)
    standing, \* run.actor_states[a]["status"]
    talk,     \* run.conversations: participants, is_open, and whether the last
              \* segment still runs (it has no endedAt)
    invite,   \* run.invitations; "asking": the invited NPC's model is awaited
    join,     \* run.join_requests; "polling": the approvers' models are awaited,
              \* "adding": accepted, the segment summary is awaited
    daily,    \* the daily action awaited for each NPC: the day and the candidates
    parting,  \* <<c, n>>: n leaves c, the segment summary is awaited
    settling, \* consolidations under way after a leave: of who, then of rest
    settled,  \* <<c, n>>: n was consolidated for c
    ending,   \* per day, where its _close_day_locked is
    left      \* what is left of the allowance

memberVars == <<today, hour, shut, thought, standing, talk, invite, join, daily, parting,
                settling, settled, ending, left>>
dayVars     == <<today, hour, shut, thought>>
leaveVars   == <<parting, settling, settled, ending>>
requestVars == <<invite, join, daily>>

OpenTalks == {c \in DOMAIN talk : talk[c].open}
Places(a) == {c \in OpenTalks : a \in talk[c].parts}
Free(a)   == Places(a) = {}
Full(c)   == Cardinality(talk[c].parts) >= 3
\* actor_open_conversation: the first in creation order
Place(a)  == CHOOSE c \in Places(a) : \A d \in Places(a) : c <= d

HasInvite(a) == \E i \in DOMAIN invite :
                    invite[i].st = "pending" /\ a \in {invite[i].by, invite[i].to}
HasJoin(a)   == \E j \in DOMAIN join :
                    join[j].st = "pending" /\ (a = join[j].by \/ a \in join[j].asked)
HasRequest(a) == HasInvite(a) \/ HasJoin(a)
Departed(a)  == standing[a] = "departed"
AtRest(a)    == IF a = Player THEN "present" ELSE "waiting"

Spend(k) == left[k] > 0 /\ left' = [left EXCEPT ![k] = @ - 1]

NoDaily  == [day |-> 0, among |-> {}]
NoEnding == [todo |-> {}, at |-> "none", on |-> 0, was |-> FALSE, left |-> {}, now |-> None]

-----------------------------------------------------------------------------
(* The checks and the effects the operations share *)

\* Mutants (here and below, each before the operator it changes): what the
\* operator would be with a plausible bug in the code it stands for; they are
\* used by no definition of the specification.
MayOpenBusy(a, b) ==
    /\ hour = Open /\ Cardinality(OpenTalks) < MaxOpen
    /\ \A x \in {a, b} : ~Departed(x)

\* _validate_conversation_start_locked
MayOpen(a, b) ==
    /\ hour = Open /\ Cardinality(OpenTalks) < MaxOpen
    /\ \A x \in {a, b} : ~Departed(x) /\ Free(x)

\* _open_conversation_locked
Opened(a, b) ==
    /\ Spend("talk")
    /\ talk' = Append(talk, [parts |-> {a, b}, open |-> TRUE, runs |-> TRUE])
    /\ standing' = [standing EXCEPT ![a] = "chatting", ![b] = "chatting"]

\* _validate_new_invitation_locked
MayInvite(a, b) ==
    /\ a # b /\ MayOpen(a, b)
    /\ \A x \in {a, b} : ~HasRequest(x)

\* the checks of _request_join_locked
MayJoin(c, a) ==
    /\ hour = Open /\ talk[c].open /\ ~Full(c) /\ a \notin talk[c].parts
    /\ ~Departed(a) /\ Free(a) /\ ~HasRequest(a)
    /\ \A j \in DOMAIN join : ~(join[j].st = "pending" /\ join[j].to = c)

Invited(a, b) ==
    /\ Spend("invite")
    /\ invite' = Append(invite, [by |-> a, to |-> b, st |-> "pending", asking |-> b # Player])
    /\ standing' = [standing EXCEPT ![a] = "inviting"]

JoinAsked(c, a) ==
    /\ Spend("join")
    /\ join' = Append(join, [by |-> a, to |-> c, asked |-> talk[c].parts, yes |-> {},
                             st |-> "pending", polling |-> TRUE, adding |-> FALSE])
    /\ standing' = [standing EXCEPT ![a] = "inviting"]

\* _expire_join_requests_for_conversation_locked: the pending requests for c
\* expire and their applicants rest
PendingFor(c) == {j \in DOMAIN join : join[j].st = "pending" /\ join[j].to = c}
ExpireFor(c)  == [j \in DOMAIN join |-> IF j \in PendingFor(c)
                                        THEN [join[j] EXCEPT !.st = "expired"] ELSE join[j]]
RestFor(s, c) == [a \in Actors |-> IF \E j \in PendingFor(c) : join[j].by = a
                                   THEN AtRest(a) ELSE s[a]]

\* The status after a consolidation: an NPC without an unresolved goal departs.
\* After one that succeeded for the same conversation it changes nothing.
AfterConsolidation(s, c, n) ==
    (IF <<c, n>> \in settled THEN {s} ELSE {}) \cup
    {[s EXCEPT ![n] = "departed"], [s EXCEPT ![n] = IF @ = "departed" THEN @ ELSE "present"]}

-----------------------------------------------------------------------------
(* Opening a conversation *)

\* create_conversation
Create(a, b) ==
    /\ MayInvite(a, b)
    /\ Opened(a, b)
    /\ UNCHANGED <<dayVars, requestVars, leaveVars>>

\* player_invite
PlayerInvite(n) ==
    /\ MayInvite(Player, n)
    /\ Invited(Player, n)
    /\ UNCHANGED <<dayVars, talk, join, daily, leaveVars>>

\* The thought of an NPC in _process_due_locked, up to the model call of its daily
\* action.  One that is skipped (the NPC departed, talks, or has a request open)
\* only marks the day: an NPC that does not think again that day.
Think(n) ==
    /\ n \notin thought /\ thought' = thought \cup {n}
    /\ Free(n) /\ ~HasRequest(n)
    /\ standing[n] \notin {"departed", "chatting", "inviting"}
    /\ Spend("thought")
    /\ standing' = [standing EXCEPT ![n] = "waiting"]
    /\ daily' = IF hour # Open THEN daily
                ELSE [daily EXCEPT ![n] = [day |-> today, among |->
                        {a \in Actors \ {n} :
                           /\ ~Departed(a) /\ ~HasRequest(a)
                           /\ IF Free(a) THEN Cardinality(OpenTalks) < MaxOpen
                                         ELSE ~Full(Place(a))}]]
    /\ UNCHANGED <<today, hour, shut, talk, invite, join, leaveVars>>

\* The daily action returns.  It waits, or its target takes part in a
\* conversation with room, in a full one, or in none.  Asking may raise: then
\* the NPC stays "inviting".
DailyWaits(n) ==
    /\ standing' = [standing EXCEPT ![n] = "waiting"]
    /\ UNCHANGED <<talk, invite, join, left>>

DailyActs(n, t) ==
    /\ daily[n].day = today /\ hour = Open
    /\ IF ~Free(n) THEN UNCHANGED <<standing, talk, invite, join, left>>
       ELSE \/ /\ ~Free(t) /\ ~Full(Place(t))
               /\ IF MayJoin(Place(t), n) THEN JoinAsked(Place(t), n)
                  ELSE standing' = [standing EXCEPT ![n] = "inviting"] /\ UNCHANGED <<join, left>>
               /\ UNCHANGED <<talk, invite>>
            \/ ~Free(t) /\ Full(Place(t)) /\ DailyWaits(n)
            \/ /\ Free(t)
               /\ IF MayInvite(n, t) THEN Invited(n, t)
                  ELSE standing' = [standing EXCEPT ![n] = "inviting"] /\ UNCHANGED <<invite, left>>
               /\ UNCHANGED <<talk, join>>

DailyReturns(n) ==
    /\ daily[n] # NoDaily
    /\ daily' = [daily EXCEPT ![n] = NoDaily]
    /\ DailyWaits(n) \/ \E t \in daily[n].among : DailyActs(n, t)
    /\ UNCHANGED <<dayVars, leaveVars>>

\* An invitation that is accepted opens its conversation, unless the limit was
\* reached or an actor departed since: that raises, and the invitation stays
\* accepted.
AcceptInvite(i) ==
    /\ invite' = [invite EXCEPT ![i].st = "accepted", ![i].asking = FALSE]
    /\ IF MayOpen(invite[i].by, invite[i].to) THEN Opened(invite[i].by, invite[i].to)
       ELSE UNCHANGED <<standing, talk, left>>

SettleInvite(i, st) ==
    /\ invite' = [invite EXCEPT ![i].st = st, ![i].asking = FALSE]
    /\ standing' = [standing EXCEPT ![invite[i].by] = AtRest(invite[i].by)]
    /\ UNCHANGED <<talk, left>>

InviteAnsweredAgain(i) ==
    /\ invite[i].asking
    /\ IF hour # Open \/ ~Free(invite[i].by) \/ ~Free(invite[i].to)
       THEN SettleInvite(i, "expired")
       ELSE AcceptInvite(i) \/ SettleInvite(i, "refused")
    /\ UNCHANGED <<dayVars, join, daily, leaveVars>>

\* _request_invitation_locked after the model of the invited NPC answered
InviteAnswered(i) ==
    /\ invite[i].asking
    /\ IF invite[i].st # "pending"
       THEN invite' = [invite EXCEPT ![i].asking = FALSE] /\ UNCHANGED <<standing, talk, left>>
       ELSE IF hour # Open \/ ~Free(invite[i].by) \/ ~Free(invite[i].to)
       THEN SettleInvite(i, "expired")
       ELSE AcceptInvite(i) \/ SettleInvite(i, "refused")
    /\ UNCHANGED <<dayVars, join, daily, leaveVars>>

\* respond_invitation: an acceptance is validated first, and raises with nothing
\* changed
RespondInvitation(i) ==
    /\ invite[i].to = Player /\ invite[i].st = "pending"
    /\ \/ SettleInvite(i, "refused")
       \/ MayOpen(invite[i].by, Player) /\ AcceptInvite(i)
    /\ UNCHANGED <<dayVars, join, daily, leaveVars>>

-----------------------------------------------------------------------------
(* Joining a conversation *)

\* player_join and add_participant, up to the models of the approvers
RequestJoin(c, a) ==
    /\ MayJoin(c, a)
    /\ JoinAsked(c, a)
    /\ UNCHANGED <<dayVars, talk, invite, daily, leaveVars>>

AddedUnchecked(r, j) ==
    IF talk[r.to].open /\ r.by \notin talk[r.to].parts
    THEN /\ talk' = [talk EXCEPT ![r.to].parts = @ \cup {r.by}, ![r.to].runs = TRUE]
         /\ standing' = [standing EXCEPT ![r.by] = "chatting"]
         /\ join' = [join EXCEPT ![j] = [r EXCEPT !.adding = FALSE]]
    ELSE /\ join' = [join EXCEPT ![j] = [r EXCEPT !.adding = FALSE]]
         /\ UNCHANGED <<talk, standing>>

\* Conversation.add_participant, after which a new segment starts; or it raises
Added(r, j) ==
    /\ join' = [join EXCEPT ![j] = [r EXCEPT !.adding = FALSE]]
    /\ IF talk[r.to].open /\ r.by \notin talk[r.to].parts /\ ~Full(r.to)
       THEN /\ talk' = [talk EXCEPT ![r.to].parts = @ \cup {r.by}, ![r.to].runs = TRUE]
            /\ standing' = [standing EXCEPT ![r.by] = "chatting"]
       ELSE UNCHANGED <<talk, standing>>

Unsettled(r, j) == join' = [join EXCEPT ![j] = r] /\ UNCHANGED <<talk, standing>>
Denied(r, j, st) ==
    /\ join' = [join EXCEPT ![j] = [r EXCEPT !.st = st]]
    /\ standing' = [standing EXCEPT ![r.by] = AtRest(r.by)]
    /\ UNCHANGED talk

\* _resolve_join_request_locked once nobody refused; r is join[j] with the last
\* answer.  The accepted applicant joins at once if the last segment has ended or
\* has no message, and waits for its summary otherwise.
Resolve(r, j) ==
    IF r.yes # r.asked THEN Unsettled(r, j)
    ELSE IF \/ hour # Open \/ ~talk[r.to].open \/ Full(r.to) \/ talk[r.to].parts # r.asked
            \/ ~Free(r.by) \/ Departed(r.by)
    THEN Denied(r, j, "expired")
    ELSE LET yes == [r EXCEPT !.st = "accepted"] IN
         \/ HasInvite(r.by) /\ Unsettled(yes, j)
         \/ ~HasInvite(r.by) /\ Added(yes, j)
         \/ /\ ~HasInvite(r.by) /\ talk[r.to].runs
            /\ join' = [join EXCEPT ![j] = [yes EXCEPT !.adding = TRUE]]
            /\ talk' = [talk EXCEPT ![r.to].runs = FALSE]
            /\ UNCHANGED standing

\* _request_join_locked after the models of the NPCs among the approvers answered
PollReturns(j) ==
    /\ join[j].polling
    /\ LET r == [join[j] EXCEPT !.polling = FALSE] IN
       IF r.st # "pending" \/ ~talk[r.to].open \/ talk[r.to].parts # r.asked
       THEN Unsettled(r, j)
       ELSE \/ Denied(r, j, "refused")
            \/ Resolve([r EXCEPT !.yes = @ \cup (r.asked \ {Player})], j)
    /\ UNCHANGED <<dayVars, invite, daily, leaveVars, left>>

\* respond_join_request
RespondJoin(j) ==
    /\ join[j].st = "pending" /\ Player \in join[j].asked \ join[j].yes
    /\ \/ Denied(join[j], j, "refused")
       \/ Resolve([join[j] EXCEPT !.yes = @ \cup {Player}], j)
    /\ UNCHANGED <<dayVars, invite, daily, leaveVars, left>>

\* _join_conversation_locked after the summary
JoinSummarised(j) ==
    /\ join[j].adding
    /\ Added(join[j], j)
    /\ UNCHANGED <<dayVars, invite, daily, leaveVars, left>>

-----------------------------------------------------------------------------
(* Leaving a conversation *)

WithoutSegment(c, a) ==
    LET rest == talk[c].parts \ {a}
        open == talk[c].open /\ Cardinality(rest) >= 2
    IN [talk EXCEPT ![c] = [@ EXCEPT !.parts = rest, !.open = open]]

\* remove_participant of the conversation, which closes with fewer than two
Without(c, a) ==
    LET rest == talk[c].parts \ {a}
        open == talk[c].open /\ Cardinality(rest) >= 2
    IN [talk EXCEPT ![c] = [parts |-> rest, open |-> open, runs |-> open]]

\* _leave_and_consolidate_locked from the removal to its first consolidation
Removed(c, n) ==
    /\ talk' = Without(c, n)
    /\ join' = ExpireFor(c)
    /\ standing' = [RestFor(standing, c) EXCEPT ![n] = "waiting"]
    /\ settling' = settling \cup {[of |-> c, who |-> n, rest |-> {}, as |-> "leaver"]}

\* an NPC begins to leave, by remove_participant or in its chat worker; without a
\* running segment that has messages there is no summary to wait for
Leave(c, n) ==
    /\ talk[c].open /\ n \in talk[c].parts
    /\ Spend("leave")
    /\ \/ Removed(c, n) /\ UNCHANGED parting
       \/ /\ talk[c].runs
          /\ parting' = parting \cup {<<c, n>>}
          /\ talk' = [talk EXCEPT ![c].runs = FALSE]
          /\ UNCHANGED <<standing, join, settling>>
    /\ UNCHANGED <<dayVars, invite, daily, settled, ending>>

\* the summary is there; remove_participant raises if the NPC has left meanwhile
LeaveSummarised(c, n) ==
    /\ <<c, n>> \in parting
    /\ parting' = parting \ {<<c, n>>}
    /\ IF n \in talk[c].parts THEN Removed(c, n) ELSE UNCHANGED <<talk, join, standing, settling>>
    /\ UNCHANGED <<dayVars, invite, daily, settled, ending, left>>

\* _remove_player_locked: the player leaves at once; the remaining NPCs of a
\* conversation it closes are consolidated by a maintenance task, which a restart
\* resumes
PlayerLeaves(c) ==
    /\ talk[c].open /\ Player \in talk[c].parts /\ hour # Over
    /\ Spend("leave")
    /\ talk' = Without(c, Player)
    /\ join' = ExpireFor(c)
    /\ LET alone == IF talk'[c].open THEN {} ELSE talk'[c].parts IN
       /\ standing' = [a \in Actors |-> IF a = Player THEN "present"
                                        ELSE IF a \in alone THEN "waiting" ELSE RestFor(standing, c)[a]]
       /\ settling' = settling \cup {[of |-> c, who |-> n, rest |-> {}, as |-> "owed"] : n \in alone}
    /\ UNCHANGED <<dayVars, invite, daily, parting, settled, ending>>

\* A consolidation is over.  That of an NPC which left its conversation is
\* followed by those of the NPCs that remain in it, if it is closed; a player
\* that remains is just present.
Consolidated(s) ==
    /\ s \in settling
    /\ \E then \in AfterConsolidation(standing, s.of, s.who) :
         LET c    == s.of
             stay == IF s.as = "leaver" /\ ~talk[c].open THEN talk[c].parts ELSE s.rest
             npcs == stay \ {Player}
         IN /\ settled' = settled \cup {<<c, s.who>>}
            /\ standing' = IF Player \in stay THEN [then EXCEPT ![Player] = "present"] ELSE then
            /\ \/ npcs = {} /\ settling' = settling \ {s}
               \/ \E n \in npcs : settling' = (settling \ {s})
                     \cup {[of |-> c, who |-> n, rest |-> npcs \ {n}, as |-> "rest"]}
    /\ UNCHANGED <<dayVars, talk, requestVars, parting, ending, left>>

-----------------------------------------------------------------------------
(* The end of a day *)

CloseTurnOfNobody(d, e, s, t) ==
    \E n \in e.left \cap NPCs :
        /\ standing' = [s EXCEPT ![n] = "waiting"]
        /\ ending' = [ending EXCEPT ![d] = [e EXCEPT !.left = @ \ {n}]]
        /\ talk' = t

\* the closing of day d goes on with the consolidation of an NPC still in e.left
CloseTurn(d, e, s, t) ==
    \E n \in e.left \cap NPCs :
        /\ standing' = [s EXCEPT ![n] = "waiting"]
        /\ ending' = [ending EXCEPT ![d] = [e EXCEPT !.now = n, !.left = @ \ {n}]]
        /\ talk' = t

\* _close_conversation_locked of the next conversation of todo, from the statuses
\* s and the conversations t.  One that was closed meanwhile by its last NPC only
\* leaves the player present.
CloseNext(d, todo, s, t) ==
    LET stay == {c \in todo : t[c].parts \cap NPCs # {}}
        s1   == IF \E c \in todo \ stay : Player \in t[c].parts
                THEN [s EXCEPT ![Player] = "present"] ELSE s
    IN IF stay = {}
       THEN /\ ending' = [ending EXCEPT ![d] = NoEnding]
            /\ standing' = s1 /\ talk' = t /\ UNCHANGED join
       ELSE LET c  == CHOOSE x \in stay : \A y \in stay : x <= y
                s2 == RestFor(s1, c)
                t2 == [t EXCEPT ![c].runs = FALSE]
                e  == [NoEnding EXCEPT !.todo = stay \ {c}, !.on = c, !.was = t[c].open]
            IN /\ join' = ExpireFor(c)
               /\ \/ /\ t[c].open /\ t[c].runs
                     /\ ending' = [ending EXCEPT ![d] = [e EXCEPT !.at = "talk"]]
                     /\ standing' = s2 /\ talk' = t2
                  \/ CloseTurn(d, [e EXCEPT !.at = "settle", !.left = t[c].parts], s2, t2)

\* _close_day_locked
CloseDay ==
    /\ hour = Over /\ today \notin shut
    /\ shut' = shut \cup {today}
    /\ CloseNext(today, OpenTalks, standing, talk)
    /\ UNCHANGED <<today, hour, thought, invite, daily, parting, settling, settled, left>>

\* the summary is there: every participant is dealt with in turn
CloseSummarised(d) ==
    /\ ending[d].at = "talk"
    /\ LET e == [ending[d] EXCEPT !.at = "settle", !.left = talk[ending[d].on].parts] IN
       IF e.left \cap NPCs # {} THEN CloseTurn(d, e, standing, talk) /\ UNCHANGED join
       ELSE CloseNext(d, e.todo, standing, talk)
    /\ UNCHANGED <<dayVars, invite, daily, parting, settling, settled, left>>

\* a consolidation of the closing is over; after the last the conversation closes
CloseConsolidated(d) ==
    /\ ending[d].at = "settle"
    /\ settled' = settled \cup {<<ending[d].on, ending[d].now>>}
    /\ \E s \in AfterConsolidation(standing, ending[d].on, ending[d].now) :
         LET e == ending[d]
             c == e.on
             p == IF Player \in e.left THEN [s EXCEPT ![Player] = "present"] ELSE s
         IN IF e.left \cap NPCs # {} THEN CloseTurn(d, e, s, talk) /\ UNCHANGED join
            ELSE CloseNext(d, e.todo, p, IF e.was THEN [talk EXCEPT ![c].open = FALSE] ELSE talk)
    /\ UNCHANGED <<dayVars, invite, daily, parting, settling, left>>

\* the clock reaches 17:00 and _expire_pending_requests_locked runs
Cutoff ==
    /\ hour = Open /\ hour' = Late
    /\ invite' = [i \in DOMAIN invite |-> IF invite[i].st = "pending"
                    THEN [invite[i] EXCEPT !.st = "expired"] ELSE invite[i]]
    /\ join' = [j \in DOMAIN join |-> IF join[j].st = "pending"
                  THEN [join[j] EXCEPT !.st = "expired"] ELSE join[j]]
    /\ standing' = [a \in Actors |->
                      IF \/ \E i \in DOMAIN invite : invite[i].st = "pending" /\ invite[i].by = a
                         \/ \E j \in DOMAIN join : join[j].st = "pending" /\ join[j].by = a
                      THEN AtRest(a) ELSE standing[a]]
    /\ UNCHANGED <<today, shut, thought, talk, daily, leaveVars, left>>

\* the clock reaches 18:00
Evening ==
    /\ hour = Late /\ hour' = Over
    /\ UNCHANGED <<today, shut, thought, standing, talk, requestVars, leaveVars, left>>

NextDay ==
    /\ hour = Over /\ today \in shut /\ today < MaxDays /\ Spend("day")
    /\ today' = today + 1 /\ hour' = Open /\ thought' = {}
    /\ UNCHANGED <<shut, standing, talk, requestVars, leaveVars>>

\* A restart: what waited for a model is lost; get_run_entity resumes the
\* consolidations a player's leave owes.
MemberRestarts ==
    /\ Spend("restart")
    /\ invite' = [i \in DOMAIN invite |-> [invite[i] EXCEPT !.asking = FALSE]]
    /\ join' = [j \in DOMAIN join |-> [join[j] EXCEPT !.polling = FALSE, !.adding = FALSE]]
    /\ daily' = [n \in NPCs |-> NoDaily]
    /\ parting' = {}
    /\ settling' = {s \in settling : s.as = "owed"}
    /\ ending' = [d \in Days |-> NoEnding]
    /\ UNCHANGED <<dayVars, standing, talk, settled>>

MemberInit ==
    /\ today = 1 /\ hour = Open /\ shut = {} /\ thought = {}
    /\ standing = [a \in Actors |-> "present"]
    /\ talk = <<>> /\ invite = <<>> /\ join = <<>>
    /\ daily = [n \in NPCs |-> NoDaily]
    /\ parting = {} /\ settling = {} /\ settled = {}
    /\ ending = [d \in Days |-> NoEnding]
    /\ left \in Allowances

MemberNext ==
    \/ \E a, b \in Actors : Create(a, b)
    \/ \E n \in NPCs : PlayerInvite(n) \/ Think(n) \/ DailyReturns(n)
    \/ \E i \in DOMAIN invite : InviteAnswered(i) \/ RespondInvitation(i)
    \/ \E c \in DOMAIN talk, a \in Actors : RequestJoin(c, a)
    \/ \E j \in DOMAIN join : PollReturns(j) \/ RespondJoin(j) \/ JoinSummarised(j)
    \/ \E c \in DOMAIN talk, n \in NPCs : Leave(c, n) \/ LeaveSummarised(c, n)
    \/ \E c \in DOMAIN talk : PlayerLeaves(c)
    \/ \E s \in settling : Consolidated(s)
    \/ CloseDay
    \/ \E d \in Days : CloseSummarised(d) \/ CloseConsolidated(d)
    \/ Cutoff \/ Evening \/ NextDay \/ MemberRestarts

MemberSpec == MemberInit /\ [][MemberNext]_memberVars

-----------------------------------------------------------------------------
(* Properties *)

Talks    == [parts : SUBSET Actors, open : BOOLEAN, runs : BOOLEAN]
Invites  == [by : Actors, to : Actors, asking : BOOLEAN,
             st : {"pending", "accepted", "refused", "expired"}]
Joins    == [by : Actors, to : Nat, asked : SUBSET Actors, yes : SUBSET Actors,
             st : {"pending", "accepted", "refused", "expired"},
             polling : BOOLEAN, adding : BOOLEAN]
Settlings == [of : Nat, who : NPCs, rest : SUBSET NPCs, as : {"leaver", "rest", "owed"}]
Endings  == [todo : SUBSET Nat, at : {"none", "talk", "settle"}, on : Nat, was : BOOLEAN,
             left : SUBSET Actors, now : NPCs \cup {None}]

\* The type invariant: the variables stay within the shapes the code gives them,
\* and every reference to a conversation is to one that exists.
MemberTypeOK ==
    /\ today \in Days /\ hour \in {Open, Late, Over} /\ shut \subseteq Days
    /\ thought \subseteq NPCs
    /\ standing \in [Actors -> {"present", "waiting", "inviting", "chatting", "departed"}]
    /\ talk \in Seq(Talks) /\ invite \in Seq(Invites) /\ join \in Seq(Joins)
    /\ \A j \in DOMAIN join : join[j].to \in DOMAIN talk
    /\ daily \in [NPCs -> [day : Days \cup {0}, among : SUBSET Actors]]
    /\ parting \subseteq (DOMAIN talk) \X NPCs /\ settled \subseteq (DOMAIN talk) \X NPCs
    /\ settling \subseteq Settlings /\ \A s \in settling : s.of \in DOMAIN talk
    /\ ending \in [Days -> Endings]
    /\ \A d \in Days : /\ ending[d].todo \subseteq DOMAIN talk
                       /\ ending[d].at # "none" => ending[d].on \in DOMAIN talk
                       /\ ending[d].at = "settle" => ending[d].now \in NPCs
    /\ left \in [Counted -> Nat]

\* At most MaxOpen conversations are open, each with two or three participants,
\* although a join adds its applicant a model call after the room was checked
\* (Conversation.add_participant, _validate_conversation_start_locked); and a
\* pending join request asks actors that are all still there, although leaves
\* await models too (_expire_join_requests_for_conversation_locked).
LimitsKept ==
    /\ Cardinality(OpenTalks) <= MaxOpen
    /\ \A c \in OpenTalks : Cardinality(talk[c].parts) \in 2..3
    /\ \A j \in DOMAIN join :
         join[j].st = "pending" => join[j].asked \subseteq talk[join[j].to].parts

\* An actor comes to be in two open conversations only by a join that was
\* accepted while it was free and is carried out after the segment summary: every
\* other way in checks again, after its wait, that the actor is free.
SecondPlaceOnlyByLateJoin ==
    [][\A a \in Actors :
         Cardinality(Places(a)) < 2 /\ Cardinality(Places(a)') >= 2
         => \E j \in DOMAIN join : join[j].by = a /\ join[j].adding /\ ~join'[j].adding
      ]_memberVars

\* An invitation or a join request that is settled stays as it is, although the
\* answer of a model can arrive after it was settled by the player, by the cutoff
\* or by a leave (the checks of "pending" after the waits).
SettledOnce ==
    [][/\ \A i \in DOMAIN invite : invite[i].st # "pending" => invite'[i].st = invite[i].st
       /\ \A j \in DOMAIN join : join[j].st # "pending" => join'[j].st = join[j].st
      ]_memberVars

\* An open conversation whose last segment has ended has a join, a leave or a
\* closing under way that will start the next segment or close it, also when the
\* join or the leave that ended it raises; only a restart takes that away.
SegmentOwned(c) ==
    talk[c].open /\ ~talk[c].runs =>
        \/ \E j \in DOMAIN join : join[j].to = c /\ join[j].adding
        \/ \E n \in NPCs : <<c, n>> \in parting
        \/ \E d \in Days : ending[d].at # "none" /\ ending[d].on = c

SegmentLostOnlyByRestart ==
    [][\A c \in DOMAIN talk : SegmentOwned(c) /\ ~SegmentOwned(c)' => left'.restart < left.restart
      ]_memberVars

\* No actor is in two open conversations.
OneConversationEach == \A a \in Actors : Cardinality(Places(a)) <= 1

\* Whoever joins a conversation was accepted by all its participants.
JoinedByConsent ==
    [][\A c \in DOMAIN talk : \A a \in talk'[c].parts \ talk[c].parts :
         \E j \in DOMAIN join : join[j].to = c /\ join[j].by = a /\ talk[c].parts \subseteq join[j].asked
      ]_memberVars
=============================================================================
