------------------------------- MODULE NpcAgent -------------------------------
(***************************************************************************)
(* One NPC agent and the model behind it: the graph of an invocation       *)
(* (agents/runtime.py), the structured call with its one retry and its     *)
(* fallback (ai/decision_service.py), and the provider client with its     *)
(* retry and counters (ai/ark_client.py).                                  *)
(*                                                                         *)
(* A task runs one invocation: a daily thought, an invitation, a chat      *)
(* decision on a message (the trigger), or a speech.  A chat decision may  *)
(* ask for private memories first; the graph then recalls them and decides *)
(* again, at most once per trigger.  All tasks of the process share the    *)
(* slots of _model_semaphore, held only while the provider is asked.  Chat *)
(* decisions and speeches are given up after a timeout, wherever they are. *)
(* What the decisions contain, traces and prompts are left out.            *)
(***************************************************************************)
EXTENDS Integers, FiniteSets

CONSTANTS Tasks,           \* asyncio tasks that invoke the agent
          Triggers,        \* messages a chat decision may be about
          NoTrigger,       \* a decision that is about no message
          MaxConcurrency,  \* DecisionService.max_concurrency
          MaxInvocations   \* bound

ASSUME AgentAssumption ==
    /\ NoTrigger \notin Triggers
    /\ IsFiniteSet(Tasks)
    /\ MaxConcurrency \in Nat \ {0} /\ MaxInvocations \in Nat

VARIABLES
    task,      \* where each task is
    slots,     \* free slots of _model_semaphore
    recalled,  \* agent._recalled_triggers
    count,     \* _provider_attempts, _provider_retries, _completed_requests,
               \* _failed_requests; history: lost to a timeout
    searched,  \* history: searches of the memory tool for each trigger
    cut,       \* history: those whose invocation did not get to its end
    invoked    \* invocations so far

agentVars == <<task, slots, recalled, count, searched, cut, invoked>>

Idle0 == [at |-> "idle", kind |-> "none", key |-> NoTrigger, decision |-> 0, try |-> 0,
          again |-> FALSE, used |-> FALSE, tool |-> FALSE, sent |-> 0]

InFlight == {t \in Tasks : task[t].at = "sent"}

-----------------------------------------------------------------------------
(* Invocations *)

\* NPCAgentRuntime._invoke up to the first decision, and generate_speech; rounds of
\* a conversation follow each other, so no two tasks decide about one message
Invoke(t, kind, key) ==
    /\ task[t].at = "idle" /\ invoked < MaxInvocations
    /\ kind # "chat" => key = NoTrigger
    /\ key # NoTrigger => \A u \in Tasks : task[u].key # key
    /\ task' = [task EXCEPT ![t] =
         [Idle0 EXCEPT !.at = "queued", !.kind = kind, !.key = key, !.decision = 1,
                       !.try = 1, !.used = key \in recalled]]
    /\ invoked' = invoked + 1
    /\ UNCHANGED <<slots, recalled, count, searched, cut>>

\* Mutants (here and below, each before the operator it changes): what the
\* operator would be with a plausible bug in the code it stands for; they are
\* used by no definition of the specification.
ReturnedUnmarked(t) ==
    /\ task' = [task EXCEPT ![t] = Idle0]
    /\ UNCHANGED recalled

\* the result of the graph: mark_recall_used_for when the tool ran
Returned(t) ==
    /\ task' = [task EXCEPT ![t] = Idle0]
    /\ recalled' = IF task[t].tool THEN recalled \cup ({task[t].key} \ {NoTrigger})
                   ELSE recalled

\* the next structured call: chat_after_recall, or the corrected speech
DecidesAgain(t) ==
    task' = [task EXCEPT ![t].at = "queued", ![t].decision = 2, ![t].try = 1]

-----------------------------------------------------------------------------
(* ArkClient.generate inside a slot of DecisionService._call *)

Counted(k) == count' = [count EXCEPT ![k] = @ + 1]

Asks(t) ==
    /\ task[t].at = "queued" /\ slots > 0
    /\ slots' = slots - 1
    /\ Counted("attempts")
    /\ task' = [task EXCEPT ![t].at = "sent", ![t].again = FALSE, ![t].sent = @ + 1]
    /\ UNCHANGED <<recalled, searched, cut, invoked>>

\* the client retries once what is worth retrying (_map_provider_error)
AsksAgain(t) ==
    /\ task[t].at = "sent" /\ ~task[t].again
    /\ count' = [count EXCEPT !.attempts = @ + 1, !.retries = @ + 1]
    /\ task' = [task EXCEPT ![t].again = TRUE, ![t].sent = @ + 1]
    /\ UNCHANGED <<slots, recalled, searched, cut, invoked>>

\* the attempts of the structured call are used up: the protocol's fallback, a
\* decision to wait or to refuse, or no speech
TriesAgain(t) ==
    IF task[t].try = 1
    THEN /\ task' = [task EXCEPT ![t].at = "queued", ![t].try = 2]
         /\ UNCHANGED recalled
    ELSE Returned(t)

\* an error that the structured call does not retry
Refused(t) ==
    /\ task[t].at = "sent"
    /\ slots' = slots + 1 /\ Counted("failed")
    /\ Returned(t)
    /\ UNCHANGED <<searched, cut, invoked>>

UnusableUncounted(t) ==
    /\ task[t].at = "sent"
    /\ slots' = slots + 1 /\ UNCHANGED count
    /\ TriesAgain(t)
    /\ UNCHANGED <<searched, cut, invoked>>

\* an empty or invalid response (_parse_response, or an odd status)
Unusable(t) ==
    /\ task[t].at = "sent"
    /\ slots' = slots + 1 /\ Counted("failed")
    /\ TriesAgain(t)
    /\ UNCHANGED <<searched, cut, invoked>>

\* a text that is no object of the protocol's schema
Malformed(t) ==
    /\ task[t].at = "sent"
    /\ slots' = slots + 1 /\ Counted("completed")
    /\ TriesAgain(t)
    /\ UNCHANGED <<searched, cut, invoked>>

Answered(t) ==
    /\ task[t].at = "sent"
    /\ slots' = slots + 1 /\ Counted("completed")
    /\ UNCHANGED <<cut, invoked>>

-----------------------------------------------------------------------------
(* The graph *)

\* a decision, or a speech to actors who are present
Answers(t) == Answered(t) /\ Returned(t) /\ UNCHANGED searched

\* _chat_route: retrieve_owned_memories, the first time
Recalls(t) ==
    /\ task[t].kind = "chat" /\ task[t].decision = 1 /\ ~task[t].used
    /\ Answered(t)
    /\ task' = [task EXCEPT ![t].at = "tool", ![t].used = TRUE, ![t].tool = TRUE]
    /\ searched' = IF task[t].key = NoTrigger THEN searched
                   ELSE [searched EXCEPT ![task[t].key] = @ + 1]
    /\ UNCHANGED recalled

\* asked for memories again: safe_wait
AsksTooOften(t) ==
    /\ task[t].kind = "chat" /\ task[t].used
    /\ Answered(t) /\ Returned(t) /\ UNCHANGED searched

\* _recall_route: nothing found or an error, safe_wait
FindsNothing(t) ==
    /\ task[t].at = "tool"
    /\ Returned(t)
    /\ UNCHANGED <<slots, count, searched, cut, invoked>>

FindsMemories(t) ==
    /\ task[t].at = "tool"
    /\ DecidesAgain(t)
    /\ UNCHANGED <<slots, recalled, count, searched, cut, invoked>>

\* a speech to someone who is not there (_generate_one_speech): once more, or none
SpeaksToAbsent(t) ==
    /\ task[t].kind = "speech"
    /\ Answered(t)
    /\ IF task[t].decision = 1 THEN DecidesAgain(t) /\ UNCHANGED recalled ELSE Returned(t)
    /\ UNCHANGED searched

\* the invocation goes no further: what it searched for is not marked
CutOff(t) ==
    /\ task' = [task EXCEPT ![t] = Idle0]
    /\ cut' = IF task[t].tool /\ task[t].key # NoTrigger
              THEN [cut EXCEPT ![task[t].key] = @ + 1] ELSE cut
    /\ UNCHANGED <<recalled, searched, invoked>>

\* an exception of a node, such as the tool's prompt builder, is a fallback decision
GraphRaises(t) ==
    /\ task[t].at = "tool"
    /\ CutOff(t)
    /\ UNCHANGED <<slots, count>>

\* asyncio.wait_for of _invoke_chat_decision and _generate_one_speech cancels it
TimedOut(t) ==
    /\ task[t].at # "idle" /\ task[t].kind \in {"chat", "speech"}
    /\ CutOff(t)
    /\ IF task[t].at = "sent" THEN slots' = slots + 1 /\ Counted("lost")
       ELSE UNCHANGED <<slots, count>>

AgentInit ==
    /\ task = [t \in Tasks |-> Idle0]
    /\ slots = MaxConcurrency /\ recalled = {}
    /\ count = [attempts |-> 0, retries |-> 0, completed |-> 0, failed |-> 0, lost |-> 0]
    /\ searched = [k \in Triggers |-> 0] /\ cut = [k \in Triggers |-> 0]
    /\ invoked = 0

AgentNext ==
    \E t \in Tasks :
        \/ \E kind \in {"daily", "invitation", "chat", "speech"},
              key \in Triggers \cup {NoTrigger} : Invoke(t, kind, key)
        \/ Asks(t) \/ AsksAgain(t) \/ Refused(t) \/ Unusable(t) \/ Malformed(t)
        \/ Answers(t) \/ Recalls(t) \/ AsksTooOften(t) \/ FindsNothing(t)
        \/ FindsMemories(t) \/ SpeaksToAbsent(t) \/ GraphRaises(t) \/ TimedOut(t)

AgentSpec == AgentInit /\ [][AgentNext]_agentVars

-----------------------------------------------------------------------------
(* Properties *)

\* The type invariant.
AgentTypeOK ==
    /\ task \in [Tasks -> [at : {"idle", "queued", "sent", "tool"},
                           kind : {"none", "daily", "invitation", "chat", "speech"},
                           key : Triggers \cup {NoTrigger}, decision : 0..2, try : 0..2,
                           again : BOOLEAN, used : BOOLEAN, tool : BOOLEAN, sent : Nat]]
    /\ slots \in 0..MaxConcurrency /\ recalled \subseteq Triggers
    /\ count \in [{"attempts", "retries", "completed", "failed", "lost"} -> Nat]
    /\ searched \in [Triggers -> Nat] /\ cut \in [Triggers -> Nat]
    /\ invoked \in 0..MaxInvocations

\* An NPC searches its memories once for a message, however often it decides about
\* it (_recalled_triggers), except that a decision cut off after its search does not
\* count: the timeout of a round that is run again buys a second search.
RecalledOnce == \A k \in Triggers : searched[k] <= 1 + cut[k]

\* No slot of the model is lost or gained and every attempt is accounted for, through
\* retries on two levels, unusable answers and timeouts (a timed-out attempt is
\* in no counter of metrics_snapshot); and the two levels of retries, the recall
\* and the corrected speech multiply to at most eight requests.
RequestsAccounted ==
    /\ slots + Cardinality(InFlight) = MaxConcurrency
    /\ count.attempts = count.retries + count.completed + count.failed + count.lost
                        + Cardinality(InFlight)
    /\ \A t \in Tasks : task[t].sent <= IF task[t].kind \in {"chat", "speech"} THEN 8 ELSE 4
=============================================================================
