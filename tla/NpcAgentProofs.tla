---------------------------- MODULE NpcAgentProofs ----------------------------
(***************************************************************************)
(* Proofs about NpcAgent: its type invariant and its two safety            *)
(* properties, for any tasks, triggers and values of the bounds.           *)
(*                                                                         *)
(* Neither property is inductive.  Progress relates the requests of a task *)
(* to how far it is in its two levels of retries and two decisions;        *)
(* Searches tells, for a trigger, who has searched for it: at most one     *)
(* task decides about it, and one that has searched is noted as soon as    *)
(* its invocation ends.                                                    *)
(***************************************************************************)
EXTENDS NpcAgent, FiniteSetTheorems, TLAPS

Kinds == {"none", "daily", "invitation", "chat", "speech"}
Records == [at : {"idle", "queued", "sent", "tool"}, kind : Kinds,
            key : Triggers \cup {NoTrigger}, decision : 0..2, try : 0..2,
            again : BOOLEAN, used : BOOLEAN, tool : BOOLEAN, sent : Nat]
Counters == {"attempts", "retries", "completed", "failed", "lost"}

-----------------------------------------------------------------------------
(* Types *)

LEMMA IdleType == Idle0 \in Records
  BY DEF Idle0, Records, Kinds

LEMMA InitType == AgentInit => AgentTypeOK
<1> SUFFICES ASSUME AgentInit
             PROVE  AgentTypeOK
  OBVIOUS
<1>1. task \in [Tasks -> Records]  BY IdleType DEF AgentInit
<1>2. slots \in 0..MaxConcurrency /\ 0 \in 0..MaxInvocations
  BY AgentAssumption DEF AgentInit
<1>3. count \in [{"attempts", "retries", "completed", "failed", "lost"} -> Nat]
  BY DEF AgentInit
<1> QED  BY <1>1, <1>2, <1>3 DEF AgentInit, AgentTypeOK, Records, Kinds

\* The set of tasks' records, with the type of each field by its name only.
LEMMA RecordFields ==
    \E A, K, T, D, B, N :
        /\ A = {"idle", "queued", "sent", "tool"} /\ K = Kinds
        /\ T = Triggers \cup {NoTrigger} /\ D = 0..2 /\ B = BOOLEAN /\ N = Nat
        /\ Records = [at : A, kind : K, key : T, decision : D, try : D, again : B, used : B,
                      tool : B, sent : N]
  BY DEF Records

\* What the nodes of the graph change of a task's record.
LEMMA RecordOperators ==
  ASSUME NEW r \in Records
  PROVE  /\ [r EXCEPT !.at = "sent", !.again = FALSE, !.sent = @ + 1] \in Records
         /\ [r EXCEPT !.again = TRUE, !.sent = @ + 1] \in Records
         /\ [r EXCEPT !.at = "queued", !.try = 2] \in Records
         /\ [r EXCEPT !.at = "queued", !.decision = 2, !.try = 1] \in Records
         /\ [r EXCEPT !.at = "tool", !.used = TRUE, !.tool = TRUE] \in Records
         /\ \A kind \in Kinds, key \in Triggers \cup {NoTrigger}, b \in BOOLEAN :
              [r EXCEPT !.at = "queued", !.kind = kind, !.key = key, !.decision = 1,
                        !.try = 1, !.used = b] \in Records
<1>1. PICK A, K, T, D, B, N :
        /\ A = {"idle", "queued", "sent", "tool"} /\ K = Kinds
        /\ T = Triggers \cup {NoTrigger} /\ D = 0..2 /\ B = BOOLEAN /\ N = Nat
        /\ Records = [at : A, kind : K, key : T, decision : D, try : D, again : B, used : B,
                      tool : B, sent : N]
  BY RecordFields
<1>2. /\ "sent" \in A /\ "queued" \in A /\ "tool" \in A /\ 1 \in D /\ 2 \in D
      /\ r.sent + 1 \in N
  BY <1>1
<1>3. TRUE \in B /\ FALSE \in B  BY <1>1, Zenon
<1>4. [r EXCEPT !.at = "sent", !.again = FALSE, !.sent = @ + 1] \in Records
  BY ONLY <1>1, <1>2, <1>3, r \in Records
<1>5. [r EXCEPT !.again = TRUE, !.sent = @ + 1] \in Records
  BY ONLY <1>1, <1>2, <1>3, r \in Records
<1>6. [r EXCEPT !.at = "queued", !.try = 2] \in Records
  BY ONLY <1>1, <1>2, r \in Records
<1>7. [r EXCEPT !.at = "queued", !.decision = 2, !.try = 1] \in Records
  BY ONLY <1>1, <1>2, r \in Records
<1>8. [r EXCEPT !.at = "tool", !.used = TRUE, !.tool = TRUE] \in Records
  BY ONLY <1>1, <1>2, <1>3, r \in Records
<1>9. ASSUME NEW kind \in K, NEW key \in T, NEW b \in B
      PROVE  [r EXCEPT !.at = "queued", !.kind = kind, !.key = key, !.decision = 1,
                       !.try = 1, !.used = b] \in Records
  BY ONLY <1>1, <1>2, kind \in K, key \in T, b \in B, r \in Records
<1>10. ASSUME NEW kind \in Kinds, NEW key \in Triggers \cup {NoTrigger}, NEW b \in BOOLEAN
       PROVE  [r EXCEPT !.at = "queued", !.kind = kind, !.key = key, !.decision = 1,
                        !.try = 1, !.used = b] \in Records
  <2>1. kind \in K /\ key \in T /\ b \in B
    BY ONLY <1>1, kind \in Kinds, key \in Triggers \cup {NoTrigger}, b \in BOOLEAN, Zenon
  <2> QED  BY ONLY <1>9, <2>1, Zenon
<1> QED  BY ONLY <1>4, <1>5, <1>6, <1>7, <1>8, <1>10, Zenon

\* What a step does to one task: the others stay as they are.
Moves(t) ==
    /\ task' \in [Tasks -> Records]
    /\ \A u \in Tasks \ {t} : task'[u] = task[u]

LEMMA InvokeMoves ==
  ASSUME AgentTypeOK, NEW t \in Tasks, NEW kind \in Kinds,
         NEW key \in Triggers \cup {NoTrigger}, Invoke(t, kind, key)
  PROVE  /\ Moves(t)
         /\ task'[t].at = "queued" /\ task'[t].kind = kind /\ task'[t].key = key
         /\ task'[t].decision = 1 /\ task'[t].try = 1 /\ task'[t].sent = 0
         /\ task'[t].used <=> key \in recalled
         /\ ~task'[t].tool
<1>1. PICK b \in BOOLEAN : b <=> key \in recalled
  <2>1. CASE key \in recalled  BY <2>1, Zenon
  <2>2. CASE key \notin recalled  BY <2>2, Zenon
  <2> QED  BY <2>1, <2>2
<1> DEFINE q == [Idle0 EXCEPT !.at = "queued", !.kind = kind, !.key = key, !.decision = 1,
                              !.try = 1, !.used = b]
<1>2. q \in Records  BY IdleType, RecordOperators, Zenon
<1>3. /\ q.at = "queued" /\ q.kind = kind /\ q.key = key
      /\ q.decision = 1 /\ q.try = 1 /\ q.sent = 0
      /\ q.used = b /\ q.tool = FALSE
  BY DEF Idle0
<1>4. task' = [task EXCEPT ![t] = q]
  BY ONLY <1>1, Invoke(t, kind, key), Zenon DEF Invoke
<1>5. task \in [Tasks -> Records]
  BY DEF AgentTypeOK, Records, Kinds
<1> HIDE DEF q
<1>6. task'[t] = q /\ Moves(t)  BY <1>2, <1>4, <1>5 DEF Moves
<1> QED  BY <1>1, <1>3, <1>6

\* A request goes out.
LEMMA AsksMoves ==
  ASSUME AgentTypeOK, NEW t \in Tasks,
         task' = [task EXCEPT ![t].at = "sent", ![t].again = FALSE, ![t].sent = @ + 1]
  PROVE  /\ Moves(t)
         /\ task'[t] = [task[t] EXCEPT !.at = "sent", !.again = FALSE, !.sent = @ + 1]
<1>1. task \in [Tasks -> Records]  BY DEF AgentTypeOK, Records, Kinds
<1>2. task'[t] = [task[t] EXCEPT !.at = "sent", !.again = FALSE, !.sent = @ + 1]
  BY <1>1
<1>3. task'[t] \in Records  BY <1>1, <1>2, RecordOperators
<1> QED  BY <1>1, <1>2, <1>3 DEF Moves

LEMMA AsksAgainMoves ==
  ASSUME AgentTypeOK, NEW t \in Tasks, AsksAgain(t)
  PROVE  /\ Moves(t)
         /\ task'[t] = [task[t] EXCEPT !.again = TRUE, !.sent = @ + 1]
<1>1. task \in [Tasks -> Records]  BY DEF AgentTypeOK, Records, Kinds
<1>2. task'[t] = [task[t] EXCEPT !.again = TRUE, !.sent = @ + 1]
  BY <1>1 DEF AsksAgain
<1>3. task'[t] \in Records  BY <1>1, <1>2, RecordOperators
<1> QED  BY <1>1, <1>2, <1>3 DEF Moves, AsksAgain

\* The second try of a structured call, and the second decision.
LEMMA QueuedMoves ==
  ASSUME AgentTypeOK, NEW t \in Tasks,
         \/ task' = [task EXCEPT ![t].at = "queued", ![t].try = 2]
         \/ DecidesAgain(t)
  PROVE  /\ Moves(t)
         /\ \/ task'[t] = [task[t] EXCEPT !.at = "queued", !.try = 2]
            \/ task'[t] = [task[t] EXCEPT !.at = "queued", !.decision = 2, !.try = 1]
<1>1. task \in [Tasks -> Records]  BY DEF AgentTypeOK, Records, Kinds
<1>2. \/ task'[t] = [task[t] EXCEPT !.at = "queued", !.try = 2]
      \/ task'[t] = [task[t] EXCEPT !.at = "queued", !.decision = 2, !.try = 1]
  BY <1>1 DEF DecidesAgain
<1>3. task'[t] \in Records  BY <1>1, <1>2, RecordOperators
<1> QED  BY <1>1, <1>2, <1>3 DEF Moves, DecidesAgain

LEMMA RecallsMoves ==
  ASSUME AgentTypeOK, NEW t \in Tasks, Recalls(t)
  PROVE  /\ Moves(t)
         /\ task'[t] = [task[t] EXCEPT !.at = "tool", !.used = TRUE, !.tool = TRUE]
<1>1. task \in [Tasks -> Records]  BY DEF AgentTypeOK, Records, Kinds
<1>2. task' = [task EXCEPT ![t].at = "tool", ![t].used = TRUE, ![t].tool = TRUE]
  BY DEF Recalls
<1>3. task'[t] = [task[t] EXCEPT !.at = "tool", !.used = TRUE, !.tool = TRUE]
  BY <1>1, <1>2
<1>4. task'[t] \in Records  BY <1>1, <1>3, RecordOperators
<1> QED  BY <1>1, <1>2, <1>3, <1>4 DEF Moves

\* The end of an invocation.
LEMMA IdleMoves ==
  ASSUME AgentTypeOK, NEW t \in Tasks, task' = [task EXCEPT ![t] = Idle0]
  PROVE  Moves(t) /\ task'[t] = Idle0
  BY IdleType DEF AgentTypeOK, Records, Kinds, Moves

-----------------------------------------------------------------------------
(* The shapes of the steps *)

\* The steps in which a request ends: the slot is given back, the request counted, and
\* the invocation is over, tries again, or speaks again.
Responded(t) ==
    /\ task[t].at = "sent" /\ slots' = slots + 1
    /\ Counted("completed") \/ Counted("failed")
    /\ UNCHANGED <<searched, cut, invoked>>
    /\ \/ Returned(t)
       \/ /\ task[t].try = 1 /\ UNCHANGED recalled
          /\ task' = [task EXCEPT ![t].at = "queued", ![t].try = 2]
       \/ /\ task[t].kind = "speech" /\ task[t].decision = 1 /\ UNCHANGED recalled
          /\ DecidesAgain(t)

\* The steps in which an invocation goes no further.
CutShort(t) ==
    /\ CutOff(t)
    /\ IF task[t].at = "sent" THEN slots' = slots + 1 /\ Counted("lost")
       ELSE UNCHANGED <<slots, count>>

LEMMA Shapes ==
  ASSUME NEW t \in Tasks
  PROVE  /\ \/ Refused(t) \/ Unusable(t) \/ Malformed(t) \/ Answers(t) \/ AsksTooOften(t)
            \/ SpeaksToAbsent(t)
            => Responded(t)
         /\ GraphRaises(t) \/ TimedOut(t) => CutShort(t)
<1>1. Refused(t) => Responded(t)  BY DEF Refused, Responded
<1>2. Unusable(t) => Responded(t)  BY DEF Unusable, TriesAgain, Responded
<1>3. Malformed(t) => Responded(t)  BY DEF Malformed, TriesAgain, Responded
<1>4. Answers(t) => Responded(t)  BY DEF Answers, Answered, Responded
<1>5. AsksTooOften(t) => Responded(t)  BY DEF AsksTooOften, Answered, Responded
<1>6. SpeaksToAbsent(t) => Responded(t)  BY DEF SpeaksToAbsent, Answered, Responded
<1>7. GraphRaises(t) => CutShort(t)  BY DEF GraphRaises, CutShort
<1>8. TimedOut(t) => CutShort(t)  BY DEF TimedOut, CutShort
<1> QED  BY <1>1, <1>2, <1>3, <1>4, <1>5, <1>6, <1>7, <1>8

-----------------------------------------------------------------------------
(* The requests *)

\* How many requests a task may have sent, where it is.
Progress(r) ==
    /\ r.at = "idle" => r.sent = 0 /\ r.key = NoTrigger
    /\ r.at # "idle" => r.decision \in {1, 2} /\ r.try \in {1, 2}
    /\ r.decision = 2 => r.kind \in {"chat", "speech"}
    /\ r.at = "queued" => r.sent <= 4 * (r.decision - 1) + 2 * (r.try - 1)
    /\ r.at = "sent" => r.sent <= 4 * (r.decision - 1) + 2 * (r.try - 1)
                                 + (IF r.again THEN 2 ELSE 1)
    /\ r.at = "tool" => r.sent <= 4 /\ r.decision = 1 /\ r.kind = "chat"

Flow ==
    /\ slots + Cardinality(InFlight) = MaxConcurrency
    /\ count.attempts = count.retries + count.completed + count.failed + count.lost
                        + Cardinality(InFlight)

LEMMA IdleProgress == Idle0.at = "idle" /\ Progress(Idle0)
  BY DEF Idle0, Progress

LEMMA TryAgainProgress ==
  ASSUME NEW r \in Records, Progress(r), r.at = "sent", r.try = 1
  PROVE  Progress([r EXCEPT !.at = "queued", !.try = 2])
<1> DEFINE q == [r EXCEPT !.at = "queued", !.try = 2]
<1>1. /\ q.at = "queued" /\ q.try = 2 /\ q.sent = r.sent /\ q.decision = r.decision
      /\ q.kind = r.kind
  BY DEF Records
<1>2. r.sent \in Nat /\ r.decision \in {1, 2}  BY DEF Records, Progress
<1>3. r.sent <= 4 * (r.decision - 1) + 2  BY <1>2 DEF Progress
<1> HIDE DEF q
<1>4. Progress(q)  BY <1>1, <1>2, <1>3 DEF Progress
<1> QED  BY <1>4 DEF q

LEMMA DecideAgainProgress ==
  ASSUME NEW r \in Records, Progress(r), r.at \in {"sent", "tool"}, r.decision = 1,
         r.kind \in {"chat", "speech"}
  PROVE  Progress([r EXCEPT !.at = "queued", !.decision = 2, !.try = 1])
<1> DEFINE q == [r EXCEPT !.at = "queued", !.decision = 2, !.try = 1]
<1>1. /\ q.at = "queued" /\ q.try = 1 /\ q.sent = r.sent /\ q.decision = 2
      /\ q.kind = r.kind
  BY DEF Records
<1>2. r.sent \in Nat /\ r.try \in {1, 2}  BY DEF Records, Progress
<1>3. r.sent <= 4  BY <1>2 DEF Progress
<1> HIDE DEF q
<1>4. Progress(q)  BY <1>1, <1>2, <1>3 DEF Progress
<1> QED  BY <1>4 DEF q

\* The attempts that no counter has the outcome of.
Unanswered(c) == c.attempts - c.retries - c.completed - c.failed - c.lost

AgentInv == AgentTypeOK /\ Flow /\ \A t \in Tasks : Progress(task[t])

LEMMA Counts ==
  ASSUME NEW c \in [Counters -> Nat]
  PROVE  /\ [c EXCEPT !["attempts"] = @ + 1] \in [Counters -> Nat]
         /\ Unanswered([c EXCEPT !["attempts"] = @ + 1]) = Unanswered(c) + 1
         /\ [c EXCEPT !.attempts = @ + 1, !.retries = @ + 1] \in [Counters -> Nat]
         /\ Unanswered([c EXCEPT !.attempts = @ + 1, !.retries = @ + 1]) = Unanswered(c)
         /\ \A k \in {"completed", "failed", "lost"} :
              /\ [c EXCEPT ![k] = @ + 1] \in [Counters -> Nat]
              /\ Unanswered([c EXCEPT ![k] = @ + 1]) = Unanswered(c) - 1
<1>1. /\ c.attempts \in Nat /\ c.retries \in Nat /\ c.completed \in Nat
      /\ c.failed \in Nat /\ c.lost \in Nat
  BY DEF Counters
<1>2. \A k \in Counters : [c EXCEPT ![k] = @ + 1] \in [Counters -> Nat]
  OBVIOUS
<1>3. Unanswered([c EXCEPT !["attempts"] = @ + 1]) = Unanswered(c) + 1
  BY <1>1 DEF Unanswered, Counters
<1> DEFINE e == [c EXCEPT !["attempts"] = @ + 1]
           d == [c EXCEPT !.attempts = @ + 1, !.retries = @ + 1]
<1>4. "attempts" \in Counters /\ "retries" \in Counters  BY DEF Counters
<1>5. e \in [Counters -> Nat]  BY <1>2, <1>4
<1>6. d \in [Counters -> Nat] /\ Unanswered(d) = Unanswered(c)
  <2>1. /\ e.attempts = c.attempts + 1 /\ e.retries = c.retries
        /\ e.completed = c.completed /\ e.failed = c.failed /\ e.lost = c.lost
    BY <1>1 DEF Counters
  <2>4. d = [e EXCEPT !["retries"] = @ + 1]  BY <1>4
  <2> HIDE DEF e, d
  <2>2. d \in [Counters -> Nat]  BY <1>1, <1>4, <1>5, <2>4
  <2>3. /\ d.attempts = c.attempts + 1 /\ d.retries = c.retries + 1
        /\ d.completed = c.completed /\ d.failed = c.failed /\ d.lost = c.lost
    BY <1>5, <2>1, <2>4 DEF Counters
  <2> QED  BY <1>1, <2>2, <2>3 DEF Unanswered
<1>7. ASSUME NEW k \in {"completed", "failed", "lost"}
      PROVE  Unanswered([c EXCEPT ![k] = @ + 1]) = Unanswered(c) - 1
  BY <1>1 DEF Unanswered, Counters
<1> QED  BY <1>2, <1>3, <1>6, <1>7 DEF Counters

\* The requests under way change with the one task that moves.
LEMMA InFlightMoves ==
  ASSUME AgentTypeOK, NEW t \in Tasks, Moves(t)
  PROVE  /\ Cardinality(InFlight) \in Nat
         /\ task[t].at = "sent" => Cardinality(InFlight) > 0
         /\ Cardinality(InFlight') =
              Cardinality(InFlight) + (IF task'[t].at = "sent" THEN 1 ELSE 0)
                                    - (IF task[t].at = "sent" THEN 1 ELSE 0)
<1> DEFINE Rest == InFlight \ {t}
<1>1. IsFiniteSet(InFlight)  BY AgentAssumption, FS_Subset DEF InFlight
<1>2. IsFiniteSet(Rest) /\ t \notin Rest /\ Cardinality(Rest) \in Nat
  BY <1>1, FS_Subset, FS_CardinalityType
<1>3. Cardinality(Rest \cup {t}) = Cardinality(Rest) + 1
  BY <1>2, FS_AddElement
<1>4. InFlight = IF task[t].at = "sent" THEN Rest \cup {t} ELSE Rest
  BY DEF InFlight
<1>5. InFlight' = IF task'[t].at = "sent" THEN Rest \cup {t} ELSE Rest
  BY DEF InFlight, Moves
<1> HIDE DEF Rest
<1> QED  BY <1>2, <1>3, <1>4, <1>5

LEMMA InitInv == AgentInit => AgentInv
<1> SUFFICES ASSUME AgentInit
             PROVE  AgentInv
  OBVIOUS
<1>1. InFlight = {}  BY DEF AgentInit, InFlight, Idle0
<1>2. Cardinality({}) = 0  BY FS_EmptySet
<1>3. Flow  BY <1>1, <1>2, AgentAssumption DEF AgentInit, Flow
<1>4. \A t \in Tasks : Progress(task[t])  BY DEF AgentInit, Idle0, Progress
<1> QED  BY InitType, <1>3, <1>4 DEF AgentInv

\* A step of one task keeps the invariant when it accounts for what it does with the slot
\* and keeps its own progress.
LEMMA MovesKeepInv ==
  ASSUME AgentInv, NEW t \in Tasks, Moves(t), Progress(task'[t]),
         recalled' \subseteq Triggers, invoked' \in 0..MaxInvocations,
         searched' \in [Triggers -> Nat], cut' \in [Triggers -> Nat],
         count' \in [Counters -> Nat],
         slots' = slots + (IF task[t].at = "sent" THEN 1 ELSE 0)
                        - (IF task'[t].at = "sent" THEN 1 ELSE 0),
         slots' >= 0,
         Unanswered(count') = Unanswered(count)
                              + (IF task'[t].at = "sent" THEN 1 ELSE 0)
                              - (IF task[t].at = "sent" THEN 1 ELSE 0)
  PROVE  AgentInv'
<1>1. /\ AgentTypeOK /\ slots \in 0..MaxConcurrency /\ MaxConcurrency \in Nat
      /\ count \in [Counters -> Nat]
  BY AgentAssumption DEF AgentInv, AgentTypeOK, Counters
<1>2. /\ Cardinality(InFlight) \in Nat
      /\ Cardinality(InFlight') =
           Cardinality(InFlight) + (IF task'[t].at = "sent" THEN 1 ELSE 0)
                                 - (IF task[t].at = "sent" THEN 1 ELSE 0)
      /\ task[t].at = "sent" => Cardinality(InFlight) > 0
  BY <1>1, InFlightMoves
<1>3. slots' + Cardinality(InFlight') = MaxConcurrency /\ slots' \in 0..MaxConcurrency
  <2>1. PICK a \in 0..1, b \in 0..1 :
          /\ a = (IF task[t].at = "sent" THEN 1 ELSE 0)
          /\ b = (IF task'[t].at = "sent" THEN 1 ELSE 0)
    OBVIOUS
  <2>2. PICK n \in Nat : n = Cardinality(InFlight)
    BY <1>2
  <2>3. slots + n = MaxConcurrency  BY <2>2 DEF AgentInv, Flow
  <2>4. Cardinality(InFlight') = n + b - a /\ n >= a  BY <1>2, <2>1, <2>2
  <2>5. slots' = slots + a - b  BY <2>1
  <2>6. slots' + Cardinality(InFlight') = MaxConcurrency
    BY ONLY <1>1, <2>3, <2>4, <2>5, n \in Nat, a \in 0..1, b \in 0..1
  <2>7. slots' \in 0..MaxConcurrency
    BY ONLY <1>1, <2>3, <2>4, <2>5, n \in Nat, a \in 0..1, b \in 0..1, slots' >= 0
  <2> QED  BY <2>6, <2>7
<1>4. count'.attempts = count'.retries + count'.completed + count'.failed + count'.lost
                        + Cardinality(InFlight')
  <2>1. Unanswered(count) = Cardinality(InFlight)
    BY <1>1, <1>2 DEF AgentInv, Flow, Counters, Unanswered
  <2>2. Unanswered(count') = Cardinality(InFlight')
    BY <1>2, <2>1
  <2>3. Cardinality(InFlight') \in Int  BY <1>2
  <2> QED  BY <2>2, <2>3 DEF Counters, Unanswered
<1>5. AgentTypeOK'
  BY <1>3 DEF AgentTypeOK, Moves, Records, Kinds, Counters
<1>6. \A u \in Tasks : Progress(task'[u])  BY DEF AgentInv, Moves
<1> QED  BY <1>3, <1>4, <1>5, <1>6 DEF AgentInv, Flow

LEMMA InvokeKeepsInv ==
  ASSUME AgentInv, NEW t \in Tasks, NEW kind \in {"daily", "invitation", "chat", "speech"},
         NEW key \in Triggers \cup {NoTrigger}, Invoke(t, kind, key)
  PROVE  AgentInv'
<1>1. /\ AgentTypeOK /\ task[t].at = "idle" /\ invoked < MaxInvocations
      /\ invoked' = invoked + 1 /\ UNCHANGED <<slots, recalled, count, searched, cut>>
  BY DEF AgentInv, Invoke
<1>2. /\ Moves(t) /\ task'[t].at = "queued" /\ task'[t].sent = 0
      /\ task'[t].decision = 1 /\ task'[t].try = 1
  BY <1>1, InvokeMoves DEF Kinds
<1>3. Progress(task'[t])  BY <1>2 DEF Progress
<1>4. /\ recalled \subseteq Triggers /\ invoked' \in 0..MaxInvocations
      /\ searched \in [Triggers -> Nat] /\ cut \in [Triggers -> Nat]
      /\ count \in [Counters -> Nat] /\ slots \in 0..MaxConcurrency
  BY <1>1, AgentAssumption DEF AgentTypeOK, Counters
<1>5. Unanswered(count) \in Int  BY <1>4 DEF Unanswered, Counters
<1> QED  BY <1>1, <1>2, <1>3, <1>4, <1>5, MovesKeepInv

LEMMA AsksKeepsInv ==
  ASSUME AgentInv, NEW t \in Tasks, Asks(t) \/ AsksAgain(t)
  PROVE  AgentInv'
<1>1. /\ AgentTypeOK /\ Progress(task[t]) /\ task[t] \in Records
      /\ count \in [Counters -> Nat] /\ slots \in 0..MaxConcurrency
      /\ recalled \subseteq Triggers /\ invoked \in 0..MaxInvocations
      /\ searched \in [Triggers -> Nat] /\ cut \in [Triggers -> Nat]
  BY DEF AgentInv, AgentTypeOK, Records, Kinds, Counters
<1>2. UNCHANGED <<recalled, searched, cut, invoked>>
  BY DEF Asks, AsksAgain
<1>3. CASE Asks(t)
  <2>1. Moves(t) /\ task'[t] = [task[t] EXCEPT !.at = "sent", !.again = FALSE, !.sent = @ + 1]
    BY <1>1, <1>3, AsksMoves DEF Asks
  <2>2. /\ task[t].at = "queued" /\ task'[t].at = "sent" /\ slots > 0 /\ slots' = slots - 1
        /\ count' = [count EXCEPT !["attempts"] = @ + 1]
    BY <1>1, <1>3, <2>1 DEF Asks, Counted, Records
  <2>3. Progress(task'[t])  BY <1>1, <2>1, <2>2 DEF Progress, Records
  <2>4. count' \in [Counters -> Nat] /\ Unanswered(count') = Unanswered(count) + 1
    BY <1>1, <2>2, Counts
  <2>5. Unanswered(count) \in Int  BY <1>1 DEF Unanswered, Counters
  <2>6. /\ slots' = slots + (IF task[t].at = "sent" THEN 1 ELSE 0)
                          - (IF task'[t].at = "sent" THEN 1 ELSE 0)
        /\ slots' >= 0
    BY <1>1, <2>2
  <2>7. Unanswered(count') = Unanswered(count)
                             + (IF task'[t].at = "sent" THEN 1 ELSE 0)
                             - (IF task[t].at = "sent" THEN 1 ELSE 0)
    BY <2>2, <2>4, <2>5
  <2>8. /\ recalled' \subseteq Triggers /\ invoked' \in 0..MaxInvocations
        /\ searched' \in [Triggers -> Nat] /\ cut' \in [Triggers -> Nat]
    BY <1>1, <1>2
  <2> QED
    BY ONLY AgentInv, t \in Tasks, <2>1, <2>3, <2>4, <2>6, <2>7, <2>8, MovesKeepInv
<1>4. CASE AsksAgain(t)
  <2>1. Moves(t) /\ task'[t] = [task[t] EXCEPT !.again = TRUE, !.sent = @ + 1]
    BY <1>1, <1>4, AsksAgainMoves
  <2>2. /\ task[t].at = "sent" /\ ~task[t].again /\ task'[t].at = "sent" /\ slots' = slots
        /\ count' = [count EXCEPT !.attempts = @ + 1, !.retries = @ + 1]
    BY <1>1, <1>4, <2>1 DEF AsksAgain, Records
  <2>3. Progress(task'[t])  BY <1>1, <2>1, <2>2 DEF Progress, Records
  <2>4. count' \in [Counters -> Nat] /\ Unanswered(count') = Unanswered(count)
    BY <1>1, <2>2, Counts
  <2>5. Unanswered(count) \in Int  BY <1>1 DEF Unanswered, Counters
  <2>6. /\ slots' = slots + (IF task[t].at = "sent" THEN 1 ELSE 0)
                          - (IF task'[t].at = "sent" THEN 1 ELSE 0)
        /\ slots' >= 0
    BY <1>1, <2>2
  <2>7. Unanswered(count') = Unanswered(count)
                             + (IF task'[t].at = "sent" THEN 1 ELSE 0)
                             - (IF task[t].at = "sent" THEN 1 ELSE 0)
    BY <2>2, <2>4, <2>5
  <2>8. /\ recalled' \subseteq Triggers /\ invoked' \in 0..MaxInvocations
        /\ searched' \in [Triggers -> Nat] /\ cut' \in [Triggers -> Nat]
    BY <1>1, <1>2
  <2> QED
    BY ONLY AgentInv, t \in Tasks, <2>1, <2>3, <2>4, <2>6, <2>7, <2>8, MovesKeepInv
<1> QED  BY <1>3, <1>4

LEMMA RespondedKeepsInv ==
  ASSUME AgentInv, NEW t \in Tasks, Responded(t)
  PROVE  AgentInv'
<1>1. /\ AgentTypeOK /\ Progress(task[t]) /\ task[t] \in Records
      /\ count \in [Counters -> Nat] /\ slots \in 0..MaxConcurrency
      /\ recalled \subseteq Triggers /\ invoked \in 0..MaxInvocations
      /\ searched \in [Triggers -> Nat] /\ cut \in [Triggers -> Nat]
  BY DEF AgentInv, AgentTypeOK, Records, Kinds, Counters
<1>2. task[t].at = "sent" /\ slots' = slots + 1 /\ UNCHANGED <<searched, cut, invoked>>
  BY DEF Responded
<1>3. count' \in [Counters -> Nat] /\ Unanswered(count') = Unanswered(count) - 1
  BY <1>1, Counts DEF Responded, Counted
<1>4. recalled' \subseteq Triggers
  BY <1>1 DEF Responded, Returned, Records
<1>5. Moves(t) /\ task'[t].at # "sent" /\ Progress(task'[t])
  <2>1. CASE Returned(t)
    BY <1>1, <2>1, IdleMoves, IdleProgress DEF Returned
  <2>2. CASE task[t].try = 1 /\ task' = [task EXCEPT ![t].at = "queued", ![t].try = 2]
    <3>1. Moves(t) /\ task'[t] = [task[t] EXCEPT !.at = "queued", !.try = 2]
      BY <1>1, <2>2, QueuedMoves DEF AgentTypeOK, Records, Kinds
    <3>2. task'[t].at = "queued"  BY <1>1, <3>1 DEF Records
    <3> QED  BY <1>1, <1>2, <2>2, <3>1, <3>2, TryAgainProgress
  <2>3. CASE task[t].kind = "speech" /\ task[t].decision = 1 /\ DecidesAgain(t)
    <3>1. Moves(t) /\ task'[t] = [task[t] EXCEPT !.at = "queued", !.decision = 2, !.try = 1]
      <4>1. Moves(t)  BY <1>1, <2>3, QueuedMoves
      <4> QED  BY <1>1, <2>3, <4>1 DEF DecidesAgain, AgentTypeOK, Records, Kinds
    <3>2. task'[t].at = "queued"  BY <1>1, <3>1 DEF Records
    <3> QED  BY <1>1, <1>2, <2>3, <3>1, <3>2, DecideAgainProgress
  <2> QED  BY <2>1, <2>2, <2>3 DEF Responded
<1>6. slots' = slots + (IF task[t].at = "sent" THEN 1 ELSE 0)
                     - (IF task'[t].at = "sent" THEN 1 ELSE 0)
      /\ slots' >= 0
  BY <1>1, <1>2, <1>5
<1>7. Unanswered(count') = Unanswered(count)
                           + (IF task'[t].at = "sent" THEN 1 ELSE 0)
                           - (IF task[t].at = "sent" THEN 1 ELSE 0)
  <2>1. Unanswered(count) \in Int  BY <1>1 DEF Unanswered, Counters
  <2> QED  BY <1>2, <1>3, <1>5, <2>1
<1>8. /\ invoked' \in 0..MaxInvocations
      /\ searched' \in [Triggers -> Nat] /\ cut' \in [Triggers -> Nat]
  BY <1>1, <1>2
<1> QED
  BY ONLY AgentInv, t \in Tasks, <1>3, <1>4, <1>5, <1>6, <1>7, <1>8, MovesKeepInv

LEMMA ToolKeepsInv ==
  ASSUME AgentInv, NEW t \in Tasks, Recalls(t) \/ FindsNothing(t) \/ FindsMemories(t)
  PROVE  AgentInv'
<1>1. /\ AgentTypeOK /\ Progress(task[t]) /\ task[t] \in Records
      /\ count \in [Counters -> Nat] /\ slots \in 0..MaxConcurrency
      /\ recalled \subseteq Triggers /\ invoked \in 0..MaxInvocations
      /\ searched \in [Triggers -> Nat] /\ cut \in [Triggers -> Nat]
  BY DEF AgentInv, AgentTypeOK, Records, Kinds, Counters
<1>2. Unanswered(count) \in Int  BY <1>1 DEF Unanswered, Counters
<1>3. CASE Recalls(t)
  <2>1. /\ Moves(t)
        /\ task'[t] = [task[t] EXCEPT !.at = "tool", !.used = TRUE, !.tool = TRUE]
    BY <1>1, <1>3, RecallsMoves
  <2>2. /\ task[t].at = "sent" /\ task[t].kind = "chat" /\ task[t].decision = 1
        /\ slots' = slots + 1 /\ UNCHANGED <<recalled, cut, invoked>>
        /\ count' = [count EXCEPT !["completed"] = @ + 1]
    BY <1>3 DEF Recalls, Answered, Counted
  <2>3. task'[t].at = "tool" /\ Progress(task'[t])
    BY <1>1, <2>1, <2>2 DEF Progress, Records
  <2>4. count' \in [Counters -> Nat] /\ Unanswered(count') = Unanswered(count) - 1
    BY <1>1, <2>2, Counts
  <2>5. searched' \in [Triggers -> Nat]
    BY <1>1, <1>3 DEF Recalls, Records
  <2>6. /\ slots' = slots + (IF task[t].at = "sent" THEN 1 ELSE 0)
                          - (IF task'[t].at = "sent" THEN 1 ELSE 0)
        /\ slots' >= 0
    BY <1>1, <2>2, <2>3
  <2>7. Unanswered(count') = Unanswered(count)
                             + (IF task'[t].at = "sent" THEN 1 ELSE 0)
                             - (IF task[t].at = "sent" THEN 1 ELSE 0)
    BY <1>2, <2>2, <2>3, <2>4
  <2>8. recalled' \subseteq Triggers /\ invoked' \in 0..MaxInvocations
        /\ cut' \in [Triggers -> Nat]
    BY <1>1, <2>2
  <2> QED
    BY ONLY AgentInv, t \in Tasks, <2>1, <2>3, <2>4, <2>5, <2>6, <2>7, <2>8, MovesKeepInv
<1>4. CASE FindsNothing(t) \/ FindsMemories(t)
  <2>1. task[t].at = "tool" /\ UNCHANGED <<slots, count, searched, cut, invoked>>
    BY <1>4 DEF FindsNothing, FindsMemories
  <2>2. recalled' \subseteq Triggers
    BY <1>1, <1>4 DEF FindsNothing, FindsMemories, Returned, Records
  <2>3. Moves(t) /\ task'[t].at # "sent" /\ Progress(task'[t])
    <3>1. CASE FindsNothing(t)
      BY <1>1, <3>1, IdleMoves, IdleProgress DEF FindsNothing, Returned
    <3>2. CASE FindsMemories(t)
      <4>1. Moves(t) /\ DecidesAgain(t)  BY <1>1, <3>2, QueuedMoves DEF FindsMemories
      <4>2. task'[t] = [task[t] EXCEPT !.at = "queued", !.decision = 2, !.try = 1]
        BY <1>1, <4>1 DEF DecidesAgain, AgentTypeOK, Records, Kinds
      <4>3. task'[t].at = "queued"  BY <1>1, <4>2 DEF Records
      <4>4. task[t].decision = 1 /\ task[t].kind = "chat"  BY <1>1, <2>1 DEF Progress
      <4> QED  BY <1>1, <2>1, <4>1, <4>2, <4>3, <4>4, DecideAgainProgress
    <3> QED  BY <1>4, <3>1, <3>2
  <2>4. /\ slots' = slots + (IF task[t].at = "sent" THEN 1 ELSE 0)
                          - (IF task'[t].at = "sent" THEN 1 ELSE 0)
        /\ slots' >= 0
    BY <1>1, <2>1, <2>3
  <2>5. Unanswered(count') = Unanswered(count)
                             + (IF task'[t].at = "sent" THEN 1 ELSE 0)
                             - (IF task[t].at = "sent" THEN 1 ELSE 0)
    BY <1>2, <2>1, <2>3
  <2>6. /\ count' \in [Counters -> Nat] /\ invoked' \in 0..MaxInvocations
        /\ searched' \in [Triggers -> Nat] /\ cut' \in [Triggers -> Nat]
    BY <1>1, <2>1
  <2> QED
    BY ONLY AgentInv, t \in Tasks, <2>2, <2>3, <2>4, <2>5, <2>6, MovesKeepInv
<1> QED  BY <1>3, <1>4

LEMMA CutShortKeepsInv ==
  ASSUME AgentInv, NEW t \in Tasks, CutShort(t)
  PROVE  AgentInv'
<1>1. /\ AgentTypeOK /\ task[t] \in Records
      /\ count \in [Counters -> Nat] /\ slots \in 0..MaxConcurrency
      /\ recalled \subseteq Triggers /\ invoked \in 0..MaxInvocations
      /\ searched \in [Triggers -> Nat] /\ cut \in [Triggers -> Nat]
  BY DEF AgentInv, AgentTypeOK, Records, Kinds, Counters
<1>2. Moves(t) /\ task'[t] = Idle0
  BY <1>1, IdleMoves DEF CutShort, CutOff
<1>3. task'[t].at = "idle" /\ Progress(task'[t])  BY <1>2, IdleProgress
<1>4. /\ recalled' \subseteq Triggers /\ invoked' \in 0..MaxInvocations
      /\ searched' \in [Triggers -> Nat] /\ cut' \in [Triggers -> Nat]
  BY <1>1 DEF CutShort, CutOff, Records
<1>5. /\ slots' = slots + (IF task[t].at = "sent" THEN 1 ELSE 0)
                        - (IF task'[t].at = "sent" THEN 1 ELSE 0)
      /\ slots' >= 0
  BY <1>1, <1>3 DEF CutShort
<1>6. count' \in [Counters -> Nat]
      /\ Unanswered(count') = Unanswered(count)
                              + (IF task'[t].at = "sent" THEN 1 ELSE 0)
                              - (IF task[t].at = "sent" THEN 1 ELSE 0)
  <2>1. Unanswered(count) \in Int  BY <1>1 DEF Unanswered, Counters
  <2>2. CASE task[t].at = "sent"
    <3>1. count' \in [Counters -> Nat] /\ Unanswered(count') = Unanswered(count) - 1
      BY <1>1, <2>2, Counts DEF CutShort, Counted
    <3> QED  BY <1>3, <2>1, <2>2, <3>1
  <2>3. CASE task[t].at # "sent"
    BY <1>1, <1>3, <2>1, <2>3 DEF CutShort
  <2> QED  BY <2>2, <2>3
<1> QED
  BY ONLY AgentInv, t \in Tasks, <1>2, <1>3, <1>4, <1>5, <1>6, MovesKeepInv

LEMMA NextInv == AgentInv /\ [AgentNext]_agentVars => AgentInv'
<1> SUFFICES ASSUME AgentInv, [AgentNext]_agentVars
             PROVE  AgentInv'
  OBVIOUS
<1>1. CASE UNCHANGED agentVars
  BY <1>1 DEF agentVars, AgentInv, AgentTypeOK, Flow, InFlight, Progress
<1>2. CASE AgentNext
  BY <1>2, InvokeKeepsInv, AsksKeepsInv, RespondedKeepsInv, ToolKeepsInv, CutShortKeepsInv,
     Shapes DEF AgentNext
<1> QED  BY <1>1, <1>2

\* Every value stays of its type; among them, no slot is given back twice.
THEOREM AgentTypeCorrect == AgentSpec => []AgentTypeOK
<1>1. AgentInv => AgentTypeOK  BY DEF AgentInv
<1> QED  BY InitInv, NextInv, <1>1, PTL DEF AgentSpec

\* No slot of the model is lost or gained, every attempt is accounted for, and the two
\* levels of retries, the recall and the corrected speech multiply to at most eight requests
\* (ArkClient, DecisionService._call, NPCAgentRuntime).
THEOREM RequestsAreAccounted == AgentSpec => []RequestsAccounted
<1>1. ASSUME AgentInv, NEW t \in Tasks
      PROVE  task[t].sent <= IF task[t].kind \in {"chat", "speech"} THEN 8 ELSE 4
  <2>1. Progress(task[t]) /\ task[t] \in Records
    BY <1>1 DEF AgentInv, AgentTypeOK, Records, Kinds
  <2> QED  BY <2>1 DEF Progress, Records
<1>2. AgentInv => RequestsAccounted
  BY <1>1 DEF AgentInv, Flow, RequestsAccounted
<1> QED  BY InitInv, NextInv, <1>2, PTL DEF AgentSpec

-----------------------------------------------------------------------------
(* The searches *)

\* Of trigger k: at most one task decides about it; when it was searched for and that is
\* not noted, the task that did it is still at work; who may search has not, and nobody
\* whose search is noted before it.
SearchesFor(k) ==
    /\ \A t, u \in Tasks : task[t].key = k /\ task[u].key = k => t = u
    /\ searched[k] <= cut[k] + 1
    /\ k \notin recalled /\ (\A t \in Tasks : task[t].key = k => ~task[t].tool)
         => searched[k] <= cut[k]
    /\ \A t \in Tasks : task[t].key = k /\ ~task[t].used
                        => k \notin recalled /\ ~task[t].tool

Searches == \A k \in Triggers : SearchesFor(k)

\* A step that changes neither who decides about what nor who has searched.
LEMMA QuietSearches ==
  ASSUME AgentInv, Searches, NEW t \in Tasks, Moves(t), UNCHANGED <<recalled, searched, cut>>,
         task'[t].key = task[t].key, task'[t].used = task[t].used, task'[t].tool = task[t].tool
  PROVE  Searches'
<1> SUFFICES ASSUME NEW k \in Triggers
             PROVE  SearchesFor(k)'
  BY DEF Searches
<1>1. SearchesFor(k)  BY DEF Searches
<1>2. \A u \in Tasks : /\ task'[u].key = task[u].key /\ task'[u].used = task[u].used
                       /\ task'[u].tool = task[u].tool
  BY DEF Moves
<1> QED  BY <1>1, <1>2 DEF SearchesFor

\* The end of an invocation, noted or cut off.
LEMMA EndSearches ==
  ASSUME AgentInv, Searches, NEW t \in Tasks, task' = [task EXCEPT ![t] = Idle0],
         UNCHANGED searched,
         \/ Returned(t) /\ UNCHANGED cut
         \/ CutOff(t)
  PROVE  Searches'
<1> SUFFICES ASSUME NEW k \in Triggers
             PROVE  SearchesFor(k)'
  BY DEF Searches
<1>1. /\ SearchesFor(k) /\ searched[k] \in Nat /\ cut \in [Triggers -> Nat]
      /\ k # NoTrigger
  BY AgentAssumption DEF Searches, AgentInv, AgentTypeOK
<1>2. /\ task'[t].key = NoTrigger /\ \A u \in Tasks \ {t} : task'[u] = task[u]
  BY IdleMoves DEF AgentInv, Moves, Idle0
<1>3. CASE Returned(t) /\ UNCHANGED cut
  <2>1. recalled' = IF task[t].tool THEN recalled \cup ({task[t].key} \ {NoTrigger})
                    ELSE recalled
    BY <1>3 DEF Returned
  <2>2. CASE task[t].key = k
    BY <1>1, <1>2, <1>3, <2>1, <2>2 DEF SearchesFor
  <2>3. CASE task[t].key # k
    <3>1. k \in recalled' <=> k \in recalled  BY <2>1, <2>3
    <3> QED  BY <1>1, <1>2, <1>3, <2>3, <3>1 DEF SearchesFor
  <2> QED  BY <2>2, <2>3
<1>4. CASE CutOff(t)
  <2>1. recalled' = recalled
    BY <1>4 DEF CutOff
  <2>2. cut'[k] = IF task[t].tool /\ task[t].key = k THEN cut[k] + 1 ELSE cut[k]
    BY <1>1, <1>4 DEF CutOff
  <2>3. CASE task[t].key = k
    BY <1>1, <1>2, <2>1, <2>2, <2>3 DEF SearchesFor
  <2>4. CASE task[t].key # k
    BY <1>1, <1>2, <2>1, <2>2, <2>4 DEF SearchesFor
  <2> QED  BY <2>3, <2>4
<1> QED  BY <1>3, <1>4

LEMMA InvokeSearches ==
  ASSUME AgentInv, Searches, NEW t \in Tasks,
         NEW kind \in {"daily", "invitation", "chat", "speech"},
         NEW key \in Triggers \cup {NoTrigger}, Invoke(t, kind, key)
  PROVE  Searches'
<1> SUFFICES ASSUME NEW k \in Triggers
             PROVE  SearchesFor(k)'
  BY DEF Searches
<1>1. SearchesFor(k) /\ k # NoTrigger  BY AgentAssumption DEF Searches
<1>2. /\ task[t].key = NoTrigger /\ UNCHANGED <<recalled, searched, cut>>
      /\ key # NoTrigger => \A u \in Tasks : task[u].key # key
  BY DEF AgentInv, Invoke, Progress
<1>3. /\ task'[t].key = key /\ ~task'[t].tool /\ (task'[t].used <=> key \in recalled)
      /\ \A u \in Tasks \ {t} : task'[u] = task[u]
  BY InvokeMoves DEF AgentInv, Kinds, Moves
<1> QED  BY <1>1, <1>2, <1>3 DEF SearchesFor

LEMMA RecallsSearches ==
  ASSUME AgentInv, Searches, NEW t \in Tasks, Recalls(t)
  PROVE  Searches'
<1> SUFFICES ASSUME NEW k \in Triggers
             PROVE  SearchesFor(k)'
  BY DEF Searches
<1>1. /\ SearchesFor(k) /\ searched \in [Triggers -> Nat] /\ cut[k] \in Nat
      /\ k # NoTrigger /\ task[t] \in Records
  BY AgentAssumption DEF Searches, AgentInv, AgentTypeOK, Records, Kinds
<1>2. /\ Moves(t)
      /\ task'[t] = [task[t] EXCEPT !.at = "tool", !.used = TRUE, !.tool = TRUE]
  BY RecallsMoves DEF AgentInv
<1>3. /\ task'[t].key = task[t].key /\ task'[t].used /\ task'[t].tool
      /\ \A u \in Tasks \ {t} : task'[u] = task[u]
  BY <1>1, <1>2 DEF Records, Moves
<1>4. UNCHANGED <<recalled, cut>> /\ ~task[t].used
  BY DEF Recalls, Answered
<1>5. searched'[k] = IF task[t].key = k THEN searched[k] + 1 ELSE searched[k]
  BY <1>1 DEF Recalls
<1>6. CASE task[t].key = k
  <2>1. k \notin recalled /\ ~task[t].tool  BY <1>1, <1>4, <1>6 DEF SearchesFor
  <2>2. \A u \in Tasks : task[u].key = k => ~task[u].tool
    BY <1>1, <1>6, <2>1 DEF SearchesFor
  <2>3. searched[k] <= cut[k]  BY <1>1, <2>1, <2>2 DEF SearchesFor
  <2> QED  BY <1>1, <1>3, <1>4, <1>5, <1>6, <2>3 DEF SearchesFor
<1>7. CASE task[t].key # k
  BY <1>1, <1>3, <1>4, <1>5, <1>7 DEF SearchesFor
<1> QED  BY <1>6, <1>7

\* The other steps in which the task goes on.
LEMMA GoesOn ==
  ASSUME AgentInv, Searches, NEW t \in Tasks, UNCHANGED <<recalled, searched, cut>>,
         \/ Asks(t) \/ AsksAgain(t) \/ DecidesAgain(t)
         \/ task' = [task EXCEPT ![t].at = "queued", ![t].try = 2]
  PROVE  Searches'
<1>1. AgentTypeOK /\ task[t] \in Records
  BY DEF AgentInv, AgentTypeOK, Records, Kinds
<1>2. /\ Moves(t)
      /\ \/ task'[t] = [task[t] EXCEPT !.at = "sent", !.again = FALSE, !.sent = @ + 1]
         \/ task'[t] = [task[t] EXCEPT !.again = TRUE, !.sent = @ + 1]
         \/ task'[t] = [task[t] EXCEPT !.at = "queued", !.try = 2]
         \/ task'[t] = [task[t] EXCEPT !.at = "queued", !.decision = 2, !.try = 1]
  BY <1>1, AsksMoves, AsksAgainMoves, QueuedMoves DEF Asks
<1>3. /\ task'[t].key = task[t].key /\ task'[t].used = task[t].used
      /\ task'[t].tool = task[t].tool
  BY <1>1, <1>2 DEF Records
<1> QED  BY <1>2, <1>3, QuietSearches

LEMMA NextSearches == AgentInv /\ Searches /\ [AgentNext]_agentVars => Searches'
<1> SUFFICES ASSUME AgentInv, Searches, [AgentNext]_agentVars
             PROVE  Searches'
  OBVIOUS
<1>1. CASE UNCHANGED agentVars
  BY <1>1 DEF agentVars, Searches, SearchesFor
<1>2. ASSUME NEW t \in Tasks, Responded(t)
      PROVE  Searches'
  <2>1. CASE Returned(t)
    BY <1>2, <2>1, EndSearches DEF Responded, Returned
  <2>2. CASE ~Returned(t)
    BY <1>2, <2>2, GoesOn DEF Responded
  <2> QED  BY <2>1, <2>2
<1>3. ASSUME NEW t \in Tasks, CutShort(t)
      PROVE  Searches'
  BY <1>3, EndSearches DEF CutShort, CutOff
<1>4. ASSUME NEW t \in Tasks, Asks(t) \/ AsksAgain(t) \/ FindsMemories(t)
      PROVE  Searches'
  BY <1>4, GoesOn DEF Asks, AsksAgain, FindsMemories
<1>5. ASSUME NEW t \in Tasks, FindsNothing(t)
      PROVE  Searches'
  BY <1>5, EndSearches DEF FindsNothing, Returned
<1>6. CASE AgentNext
  BY <1>2, <1>3, <1>4, <1>5, <1>6, InvokeSearches, RecallsSearches, Shapes DEF AgentNext
<1> QED  BY <1>1, <1>6

\* An NPC searches its memories once for a message, however often it decides about it, but
\* for the decisions that were cut off after their search (_recalled_triggers,
\* mark_recall_used_for).
THEOREM MemoriesAreRecalledOnce == AgentSpec => []RecalledOnce
<1>1. AgentInit => Searches
  BY AgentAssumption DEF AgentInit, Searches, SearchesFor, Idle0
<1>2. Searches /\ AgentInv => RecalledOnce
  BY DEF AgentInv, AgentTypeOK, Searches, SearchesFor, RecalledOnce
<1> QED  BY InitInv, NextInv, NextSearches, <1>1, <1>2, PTL DEF AgentSpec
=============================================================================
