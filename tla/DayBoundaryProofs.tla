-------------------------- MODULE DayBoundaryProofs --------------------------
(***************************************************************************)
(* Proofs about DayBoundary: its type invariant, that the days end in      *)
(* order, and that a deferred boundary is owned, for any callers, any      *)
(* conversations, any number of days and any values of the bounds.         *)
(*                                                                         *)
(* None of the three is inductive.  That no day is skipped rests on who    *)
(* may still move the clock at 18:00 (Handled), which rests on who may     *)
(* wait for a model there (ThoughtMarked, RolledAtMorning).  That the      *)
(* chapter is resolved once rests on the deadline being taken up once      *)
(* (Deadline), and that it is resolved behind every conversation on no     *)
(* other closing of the last day coming first.                             *)
(***************************************************************************)
EXTENDS DayBoundary, FiniteSetTheorems, TLAPS

USE DEF Morning, Thought, Cutoff, DayEnd

-----------------------------------------------------------------------------
(* The inductive invariant *)

\* the pipelines that wait for a model
Models == {c \in Convs : task[c] = "model"}

\* the count of the active pipelines is never too small, and right while no save failed
PipelinesCounted ==
    /\ Cardinality(Models) <= pipelines
    /\ used["fails"] = 0 => pipelines = Cardinality(Models)

\* the worker of a conversation closes a day exactly while its task says so
TaskCloses == \A c \in Convs : task[c] = "closing" <=> Closing(c)

\* and a world_step exactly while it waits for its closing
StepCloses == \A w \in Steppers : step[w].at = "closing" <=> Closing(w)

\* a deferred boundary has an active pipeline, unless the process restarted
Owned == pendEnd # None \/ pendCh => pipelines > 0 \/ used["crashes"] > 0

Held == {"thought", "deadline", "boundary", "due"}

\* a section that has not reached its await holds the lock
Holder == \A w \in Steppers : step[w].at \in Held => lock = w

\* who moved to the next day has held the lock since
RolledAtMorning == \A w \in Steppers : step[w].from = "rolled" => lock = w /\ time = Morning

\* the lock is held by a world_step at one of the places ats
HeldAt(ats) == \E w \in Steppers : lock = w /\ step[w].at \in ats

\* no NPC is asked at 18:00: its thought was marked when the clock came by
ThoughtMarked ==
    /\ time > Thought => day \in thought
    /\ time = Thought => day \in thought \/ HeldAt({"thought"})

\* a deferred boundary is the one the clock stands at
PendingIsToday == pendEnd # None => pendEnd = day /\ time = DayEnd

\* at 18:00 the day is closed or deferred before the lock is released
Handled ==
    time = DayEnd => \/ day \in closed \/ pendEnd # None
                     \/ HeldAt({"thought", "deadline", "boundary"})

AtEnd == day = LastDay /\ time = DayEnd

\* the deadline is taken up by the one world_step that arrives at it, which defers it or
\* closes the last day for it; nobody else closes the last day first
Deadline ==
    /\ ended <=> AtEnd
    /\ pendCh \/ fired => AtEnd /\ \A w \in Steppers : step[w].at \notin {"thought", "deadline"}
    /\ ~(pendCh /\ fired)
    /\ AtEnd => pendCh \/ fired \/ HeldAt({"thought", "deadline"})
    /\ pendCh /\ pipelines = 0 => \A w \in Steppers : step[w].at = "idle"
    /\ fired <=> LastDay \in closed
    /\ finished => fired

\* a day is closed by one section, and announced when that section is done
Closings ==
    /\ \A p \in Procs : Closing(p) =>
          /\ close[p].day \in closed /\ dayEnded[close[p].day] = 0
          /\ \A q \in Procs : close[q].day = close[p].day => q = p
    /\ \A d \in 1..LastDay : dayEnded[d] > 0 => d \in closed
    /\ resolved = IF finished THEN 1 ELSE 0

\* the section that closes for the chapter has every open conversation before it
ChapterCloses ==
    \A p \in Procs : close[p].chapter =>
        close[p].day = LastDay /\ ~finished /\ OpenNow \subseteq close[p].todo

DayInv ==
    /\ DayTypeOK /\ PipelinesCounted /\ TaskCloses /\ StepCloses /\ Owned
    /\ Holder /\ RolledAtMorning /\ ThoughtMarked
    /\ PendingIsToday /\ Handled /\ NoDaySkipped
    /\ Deadline /\ Closings /\ ChapterCloses
    /\ EndsOnce /\ ResolvedAfterClosing

-----------------------------------------------------------------------------
(* Types *)

Steps    == [at: {"idle", "thought", "thinking", "deadline", "boundary", "closing", "due"},
             from: {"start", "arrived", "rolled"}, left: Nat, asked: 1..LastDay \cup {None}]
Closes   == [todo: SUBSET Convs, day: 1..LastDay \cup {None}, chapter: BOOLEAN]

LEMMA Constants ==
  /\ LastDay \in Nat /\ LastDay # 0 /\ LastDay \in 1..LastDay /\ 1 \in 1..LastDay
  /\ None \notin Nat /\ None \notin 1..LastDay
  /\ Steppers \cap Convs = {} /\ "free" \notin Steppers /\ IsFiniteSet(Convs)
BY BoundaryAssumption

LEMMA InitType == Init => DayTypeOK
<1> SUFFICES ASSUME Init
             PROVE  DayTypeOK
  OBVIOUS
<1> USE Constants
<1>1. Resting \in Steps /\ NoClose \in Closes
  BY DEF Resting, NoClose, Steps, Closes
<1>2. step \in [Steppers -> Steps] /\ close \in [Procs -> Closes]
  BY <1>1 DEF Init
<1>3. /\ ended \in BOOLEAN /\ pendCh \in BOOLEAN /\ fired \in BOOLEAN /\ finished \in BOOLEAN
  BY Zenon DEF Init
<1>4. /\ lock = "free" /\ day \in 1..LastDay /\ time \in Morning..DayEnd
      /\ thought \subseteq 1..LastDay /\ closed \subseteq 1..LastDay /\ pipelines \in Nat
      /\ pendEnd \in 1..LastDay \cup {None} /\ resolved \in Nat
  BY DEF Init
<1>5. /\ conv \in [Convs -> {"new", "open", "closed"}]
      /\ round \in [Convs -> {"idle", "queued", "opener", "running"}]
      /\ task \in [Convs -> {"none", "model", "closing"}]
      /\ dayEnded \in [1..LastDay -> Nat] /\ used \in [{"fails", "crashes"} -> Nat]
  BY DEF Init
<1> QED  BY <1>2, <1>3, <1>4, <1>5 DEF DayTypeOK, Steps, Closes

\* What a closing that begins does to the types.
LEMMA CloseDayType ==
  ASSUME DayTypeOK, NEW p \in Procs, NEW d \in 1..LastDay, NEW chapter \in BOOLEAN,
         CloseDay(p, d, chapter)
  PROVE  /\ closed' \subseteq 1..LastDay /\ fired' \in BOOLEAN /\ finished' \in BOOLEAN
         /\ ended' \in BOOLEAN /\ close' \in [Procs -> Closes]
         /\ dayEnded' \in [1..LastDay -> Nat] /\ resolved' \in Nat
<1>1. close \in [Procs -> Closes]  BY DEF DayTypeOK, Closes
<1>2. NoClose \in Closes
  BY DEF NoClose, Closes
<1>3. [todo |-> OpenNow, day |-> d, chapter |-> chapter] \in Closes
  BY DEF OpenNow, Closes
<1>4. close' \in [Procs -> Closes]
  BY <1>1, <1>2, <1>3, Zenon DEF CloseDay, Settle
<1>5. closed' \subseteq 1..LastDay  BY DEF CloseDay, DayTypeOK
<1>6. fired' \in BOOLEAN /\ finished' \in BOOLEAN /\ ended' \in BOOLEAN
  <2>1. fired \in BOOLEAN /\ finished \in BOOLEAN /\ ended \in BOOLEAN
    BY Zenon DEF DayTypeOK
  <2> QED  BY <2>1, Zenon DEF CloseDay, Settle
<1>7. dayEnded' \in [1..LastDay -> Nat] /\ resolved' \in Nat
  <2>1. dayEnded' = dayEnded \/ dayEnded' = [dayEnded EXCEPT ![d] = @ + 1]
    BY Zenon DEF CloseDay, Settle
  <2>2. resolved' = resolved \/ resolved' = resolved + 1
    BY Zenon DEF CloseDay, Settle
  <2>3. dayEnded \in [1..LastDay -> Nat] /\ resolved \in Nat
    BY DEF DayTypeOK
  <2> QED  BY <2>1, <2>2, <2>3
<1> QED  BY <1>4, <1>5, <1>6, <1>7

LEMMA FinishChapterType ==
  ASSUME DayTypeOK, NEW p \in Procs, FinishChapter(p)
  PROVE  /\ closed' \subseteq 1..LastDay /\ fired' \in BOOLEAN /\ finished' \in BOOLEAN
         /\ ended' \in BOOLEAN /\ close' \in [Procs -> Closes]
         /\ dayEnded' \in [1..LastDay -> Nat] /\ resolved' \in Nat
<1>1. CASE finished
  <2>1. UNCHANGED <<ended, closed, fired, finished, close, dayEnded, resolved>>
    BY <1>1 DEF FinishChapter, endVars
  <2>2. fired' \in BOOLEAN /\ finished' \in BOOLEAN /\ ended' \in BOOLEAN
    BY <2>1, Zenon DEF DayTypeOK
  <2> QED  BY <2>1, <2>2 DEF DayTypeOK, Closes
<1>2. CASE ~finished
  <2>1. CloseDay(p, LastDay, TRUE)  BY <1>2 DEF FinishChapter
  <2> QED  BY <2>1, CloseDayType, Constants
<1> QED  BY <1>1, <1>2

\* The same for what the last pipeline takes over.
LEMMA BoundaryType ==
  ASSUME DayTypeOK, NEW c \in Convs, Boundary(c)
  PROVE  /\ closed' \subseteq 1..LastDay /\ fired' \in BOOLEAN /\ finished' \in BOOLEAN
         /\ ended' \in BOOLEAN /\ close' \in [Procs -> Closes]
         /\ dayEnded' \in [1..LastDay -> Nat] /\ resolved' \in Nat
         /\ pendEnd' \in 1..LastDay \cup {None} /\ pendCh' \in BOOLEAN
<1> c \in Procs  BY DEF Procs
<1>1. CASE pipelines' = 0 /\ pendCh
  <2>1. FinishChapter(c) /\ pendEnd' = None /\ pendCh' = FALSE  BY <1>1 DEF Boundary
  <2> QED  BY <2>1, FinishChapterType
<1>2. CASE pipelines' = 0 /\ ~pendCh /\ pendEnd # None
  <2>1. CloseDay(c, pendEnd, FALSE) /\ pendEnd' = None /\ UNCHANGED pendCh
    BY <1>2 DEF Boundary
  <2>2. pendEnd \in 1..LastDay  BY <1>2 DEF DayTypeOK
  <2>3. pendCh' \in BOOLEAN  BY <2>1, Zenon DEF DayTypeOK
  <2> QED  BY <2>1, <2>2, <2>3, CloseDayType
<1>3. CASE ~(pipelines' = 0 /\ pendCh) /\ ~(pipelines' = 0 /\ pendEnd # None)
  <2>1. UNCHANGED <<ended, pendEnd, pendCh, closed, fired, finished, close, dayEnded, resolved>>
    BY <1>3 DEF Boundary, deferVars, endVars
  <2>2. /\ fired' \in BOOLEAN /\ finished' \in BOOLEAN /\ ended' \in BOOLEAN
        /\ pendCh' \in BOOLEAN
    BY <2>1, Zenon DEF DayTypeOK
  <2> QED  BY <2>1, <2>2 DEF DayTypeOK, Closes
<1> QED  BY <1>1, <1>2, <1>3

\* A step of one caller keeps the type of all.
LEMMA StepType ==
  ASSUME DayTypeOK, NEW w \in Steppers
  PROVE  /\ step \in [Steppers -> Steps] /\ step[w] \in Steps
         /\ \A r \in Steps : [step EXCEPT ![w] = r] \in [Steppers -> Steps]
<1>1. step \in [Steppers -> Steps]  BY DEF DayTypeOK, Steps
<1> QED  BY <1>1

LEMMA StepAtType ==
  ASSUME DayTypeOK, NEW w \in Steppers,
         NEW at \in {"idle", "thought", "thinking", "deadline", "boundary", "closing", "due"}
  PROVE  [step EXCEPT ![w].at = at] \in [Steppers -> Steps]
<1>1. step \in [Steppers -> Steps] /\ step[w] \in Steps  BY StepType
<1>2. [step[w] EXCEPT !.at = at] \in Steps  BY <1>1 DEF Steps
<1> QED  BY <1>1, <1>2

\* The types that are not Boolean; a Boolean is kept apart, with its own steps.
Flags == ended \in BOOLEAN /\ pendCh \in BOOLEAN /\ fired \in BOOLEAN /\ finished \in BOOLEAN
Others ==
    /\ lock \in {"free"} \cup Steppers
    /\ day \in 1..LastDay /\ time \in Morning..DayEnd
    /\ conv \in [Convs -> {"new", "open", "closed"}]
    /\ round \in [Convs -> {"idle", "queued", "opener", "running"}]
    /\ thought \subseteq 1..LastDay /\ pipelines \in Nat
    /\ pendEnd \in 1..LastDay \cup {None}
    /\ closed \subseteq 1..LastDay
    /\ step \in [Steppers -> Steps]
    /\ task \in [Convs -> {"none", "model", "closing"}]
    /\ close \in [Procs -> Closes]
    /\ dayEnded \in [1..LastDay -> Nat] /\ resolved \in Nat
    /\ used \in [{"fails", "crashes"} -> Nat]

LEMMA TypeParts == DayTypeOK <=> Flags /\ Others
BY Zenon DEF DayTypeOK, Flags, Others, Steps, Closes

LEMMA FlagsStay ==
  ASSUME Flags, UNCHANGED <<ended, pendCh, fired, finished>>
  PROVE  Flags'
BY Zenon DEF Flags

LEMMA ModelsFinite ==
  /\ IsFiniteSet(Models) /\ Cardinality(Models) \in Nat
  /\ \A c \in Convs : task[c] = "model" => Cardinality(Models) # 0
<1>1. IsFiniteSet(Models) /\ Cardinality(Models) \in Nat
  BY Constants, FS_Subset, FS_CardinalityType DEF Models
<1>2. ASSUME NEW c \in Convs, task[c] = "model"
      PROVE  Cardinality(Models) # 0
  BY <1>1, <1>2, FS_EmptySet DEF Models
<1> QED  BY <1>1, <1>2

LEMMA NextType ==
  ASSUME DayTypeOK, PipelinesCounted, [Next]_vars
  PROVE  DayTypeOK'
<1>0. Flags /\ Others  BY TypeParts
<1> SUFFICES Flags' /\ Others'
  BY Zenon DEF DayTypeOK, Flags, Others, Steps, Closes
<1> USE Constants
<1>1. ASSUME NEW w \in Steppers, StepBegin(w)
      PROVE  Flags' /\ Others'
  <2>1. PICK n \in 1..MaxStep : step' = [step EXCEPT ![w] = [@ EXCEPT !.at = "thought", !.left = n]]
    BY <1>1 DEF StepBegin
  <2>2. n \in Nat /\ step[w] \in Steps  BY StepType, BoundaryAssumption
  <2>3. [step[w] EXCEPT !.at = "thought", !.left = n] \in Steps
    BY <2>2 DEF Steps
  <2>4. step' \in [Steppers -> Steps]  BY <2>1, <2>3, StepType
  <2>5. UNCHANGED <<ended, pendCh, fired, finished>>
    BY <1>1 DEF StepBegin, clockVars, deferVars, endVars
  <2> QED
    BY <1>0, <1>1, <2>4, <2>5, FlagsStay
    DEF StepBegin, Others, clockVars, chatVars, deferVars, endVars
<1>2. ASSUME NEW w \in Steppers, DueThought(w)
      PROVE  Flags' /\ Others'
  <2>1. step[w] \in Steps /\ day \in 1..LastDay  BY <1>0, StepType DEF Others
  <2>2. [step[w] EXCEPT !.at = "thinking", !.asked = day] \in Steps
    BY <2>1 DEF Steps
  <2>3. \/ step' = [step EXCEPT ![w] = [@ EXCEPT !.at = "thinking", !.asked = day]]
        \/ step' = [step EXCEPT ![w].at = "deadline"]
    BY <1>2 DEF DueThought
  <2>4. step' \in [Steppers -> Steps]
    <3>1. CASE step' = [step EXCEPT ![w].at = "deadline"]
      BY <3>1, StepAtType
    <3>2. CASE step' = [step EXCEPT ![w] = [@ EXCEPT !.at = "thinking", !.asked = day]]
      BY <2>2, <3>2, StepType
    <3> QED  BY <2>3, <3>1, <3>2
  <2>5. thought' \subseteq 1..LastDay /\ lock' \in {"free"} \cup Steppers
    BY <1>0, <1>2 DEF DueThought, Others
  <2>6. UNCHANGED <<ended, pendCh, fired, finished>>
    BY <1>2 DEF DueThought, clockVars, deferVars, endVars
  <2> QED
    BY <1>0, <1>2, <2>4, <2>5, <2>6, FlagsStay
    DEF DueThought, Others, clockVars, chatVars, deferVars, endVars
<1>3. ASSUME NEW w \in Steppers, ThinkDone(w)
      PROVE  Flags' /\ Others'
  <2>1. step[w] \in Steps  BY StepType
  <2>2. [step[w] EXCEPT !.at = "boundary", !.asked = None] \in Steps
    BY <2>1 DEF Steps
  <2>3. step' = [step EXCEPT ![w] = [@ EXCEPT !.at = "boundary", !.asked = None]]
    BY <1>3 DEF ThinkDone
  <2>4. step' \in [Steppers -> Steps]
    BY <2>2, <2>3, StepType
  <2>5. /\ conv' \in [Convs -> {"new", "open", "closed"}]
        /\ round' \in [Convs -> {"idle", "queued", "opener", "running"}]
    BY <1>0, <1>3 DEF ThinkDone, Others
  <2>6. UNCHANGED <<ended, pendCh, fired, finished>>
    BY <1>3 DEF ThinkDone, clockVars, deferVars, endVars
  <2> QED
    BY <1>0, <1>3, <2>4, <2>5, <2>6, FlagsStay
    DEF ThinkDone, Others, clockVars, deferVars, endVars
<1>4. ASSUME NEW w \in Steppers, ThinkRaises(w) \/ StepEnd(w)
      PROVE  Flags' /\ Others'
  <2>1. Resting \in Steps  BY DEF Resting, Steps
  <2>2. step' = [step EXCEPT ![w] = Resting] /\ lock' \in {"free"} \cup Steppers
    BY <1>0, <1>4 DEF ThinkRaises, StepEnd, Others
  <2>3. step' \in [Steppers -> Steps]
    BY <2>1, <2>2, StepType
  <2>4. UNCHANGED <<ended, pendCh, fired, finished>>
    BY <1>4 DEF ThinkRaises, StepEnd, clockVars, deferVars, endVars
  <2> QED
    BY <1>0, <1>4, <2>2, <2>3, <2>4, FlagsStay
    DEF ThinkRaises, StepEnd, Others, clockVars, chatVars, deferVars, endVars
<1>5. ASSUME NEW w \in Steppers, DueDeadline(w)
      PROVE  Flags' /\ Others'
  <2> w \in Procs  BY DEF Procs
  <2>1. PICK at \in {"closing", "due", "boundary"} : step' = [step EXCEPT ![w].at = at]
    BY <1>5 DEF DueDeadline
  <2>2. step' \in [Steppers -> Steps]
    BY <2>1, StepAtType
  <2>3. UNCHANGED <<ended, endVars>> \/ FinishChapter(w)
    BY <1>5 DEF DueDeadline
  <2>4. /\ closed' \subseteq 1..LastDay /\ fired' \in BOOLEAN /\ finished' \in BOOLEAN
        /\ ended' \in BOOLEAN /\ close' \in [Procs -> Closes]
        /\ dayEnded' \in [1..LastDay -> Nat] /\ resolved' \in Nat
    <3>1. CASE UNCHANGED <<ended, endVars>>
      <4>1. fired' \in BOOLEAN /\ finished' \in BOOLEAN /\ ended' \in BOOLEAN
        BY <1>0, <3>1, Zenon DEF Flags, endVars
      <4>2. UNCHANGED <<closed, close, dayEnded, resolved>>
        BY <3>1 DEF endVars
      <4> QED  BY <1>0, <4>1, <4>2 DEF Others
    <3>2. CASE FinishChapter(w)  BY <3>2, FinishChapterType
    <3> QED  BY <2>3, <3>1, <3>2
  <2>5. pendEnd' \in 1..LastDay \cup {None}
    BY <1>0, <1>5 DEF DueDeadline, Others, deferVars
  <2>6. pendCh' \in BOOLEAN
    BY <1>0, <1>5, Zenon DEF DueDeadline, Flags, deferVars
  <2>7. UNCHANGED <<day, time, conv, round, pipelines, task, thought, used>>
    BY <1>5 DEF DueDeadline, chatVars
  <2>8. lock' \in {"free"} \cup Steppers
    BY <1>0, <1>5 DEF DueDeadline, Others
  <2>9. Flags'  BY <2>4, <2>6 DEF Flags
  <2>10. Others'  BY <1>0, <2>2, <2>4, <2>5, <2>7, <2>8 DEF Others
  <2> QED  BY <2>9, <2>10
<1>6. ASSUME NEW w \in Steppers, DueBoundary(w)
      PROVE  Flags' /\ Others'
  <2> w \in Procs  BY DEF Procs
  <2>1. PICK at \in {"closing", "due"} : step' = [step EXCEPT ![w].at = at]
    BY <1>6 DEF DueBoundary
  <2>2. step' \in [Steppers -> Steps]
    BY <2>1, StepAtType
  <2>3. UNCHANGED <<ended, endVars>> \/ CloseDay(w, day, FALSE)
    BY <1>6 DEF DueBoundary
  <2>4. /\ closed' \subseteq 1..LastDay /\ fired' \in BOOLEAN /\ finished' \in BOOLEAN
        /\ ended' \in BOOLEAN /\ close' \in [Procs -> Closes]
        /\ dayEnded' \in [1..LastDay -> Nat] /\ resolved' \in Nat
    <3>1. CASE UNCHANGED <<ended, endVars>>
      <4>1. fired' \in BOOLEAN /\ finished' \in BOOLEAN /\ ended' \in BOOLEAN
        BY <1>0, <3>1, Zenon DEF Flags, endVars
      <4>2. UNCHANGED <<closed, close, dayEnded, resolved>>
        BY <3>1 DEF endVars
      <4> QED  BY <1>0, <4>1, <4>2 DEF Others
    <3>2. CASE CloseDay(w, day, FALSE)
      <4>1. day \in 1..LastDay  BY <1>0 DEF Others
      <4> QED  BY <3>2, <4>1, CloseDayType
    <3> QED  BY <2>3, <3>1, <3>2
  <2>5. pendEnd' \in 1..LastDay \cup {None}
    BY <1>0, <1>6 DEF DueBoundary, Others
  <2>6. pendCh' \in BOOLEAN
    BY <1>0, <1>6, Zenon DEF DueBoundary, Flags
  <2>7. UNCHANGED <<day, time, conv, round, pipelines, task, thought, used>>
    BY <1>6 DEF DueBoundary, chatVars
  <2>8. lock' \in {"free"} \cup Steppers
    BY <1>0, <1>6 DEF DueBoundary, Others
  <2>9. Flags'  BY <2>4, <2>6 DEF Flags
  <2>10. Others'  BY <1>0, <2>2, <2>4, <2>5, <2>7, <2>8 DEF Others
  <2> QED  BY <2>9, <2>10
<1>7. ASSUME NEW w \in Steppers, NextDay(w)
      PROVE  Flags' /\ Others'
  <2>1. step[w] \in Steps  BY StepType
  <2>2. [step[w] EXCEPT !.at = "thought", !.from = "rolled"] \in Steps
    BY <2>1 DEF Steps
  <2>3. step' = [step EXCEPT ![w] = [@ EXCEPT !.at = "thought", !.from = "rolled"]]
    BY <1>7 DEF NextDay
  <2>4. step' \in [Steppers -> Steps]
    BY <2>2, <2>3, StepType
  <2>5. day' \in 1..LastDay /\ time' \in Morning..DayEnd
    BY <1>0, <1>7 DEF NextDay, Others
  <2>6. UNCHANGED <<ended, pendCh, fired, finished>>
    BY <1>7 DEF NextDay, deferVars, endVars
  <2> QED
    BY <1>0, <1>7, <2>4, <2>5, <2>6, FlagsStay
    DEF NextDay, Others, chatVars, deferVars, endVars
<1>8. ASSUME NEW w \in Steppers, Arrive(w)
      PROVE  Flags' /\ Others'
  <2>1. step[w] \in Steps /\ step[w].left > 0  BY <1>8, StepType DEF Arrive
  <2>2. step[w].left - 1 \in Nat
    BY <2>1 DEF Steps
  <2> DEFINE r == [step[w] EXCEPT !.at = "thought", !.from = "arrived",
                                  !.left = step[w].left - 1]
  <2>3. r \in Steps
    BY <2>1, <2>2 DEF Steps
  <2>4. step' = [step EXCEPT ![w] = r]
    BY <1>8, <2>1 DEF Arrive
  <2> HIDE DEF r
  <2>5. step' \in [Steppers -> Steps]
    BY <2>3, <2>4, StepType
  <2>6. time' \in Morning..DayEnd
    BY <1>0, <1>8 DEF Arrive, Others
  <2>7. Flags'
    BY <1>0, <1>8, Zenon DEF Arrive, Flags, deferVars, endVars
  <2> QED
    BY <1>0, <1>8, <2>5, <2>6, <2>7 DEF Arrive, Others, chatVars, deferVars, endVars
<1>9. ASSUME NEW p \in Procs, NEW c \in Convs, CloseConversation(p, c)
      PROVE  Flags' /\ Others'
  <2>1. close[p] \in Closes /\ close \in [Procs -> Closes] /\ NoClose \in Closes
    BY <1>0 DEF Others, Closes, NoClose
  <2>2. close[p].day \in 1..LastDay
    BY <1>9, <2>1 DEF CloseConversation, Closing, Closes
  <2>3. [close[p] EXCEPT !.todo = @ \ {c}] \in Closes
    BY <2>1 DEF Closes
  <2>4. \/ close' = [close EXCEPT ![p] = NoClose]
        \/ close' = [close EXCEPT ![p].todo = @ \ {c}]
    BY <1>9 DEF CloseConversation, Settle
  <2>5. close' \in [Procs -> Closes]
    BY <2>1, <2>3, <2>4
  <2>6. /\ dayEnded' \in [1..LastDay -> Nat] /\ resolved' \in Nat
    <3>1. \/ dayEnded' = dayEnded
          \/ dayEnded' = [dayEnded EXCEPT ![close[p].day] = @ + 1]
      BY <1>9, Zenon DEF CloseConversation, Settle
    <3>2. resolved' = resolved \/ resolved' = resolved + 1
      BY <1>9, Zenon DEF CloseConversation, Settle
    <3>3. dayEnded \in [1..LastDay -> Nat] /\ resolved \in Nat  BY <1>0 DEF Others
    <3>4. dayEnded[close[p].day] + 1 \in Nat  BY <2>2, <3>3
    <3>5. dayEnded' \in [1..LastDay -> Nat]  BY <2>2, <3>1, <3>3, <3>4
    <3> QED  BY <3>2, <3>3, <3>5
  <2>7. Flags'
    <3>1. close[p].chapter \in BOOLEAN  BY <2>1 DEF Closes
    <3> QED  BY <1>0, <1>9, <3>1, Zenon DEF CloseConversation, Settle, Flags, deferVars
  <2>8. step' \in [Steppers -> Steps]
    <3>1. CASE step' = step  BY <1>0, <3>1 DEF Others
    <3>2. CASE p \in Steppers /\ step' = [step EXCEPT ![p].at = "due"]
      BY <3>2, StepAtType
    <3> QED  BY <1>9, <3>1, <3>2 DEF CloseConversation
  <2>9. task' \in [Convs -> {"none", "model", "closing"}] /\ lock' \in {"free"} \cup Steppers
    BY <1>0, <1>9 DEF CloseConversation, Others, Procs
  <2>10. /\ conv' \in [Convs -> {"new", "open", "closed"}]
         /\ round' \in [Convs -> {"idle", "queued", "opener", "running"}]
    BY <1>0, <1>9 DEF CloseConversation, Others
  <2>11. UNCHANGED <<day, time, thought, pipelines, pendEnd, closed, used>>
    BY <1>9 DEF CloseConversation, deferVars
  <2>12. Others'
    BY <1>0, <2>5, <2>6, <2>8, <2>9, <2>10, <2>11 DEF Others
  <2> QED  BY <2>7, <2>12
<1>10. ASSUME NEW c \in Convs, Opens(c) \/ Wakes(c) \/ RoundBegin(c) \/ SaveFails(c) \/ Empties(c)
       PROVE  Flags' /\ Others'
  <2>1. conv' \in [Convs -> {"new", "open", "closed"}]
    BY <1>0, <1>10 DEF Others, Opens, Wakes, RoundBegin, SaveFails, Empties
  <2>2. round' \in [Convs -> {"idle", "queued", "opener", "running"}]
    <3>1. round' = round \/ \E st \in {"idle", "queued", "opener", "running"} :
                               round' = [round EXCEPT ![c] = st]
      BY <1>10 DEF Opens, Wakes, RoundBegin, SaveFails, Empties
    <3> QED  BY <1>0, <3>1 DEF Others
  <2>3. task' \in [Convs -> {"none", "model", "closing"}]
    BY <1>0, <1>10 DEF Others, Opens, Wakes, RoundBegin, SaveFails, Empties, chatVars
  <2>4. pipelines' \in Nat
    BY <1>0, <1>10 DEF Others, Opens, Wakes, RoundBegin, SaveFails, Empties
  <2>5. used' \in [{"fails", "crashes"} -> Nat]
    <3>1. used' = used \/ used' = [used EXCEPT !["fails"] = @ + 1]
      BY <1>10 DEF Opens, Wakes, RoundBegin, SaveFails, Empties, Use
    <3> QED  BY <1>0, <3>1 DEF Others
  <2>6. UNCHANGED <<lock, clockVars, thought, deferVars, endVars, step>>
    BY <1>10 DEF Opens, Wakes, RoundBegin, SaveFails, Empties
  <2>7. UNCHANGED <<ended, pendCh, fired, finished>>
    BY <2>6 DEF clockVars, deferVars, endVars
  <2> QED
    BY <1>0, <2>1, <2>2, <2>3, <2>4, <2>5, <2>6, <2>7, FlagsStay
    DEF Others, clockVars, deferVars, endVars
<1>11. ASSUME NEW c \in Convs, RoundEnd(c)
       PROVE  Flags' /\ Others'
  <2>1. Boundary(c)  BY <1>11 DEF RoundEnd
  <2>2. pipelines' \in Nat
    <3>1. Cardinality(Models) \in Nat /\ Cardinality(Models) # 0
      BY <1>11, ModelsFinite DEF RoundEnd
    <3>2. Cardinality(Models) <= pipelines  BY DEF PipelinesCounted
    <3> QED  BY <1>0, <1>11, <3>1, <3>2 DEF RoundEnd, Others
  <2>3. round' \in [Convs -> {"idle", "queued", "opener", "running"}]
    BY <1>0, <1>11 DEF RoundEnd, Others
  <2>4. task' \in [Convs -> {"none", "model", "closing"}]
    BY <1>0, <1>11 DEF RoundEnd, Others
  <2>5. UNCHANGED <<lock, day, time, conv, thought, step, used>>
    BY <1>11 DEF RoundEnd
  <2>6. Flags'  BY <2>1, BoundaryType DEF Flags
  <2>7. Others'  BY <1>0, <2>1, <2>2, <2>3, <2>4, <2>5, BoundaryType DEF Others
  <2> QED  BY <2>6, <2>7
<1>12. CASE Crash
  <2>1. Resting \in Steps /\ NoClose \in Closes
    BY DEF Resting, NoClose, Steps, Closes
  <2>2. step' \in [Steppers -> Steps] /\ close' \in [Procs -> Closes]
    BY <1>12, <2>1 DEF Crash
  <2>3. /\ task' \in [Convs -> {"none", "model", "closing"}]
        /\ used' \in [{"fails", "crashes"} -> Nat]
    BY <1>0, <1>12 DEF Crash, Use, Others
  <2>4. round' \in [Convs -> {"idle", "queued", "opener", "running"}]
    BY <1>0, <1>12 DEF Crash, Others
  <2>5. UNCHANGED <<ended, pendCh, fired, finished>>
    BY <1>12 DEF Crash, clockVars, deferVars
  <2> QED
    BY <1>0, <1>12, <2>2, <2>3, <2>4, <2>5, FlagsStay DEF Crash, Others, clockVars, deferVars
<1>13. CASE UNCHANGED vars
  <2>1. UNCHANGED <<ended, pendCh, fired, finished>>
    BY <1>13 DEF vars
  <2> QED  BY <1>0, <1>13, <2>1, FlagsStay DEF Others, vars
<1> QED
  BY <1>1, <1>2, <1>3, <1>4, <1>5, <1>6, <1>7, <1>8, <1>9, <1>10, <1>11, <1>12, <1>13
  DEF Next, Stepping, Due, Thinking, CloseNext
-----------------------------------------------------------------------------
(* What the parts of a step do *)

\* A closing that begins: the day is marked; what is announced, settled or left to close.
LEMMA CloseDayDoes ==
  ASSUME DayTypeOK, NEW p \in Procs, NEW d \in 1..LastDay, NEW chapter \in BOOLEAN,
         CloseDay(p, d, chapter)
  PROVE  /\ closed' = closed \cup {d}
         /\ fired' <=> fired \/ chapter
         /\ \A q \in Procs : q # p => close'[q] = close[q]
         /\ d \in closed \/ OpenNow = {} =>
              /\ close'[p] = NoClose
              /\ finished' <=> finished \/ chapter
              /\ ended' <=> ended \/ chapter
              /\ resolved' = IF chapter THEN resolved + 1 ELSE resolved
              /\ \A e \in 1..LastDay : dayEnded'[e] = IF d \notin closed /\ e = d
                                                     THEN dayEnded[e] + 1 ELSE dayEnded[e]
         /\ Waits(d) =>
              /\ close'[p] = [todo |-> OpenNow, day |-> d, chapter |-> chapter]
              /\ finished' <=> finished
              /\ ended' <=> ended
              /\ resolved' = resolved /\ dayEnded' = dayEnded
<1>1. close \in [Procs -> Closes] /\ dayEnded \in [1..LastDay -> Nat]
  BY DEF DayTypeOK, Closes
<1>2. closed' = closed \cup {d}  BY DEF CloseDay
<1>3. fired' <=> fired \/ chapter  BY Zenon DEF CloseDay
<1>4. CASE d \in closed \/ OpenNow = {}
  <2>1. Settle(p, d, chapter, d \notin closed)  BY <1>4 DEF CloseDay
  <2>2. close' = [close EXCEPT ![p] = NoClose]  BY <2>1 DEF Settle
  <2>3. (finished' <=> finished \/ chapter) /\ (ended' <=> ended \/ chapter)
    BY <2>1, Zenon DEF Settle
  <2>4. resolved' = IF chapter THEN resolved + 1 ELSE resolved
    BY <2>1 DEF Settle
  <2>5. dayEnded' = IF d \notin closed THEN [dayEnded EXCEPT ![d] = @ + 1] ELSE dayEnded
    BY <2>1 DEF Settle
  <2>6. \A e \in 1..LastDay : dayEnded'[e] = IF d \notin closed /\ e = d
                                             THEN dayEnded[e] + 1 ELSE dayEnded[e]
    BY <1>1, <2>5
  <2>7. close'[p] = NoClose /\ \A q \in Procs : q # p => close'[q] = close[q]
    BY <1>1, <2>2
  <2>8. ~Waits(d)  BY <1>4 DEF Waits
  <2> QED  BY <1>2, <1>3, <2>3, <2>4, <2>6, <2>7, <2>8
<1>5. CASE ~(d \in closed \/ OpenNow = {})
  <2>1. /\ close' = [close EXCEPT ![p] = [todo |-> OpenNow, day |-> d, chapter |-> chapter]]
        /\ UNCHANGED <<dayEnded, resolved, finished, ended>>
    BY <1>5 DEF CloseDay
  <2>2. (finished' <=> finished) /\ (ended' <=> ended)  BY <2>1, Zenon
  <2>3. /\ close'[p] = [todo |-> OpenNow, day |-> d, chapter |-> chapter]
        /\ \A q \in Procs : q # p => close'[q] = close[q]
    BY <1>1, <2>1
  <2> QED  BY <1>2, <1>3, <1>5, <2>1, <2>2, <2>3
<1> QED  BY <1>4, <1>5

LEMMA CloseDayOthers ==
  ASSUME DayTypeOK, NEW p \in Procs, NEW d, NEW chapter, CloseDay(p, d, chapter)
  PROVE  \A q \in Procs : q # p => close'[q] = close[q]
<1>1. close \in [Procs -> Closes]  BY DEF DayTypeOK, Closes
<1>2. \/ close' = [close EXCEPT ![p] = NoClose]
      \/ close' = [close EXCEPT ![p] = [todo |-> OpenNow, day |-> d, chapter |-> chapter]]
  BY DEF CloseDay, Settle
<1> QED  BY <1>1, <1>2

\* What the last pipeline takes over: the chapter, the day, or nothing.
LEMMA BoundaryDoes ==
  ASSUME DayTypeOK, NEW c \in Convs, Boundary(c)
  PROVE  \/ /\ pipelines' = 0 /\ pendCh /\ pendEnd' = None /\ ~pendCh'
            /\ IF finished THEN UNCHANGED <<ended, closed, fired, finished, close, dayEnded, resolved>>
                           ELSE CloseDay(c, LastDay, TRUE)
         \/ /\ pipelines' = 0 /\ ~pendCh /\ pendEnd # None /\ pendEnd' = None /\ ~pendCh'
            /\ CloseDay(c, pendEnd, FALSE)
         \/ /\ pipelines' = 0 => ~pendCh /\ pendEnd = None
            /\ UNCHANGED <<ended, pendEnd, pendCh, closed, fired, finished, close, dayEnded,
                           resolved>>
<1>1. CASE pipelines' = 0 /\ pendCh
  <2>1. FinishChapter(c) /\ pendEnd' = None /\ pendCh' = FALSE  BY <1>1 DEF Boundary
  <2>2. ~pendCh'  BY <2>1, Zenon
  <2> QED  BY <1>1, <2>1, <2>2 DEF FinishChapter, endVars
<1>2. CASE pipelines' = 0 /\ ~pendCh /\ pendEnd # None
  <2>1. CloseDay(c, pendEnd, FALSE) /\ pendEnd' = None /\ UNCHANGED pendCh
    BY <1>2 DEF Boundary
  <2>2. ~pendCh'  BY <1>2, <2>1, Zenon
  <2> QED  BY <1>2, <2>1, <2>2
<1>3. CASE ~(pipelines' = 0 /\ pendCh) /\ ~(pipelines' = 0 /\ pendEnd # None)
  <2>1. UNCHANGED <<ended, pendEnd, pendCh, closed, fired, finished, close, dayEnded, resolved>>
    BY <1>3 DEF Boundary, deferVars, endVars
  <2> QED  BY <1>3, <2>1
<1> QED  BY <1>1, <1>2, <1>3

\* What the end of the wait for one conversation does.
LEMMA CloseConversationDoes ==
  ASSUME DayTypeOK, NEW p \in Procs, NEW c \in Convs, CloseConversation(p, c)
  PROVE  /\ lock = "free" /\ close[p].day \in 1..LastDay /\ c \in close[p].todo
         /\ conv' = [conv EXCEPT ![c] = "closed"]
         /\ \A q \in Procs : q # p => close'[q] = close[q]
         /\ UNCHANGED <<day, time, thought, pipelines, pendEnd, closed, used>>
         /\ pendCh' <=> pendCh
         /\ fired' <=> fired
         /\ \/ /\ close[p].todo = {c} /\ close'[p] = NoClose
               /\ finished' <=> finished \/ close[p].chapter
               /\ ended' <=> ended \/ close[p].chapter
               /\ resolved' = IF close[p].chapter THEN resolved + 1 ELSE resolved
               /\ \A e \in 1..LastDay : dayEnded'[e] = IF e = close[p].day
                                                       THEN dayEnded[e] + 1 ELSE dayEnded[e]
               /\ \/ /\ p \in Steppers /\ lock' = p /\ step' = [step EXCEPT ![p].at = "due"]
                     /\ task' = task
                  \/ /\ p \in Convs /\ UNCHANGED <<lock, step>>
                     /\ task' = [task EXCEPT ![p] = "none"]
            \/ /\ close'[p].todo = close[p].todo \ {c} /\ close'[p].day = close[p].day
               /\ close'[p].chapter = close[p].chapter
               /\ finished' <=> finished
               /\ ended' <=> ended
               /\ UNCHANGED <<lock, step, task, dayEnded, resolved>>
<1>1. /\ close \in [Procs -> Closes] /\ close[p] \in Closes
      /\ dayEnded \in [1..LastDay -> Nat]
  BY DEF DayTypeOK, Closes
<1>2. close[p].day \in 1..LastDay
  BY <1>1 DEF CloseConversation, Closing, Closes
<1>3. /\ lock = "free" /\ c \in close[p].todo
      /\ conv' = [conv EXCEPT ![c] = "closed"]
      /\ UNCHANGED <<day, time, thought, pipelines, pendEnd, closed, used>>
  BY DEF CloseConversation, deferVars
<1>4. (pendCh' <=> pendCh) /\ (fired' <=> fired)
  BY Zenon DEF CloseConversation, deferVars
<1>5. CASE close[p].todo = {c}
  <2>1. Settle(p, close[p].day, close[p].chapter, TRUE)
    BY <1>5 DEF CloseConversation
  <2>2. close' = [close EXCEPT ![p] = NoClose]  BY <2>1 DEF Settle
  <2>3. /\ finished' <=> finished \/ close[p].chapter
        /\ ended' <=> ended \/ close[p].chapter
    BY <2>1, Zenon DEF Settle
  <2>4. resolved' = IF close[p].chapter THEN resolved + 1 ELSE resolved
    BY <2>1 DEF Settle
  <2>5. dayEnded' = [dayEnded EXCEPT ![close[p].day] = @ + 1]
    BY <2>1 DEF Settle
  <2>6. \A e \in 1..LastDay : dayEnded'[e] = IF e = close[p].day
                                             THEN dayEnded[e] + 1 ELSE dayEnded[e]
    BY <1>1, <2>5
  <2>7. \/ /\ p \in Steppers /\ lock' = p /\ step' = [step EXCEPT ![p].at = "due"]
           /\ task' = task
        \/ /\ p \in Convs /\ UNCHANGED <<lock, step>>
           /\ task' = [task EXCEPT ![p] = "none"]
    BY <1>5 DEF CloseConversation, Procs
  <2>8. close'[p] = NoClose /\ \A q \in Procs : q # p => close'[q] = close[q]
    BY <1>1, <2>2
  <2> QED  BY <1>2, <1>3, <1>4, <1>5, <2>3, <2>4, <2>6, <2>7, <2>8
<1>6. CASE close[p].todo # {c}
  <2>1. close' = [close EXCEPT ![p].todo = @ \ {c}]
    BY <1>6 DEF CloseConversation
  <2>2. UNCHANGED <<lock, step, task, dayEnded, resolved>>
    BY <1>6 DEF CloseConversation
  <2>3. UNCHANGED <<ended, finished>>
    BY <1>6 DEF CloseConversation
  <2>4. (finished' <=> finished) /\ (ended' <=> ended)  BY <2>3, Zenon
  <2>5. close'[p] = [close[p] EXCEPT !.todo = close[p].todo \ {c}]
    BY <1>1, <2>1
  <2>6. /\ close'[p].todo = close[p].todo \ {c} /\ close'[p].day = close[p].day
        /\ close'[p].chapter = close[p].chapter
    BY <1>1, <2>5 DEF Closes
  <2>7. \A q \in Procs : q # p => close'[q] = close[q]
    BY <1>1, <2>1
  <2> QED  BY <1>2, <1>3, <1>4, <2>2, <2>4, <2>6, <2>7
<1> QED  BY <1>5, <1>6

\* What a world_step that only moves on does to the steps.
LEMMA StepAtDoes ==
  ASSUME DayTypeOK, NEW w \in Steppers, NEW at, step' = [step EXCEPT ![w].at = at]
  PROVE  /\ step'[w].at = at /\ step'[w].from = step[w].from
         /\ \A v \in Steppers : v # w => step'[v] = step[v]
<1>1. step \in [Steppers -> Steps] /\ step[w] \in Steps  BY StepType
<1>2. step'[w] = [step[w] EXCEPT !.at = at]  BY <1>1
<1>3. step'[w].at = at /\ step'[w].from = step[w].from  BY <1>1, <1>2 DEF Steps
<1> QED  BY <1>1, <1>3
-----------------------------------------------------------------------------
(* The count of the pipelines, and the workers that close *)

\* A step that neither starts nor ends a pipeline keeps the count.
LEMMA CountStays ==
  ASSUME PipelinesCounted, Models' = Models, pipelines' = pipelines, used'["fails"] = used["fails"]
  PROVE  PipelinesCounted'
BY DEF PipelinesCounted

LEMMA NextCounted ==
  ASSUME DayTypeOK, PipelinesCounted, TaskCloses, [Next]_vars
  PROVE  PipelinesCounted' /\ TaskCloses'
<1>0. /\ task \in [Convs -> {"none", "model", "closing"}] /\ pipelines \in Nat
      /\ close \in [Procs -> Closes] /\ used \in [{"fails", "crashes"} -> Nat]
      /\ \A c \in Convs : c \in Procs
  BY DEF DayTypeOK, Closes, Procs
<1> USE Constants
<1>1. CASE UNCHANGED <<task, pipelines, used, close>>
  <2>1. Models' = Models  BY <1>1 DEF Models
  <2> QED  BY <1>1, <2>1, CountStays DEF TaskCloses, Closing
<1>2. ASSUME NEW w \in Steppers, StepBegin(w) \/ DueThought(w) \/ Thinking(w)
                                 \/ StepEnd(w) \/ NextDay(w) \/ Arrive(w)
      PROVE  UNCHANGED <<task, pipelines, used, close>>
  BY <1>2 DEF StepBegin, DueThought, Thinking, ThinkDone, ThinkRaises, StepEnd, NextDay,
              Arrive, clockVars, chatVars, deferVars, endVars
<1>3. ASSUME NEW w \in Steppers, DueDeadline(w) \/ DueBoundary(w)
      PROVE  PipelinesCounted' /\ TaskCloses'
  <2> w \in Procs  BY DEF Procs
  <2>1. UNCHANGED <<task, pipelines, used>>
    BY <1>3 DEF DueDeadline, DueBoundary, chatVars
  <2>2. Models' = Models  BY <2>1 DEF Models
  <2>3. ASSUME NEW c \in Convs
        PROVE  close'[c] = close[c]
    <3>1. c # w /\ c \in Procs  BY <1>0
    <3>2. CASE UNCHANGED endVars  BY <3>2 DEF endVars
    <3>3. CASE CloseDay(w, LastDay, TRUE)
      BY <1>0, <3>1, <3>3, CloseDayDoes
    <3>4. CASE CloseDay(w, day, FALSE)
      <4>1. day \in 1..LastDay  BY DEF DayTypeOK
      <4> QED  BY <1>0, <3>1, <3>4, <4>1, CloseDayDoes
    <3> QED  BY <1>3, <3>2, <3>3, <3>4 DEF DueDeadline, DueBoundary, FinishChapter
  <2> QED  BY <2>1, <2>2, <2>3, CountStays DEF TaskCloses, Closing
<1>4. ASSUME NEW p \in Procs, NEW c \in Convs, CloseConversation(p, c)
      PROVE  PipelinesCounted' /\ TaskCloses'
  <2>1. close[p].day # None /\ close[p].day \in 1..LastDay
    BY <1>4, CloseConversationDoes
  <2>2. UNCHANGED <<pipelines, used>>  BY <1>4, CloseConversationDoes
  <2>3. CASE p \in Steppers
    <3>1. task' = task  BY <1>4, <2>3, CloseConversationDoes
    <3>2. \A e \in Convs : close'[e] = close[e]
      BY <1>0, <1>4, <2>3, CloseConversationDoes
    <3>3. Models' = Models  BY <3>1 DEF Models
    <3> QED  BY <2>2, <3>1, <3>2, <3>3, CountStays DEF TaskCloses, Closing
  <2>4. CASE p \in Convs
    <3>1. task[p] = "closing"  BY <2>1, <2>4 DEF TaskCloses, Closing
    <3>2. \/ task' = [task EXCEPT ![p] = "none"] /\ close'[p] = NoClose
          \/ task' = task /\ close'[p].day = close[p].day
      BY <1>4, <2>4, CloseConversationDoes
    <3>3. Models' = Models  BY <1>0, <2>4, <3>1, <3>2 DEF Models
    <3>4. \A e \in Convs : e # p => close'[e] = close[e] /\ task'[e] = task[e]
      BY <1>0, <1>4, <3>2, CloseConversationDoes
    <3>5. task'[p] = "closing" <=> close'[p].day # None
      BY <1>0, <2>1, <2>4, <3>1, <3>2 DEF NoClose
    <3> QED  BY <2>2, <3>3, <3>4, <3>5, CountStays DEF TaskCloses, Closing
  <2> QED  BY <2>3, <2>4 DEF Procs
<1>5. ASSUME NEW c \in Convs, Opens(c) \/ Wakes(c) \/ Empties(c)
      PROVE  UNCHANGED <<task, pipelines, used, close>>
  BY <1>5 DEF Opens, Wakes, Empties, endVars
<1>6. ASSUME NEW c \in Convs, RoundBegin(c)
      PROVE  PipelinesCounted' /\ TaskCloses'
  <2>1. CASE UNCHANGED <<pipelines, task>>
    <3>1. UNCHANGED <<task, pipelines, used, close>>
      BY <1>6, <2>1 DEF RoundBegin, endVars
    <3> QED  BY <1>1, <3>1
  <2>2. CASE pipelines' = pipelines + 1 /\ task' = [task EXCEPT ![c] = "model"]
    <3>1. UNCHANGED <<used, close>> /\ task[c] = "none"
      BY <1>6 DEF RoundBegin, endVars
    <3>2. Models' = Models \cup {c} /\ c \notin Models
      BY <1>0, <2>2, <3>1 DEF Models
    <3>3. Cardinality(Models') = Cardinality(Models) + 1
      BY <3>2, ModelsFinite, FS_AddElement
    <3>4. PipelinesCounted'
      BY <1>0, <2>2, <3>1, <3>3, ModelsFinite DEF PipelinesCounted
    <3>5. TaskCloses'
      BY <1>0, <2>2, <3>1 DEF TaskCloses, Closing
    <3> QED  BY <3>4, <3>5
  <2> QED  BY <1>6, <2>1, <2>2 DEF RoundBegin
<1>7. ASSUME NEW c \in Convs, SaveFails(c)
      PROVE  PipelinesCounted' /\ TaskCloses'
  <2>1. UNCHANGED <<task, close>> /\ pipelines' = pipelines + 1
    BY <1>7 DEF SaveFails, endVars
  <2>2. used'["fails"] # 0
    BY <1>0, <1>7 DEF SaveFails, Use
  <2>3. Models' = Models  BY <2>1 DEF Models
  <2>4. PipelinesCounted'
    BY <1>0, <2>1, <2>2, <2>3, ModelsFinite DEF PipelinesCounted
  <2> QED  BY <2>1, <2>4 DEF TaskCloses, Closing
<1>8. ASSUME NEW c \in Convs, RoundEnd(c)
      PROVE  PipelinesCounted' /\ TaskCloses'
  <2>1. /\ task[c] = "model" /\ pipelines' = pipelines - 1 /\ used' = used
        /\ task' = [task EXCEPT ![c] = IF close'[c].day # None THEN "closing" ELSE "none"]
        /\ Boundary(c)
    BY <1>8 DEF RoundEnd
  <2>2. Models' = Models \ {c} /\ c \in Models
    BY <1>0, <2>1 DEF Models
  <2>3. Cardinality(Models') = Cardinality(Models) - 1
    BY <2>2, ModelsFinite, FS_RemoveElement
  <2>4. PipelinesCounted'
    BY <1>0, <2>1, <2>3, ModelsFinite DEF PipelinesCounted
  <2>5. \A e \in Convs : e # c => close'[e] = close[e]
    <3>1. pendEnd # None => pendEnd \in 1..LastDay  BY DEF DayTypeOK
    <3> QED  BY <1>0, <2>1, <3>1, BoundaryDoes, CloseDayDoes
  <2>6. \A e \in Convs : e # c => task'[e] = task[e]
    BY <1>0, <2>1
  <2>7. task'[c] = "closing" <=> close'[c].day # None
    BY <1>0, <2>1
  <2> QED  BY <2>4, <2>5, <2>6, <2>7 DEF TaskCloses, Closing
<1>9. CASE Crash
  <2>1. /\ pipelines' = 0 /\ \A c \in Convs : task'[c] = "none" /\ close'[c] = NoClose
    BY <1>0, <1>9 DEF Crash
  <2>2. Models' = {}  BY <2>1 DEF Models
  <2>3. PipelinesCounted'  BY <2>1, <2>2, FS_EmptySet DEF PipelinesCounted
  <2> QED  BY <2>1, <2>3 DEF TaskCloses, Closing, NoClose
<1>10. CASE UNCHANGED vars  BY <1>1, <1>10 DEF vars
<1> QED
  BY <1>1, <1>2, <1>3, <1>4, <1>5, <1>6, <1>7, <1>8, <1>9, <1>10
  DEF Next, Stepping, Due, CloseNext
-----------------------------------------------------------------------------
(* Who holds the lock, and where the clock stands *)

\* How a step moves the world_steps: none, or one of them, which held the lock or took it
\* when it was free.
StepMoved(w) == \A v \in Steppers : v # w => step'[v] = step[v]

\* A restart apart, a step moves at most one world_step.
LEMMA HolderStep ==
  ASSUME Holder, RolledAtMorning, NEW w \in Steppers, StepMoved(w),
         lock \in {"free", w},
         step'[w].at \in Held => lock' = w,
         step'[w].from = "rolled" => lock' = w /\ time' = Morning
  PROVE  Holder' /\ RolledAtMorning'
<1>1. "free" \notin Steppers  BY Constants
<1>2. ASSUME NEW v \in Steppers, v # w
      PROVE  step'[v].at \notin Held /\ step'[v].from # "rolled"
  BY <1>1, <1>2 DEF StepMoved, Holder, RolledAtMorning
<1> QED  BY <1>2 DEF Holder, RolledAtMorning

LEMMA NextHolder ==
  ASSUME DayTypeOK, Holder, RolledAtMorning, [Next]_vars
  PROVE  Holder' /\ RolledAtMorning'
<1> USE Constants
<1>0. step \in [Steppers -> Steps]  BY DEF DayTypeOK, Steps
<1>1. CASE UNCHANGED <<lock, step, time>>
  BY <1>1 DEF Holder, RolledAtMorning
<1>2. ASSUME NEW w \in Steppers, StepBegin(w)
      PROVE  Holder' /\ RolledAtMorning'
  <2>1. PICK n \in 1..MaxStep : step' = [step EXCEPT ![w] = [step[w] EXCEPT !.at = "thought", !.left = n]]
    BY <1>2 DEF StepBegin
  <2>2. step'[w].from = step[w].from /\ StepMoved(w)
    BY <1>0, <2>1 DEF Steps, StepMoved
  <2>3. step[w].from # "rolled"  BY <1>2 DEF StepBegin, RolledAtMorning
  <2> QED  BY <1>2, <2>2, <2>3, HolderStep DEF StepBegin
<1>3. ASSUME NEW w \in Steppers, DueThought(w)
      PROVE  Holder' /\ RolledAtMorning'
  <2>0. lock = w /\ time' = time  BY <1>3 DEF DueThought, clockVars
  <2>1. CASE step' = [step EXCEPT ![w].at = "deadline"] /\ lock' = lock
    <3>1. StepMoved(w) /\ step'[w].from = step[w].from
      BY <2>1, StepAtDoes DEF StepMoved
    <3> QED  BY <2>0, <2>1, <3>1, HolderStep DEF RolledAtMorning
  <2>2. CASE /\ time >= Thought
             /\ step' = [step EXCEPT ![w] = [step[w] EXCEPT !.at = "thinking", !.asked = day]]
    <3>1. step'[w].at = "thinking" /\ step'[w].from = step[w].from /\ StepMoved(w)
      BY <1>0, <2>2 DEF Steps, StepMoved
    <3>2. step[w].from # "rolled"  BY <2>2 DEF RolledAtMorning
    <3> QED  BY <2>0, <3>1, <3>2, HolderStep DEF Held
  <2> QED  BY <1>3, <2>1, <2>2 DEF DueThought
<1>4. ASSUME NEW w \in Steppers, ThinkDone(w)
      PROVE  Holder' /\ RolledAtMorning'
  <2>1. step' = [step EXCEPT ![w] = [step[w] EXCEPT !.at = "boundary", !.asked = None]]
    BY <1>4 DEF ThinkDone
  <2>2. step'[w].from = step[w].from /\ StepMoved(w)
    BY <1>0, <2>1 DEF Steps, StepMoved
  <2>3. step[w].from # "rolled"  BY <1>4 DEF ThinkDone, RolledAtMorning
  <2> QED  BY <1>4, <2>2, <2>3, HolderStep DEF ThinkDone
<1>5. ASSUME NEW w \in Steppers, ThinkRaises(w) \/ StepEnd(w)
      PROVE  Holder' /\ RolledAtMorning'
  <2>1. step' = [step EXCEPT ![w] = Resting] /\ lock \in {"free", w}
    BY <1>5 DEF ThinkRaises, StepEnd
  <2>2. step'[w] = Resting /\ StepMoved(w)
    BY <1>0, <2>1 DEF StepMoved
  <2> QED  BY <2>1, <2>2, HolderStep DEF Resting, Held
<1>6. ASSUME NEW w \in Steppers, DueDeadline(w)
      PROVE  Holder' /\ RolledAtMorning'
  <2>0. lock = w /\ time' = time  BY <1>6 DEF DueDeadline
  <2>1. PICK at \in {"closing", "due", "boundary"} :
           /\ step' = [step EXCEPT ![w].at = at]
           /\ lock' = w \/ (at = "closing" /\ time = DayEnd)
    BY <1>6, <2>0 DEF DueDeadline
  <2>2. step'[w].at = at /\ step'[w].from = step[w].from /\ StepMoved(w)
    BY <2>1, StepAtDoes DEF StepMoved
  <2> QED  BY <2>0, <2>1, <2>2, HolderStep DEF Held, RolledAtMorning
<1>7. ASSUME NEW w \in Steppers, DueBoundary(w)
      PROVE  Holder' /\ RolledAtMorning'
  <2>0. lock = w /\ time' = time  BY <1>7 DEF DueBoundary
  <2>1. PICK at \in {"closing", "due"} :
           /\ step' = [step EXCEPT ![w].at = at]
           /\ lock' = w \/ (at = "closing" /\ time = DayEnd)
    BY <1>7, <2>0 DEF DueBoundary
  <2>2. step'[w].at = at /\ step'[w].from = step[w].from /\ StepMoved(w)
    BY <2>1, StepAtDoes DEF StepMoved
  <2> QED  BY <2>0, <2>1, <2>2, HolderStep DEF Held, RolledAtMorning
<1>8. ASSUME NEW w \in Steppers, NextDay(w)
      PROVE  Holder' /\ RolledAtMorning'
  <2>1. step' = [step EXCEPT ![w] = [step[w] EXCEPT !.at = "thought", !.from = "rolled"]]
        /\ lock = w /\ lock' = w /\ time' = Morning
    BY <1>8 DEF NextDay
  <2>2. StepMoved(w)
    BY <1>0, <2>1 DEF StepMoved
  <2> QED  BY <2>1, <2>2, HolderStep
<1>9. ASSUME NEW w \in Steppers, Arrive(w)
      PROVE  Holder' /\ RolledAtMorning'
  <2>1. step' = [step EXCEPT ![w] = [step[w] EXCEPT !.at = "thought", !.from = "arrived",
                                                   !.left = step[w].left - 1]]
        /\ lock = w /\ lock' = w
    BY <1>9 DEF Arrive
  <2>2. StepMoved(w) /\ step'[w].from = "arrived"
    BY <1>0, <2>1 DEF StepMoved, Steps
  <2> QED  BY <2>1, <2>2, HolderStep
<1>10. ASSUME NEW p \in Procs, NEW c \in Convs, CloseConversation(p, c)
       PROVE  Holder' /\ RolledAtMorning'
  <2>1. lock = "free" /\ time' = time  BY <1>10, CloseConversationDoes
  <2>2. CASE UNCHANGED <<lock, step>>  BY <1>1, <2>1, <2>2
  <2>3. CASE p \in Steppers /\ lock' = p /\ step' = [step EXCEPT ![p].at = "due"]
    <3>1. step'[p].from = step[p].from /\ StepMoved(p)
      BY <2>3, StepAtDoes DEF StepMoved
    <3>2. step[p].from # "rolled"  BY <2>1, <2>3 DEF RolledAtMorning
    <3> QED  BY <2>1, <2>3, <3>1, <3>2, HolderStep
  <2> QED  BY <1>10, <2>2, <2>3, CloseConversationDoes
<1>11. ASSUME NEW c \in Convs, Opens(c) \/ Wakes(c) \/ RoundBegin(c) \/ SaveFails(c)
                               \/ RoundEnd(c) \/ Empties(c)
       PROVE  UNCHANGED <<lock, step, time>>
  BY <1>11 DEF Opens, Wakes, RoundBegin, SaveFails, RoundEnd, Empties, clockVars
<1>12. CASE Crash
  <2>1. \A w \in Steppers : step'[w] = Resting  BY <1>12 DEF Crash
  <2> QED  BY <2>1 DEF Holder, RolledAtMorning, Resting, Held
<1>13. CASE UNCHANGED vars  BY <1>1, <1>13 DEF vars
<1> QED
  BY <1>1, <1>2, <1>3, <1>4, <1>5, <1>6, <1>7, <1>8, <1>9, <1>10, <1>11, <1>12, <1>13
  DEF Next, Stepping, Due, Thinking, CloseNext
-----------------------------------------------------------------------------
(* The clock and the days it passes *)

Clock == ThoughtMarked /\ PendingIsToday /\ Handled /\ NoDaySkipped

\* The caller that holds the lock is the only one a held place can be about.
LEMMA HeldByMe ==
  ASSUME NEW w \in Steppers, lock = w, NEW ats
  PROVE  HeldAt(ats) <=> step[w].at \in ats
BY DEF HeldAt

LEMMA HeldByNone ==
  ASSUME lock = "free", NEW ats
  PROVE  ~HeldAt(ats)
BY Constants DEF HeldAt

\* While the lock is free the day is marked and handled, and stays so.
LEMMA FreeClock ==
  ASSUME Clock, lock = "free", UNCHANGED <<day, time, thought>>, closed \subseteq closed',
         pendEnd' = pendEnd \/ (pendEnd' = None /\ (time = DayEnd => day \in closed'))
  PROVE  Clock'
<1>1. \A ats : ~HeldAt(ats)  BY HeldByNone
<1>2. ThoughtMarked'  BY <1>1 DEF Clock, ThoughtMarked
<1>3. PendingIsToday'  BY DEF Clock, PendingIsToday
<1>4. Handled'  BY <1>1 DEF Clock, Handled
<1>5. NoDaySkipped'  BY DEF Clock, NoDaySkipped
<1> QED  BY <1>2, <1>3, <1>4, <1>5 DEF Clock

\* A section that holds the lock and leaves the clock alone.
LEMMA HeldClock ==
  ASSUME Clock, NEW w \in Steppers, lock = w, step[w].at # "thought",
         UNCHANGED <<day, time, thought>>, closed \subseteq closed',
         pendEnd' # None => pendEnd' = day /\ time = DayEnd,
         time = DayEnd => \/ day \in closed' \/ pendEnd' # None
                          \/ lock' = w /\ step'[w].at = "boundary"
  PROVE  Clock'
<1>1. ~HeldAt({"thought"})  BY HeldByMe
<1>2. ThoughtMarked'  BY <1>1 DEF Clock, ThoughtMarked
<1>3. PendingIsToday'  BY DEF PendingIsToday
<1>4. Handled'  BY DEF Handled, HeldAt
<1>5. NoDaySkipped'  BY DEF Clock, NoDaySkipped
<1> QED  BY <1>2, <1>3, <1>4, <1>5 DEF Clock

LEMMA NextClock ==
  ASSUME DayTypeOK, RolledAtMorning, Clock, Deadline, [Next]_vars
  PROVE  Clock'
<1> USE Constants
<1>0. /\ step \in [Steppers -> Steps] /\ day \in 1..LastDay /\ time \in Morning..DayEnd
      /\ pendEnd # None => pendEnd \in 1..LastDay
  BY DEF DayTypeOK, Steps
<1>1. CASE UNCHANGED <<lock, day, time, thought, pendEnd, closed, step>>
  BY <1>1 DEF Clock, ThoughtMarked, PendingIsToday, Handled, NoDaySkipped, HeldAt
<1>2. ASSUME NEW w \in Steppers, StepBegin(w) \/ ThinkDone(w) \/ ThinkRaises(w)
      PROVE  Clock'
  <2>1. lock = "free" /\ UNCHANGED <<day, time, thought, closed, pendEnd>>
    BY <1>2 DEF StepBegin, ThinkDone, ThinkRaises, clockVars, deferVars, endVars
  <2> QED  BY <2>1, FreeClock
<1>3. ASSUME NEW w \in Steppers, DueThought(w)
      PROVE  Clock'
  <2>0. /\ lock = w /\ step[w].at = "thought"
        /\ UNCHANGED <<day, time, closed, pendEnd>>
    BY <1>3 DEF DueThought, clockVars, deferVars, endVars
  <2>1. day \in thought' \/ time < Thought
    BY <1>0, <1>3 DEF DueThought
  <2>2. ThoughtMarked'
    BY <1>0, <2>0, <2>1 DEF ThoughtMarked
  <2>3. Handled'
    <3>1. CASE time = DayEnd
      <4>1. day \in thought  BY <3>1 DEF Clock, ThoughtMarked
      <4>2. step' = [step EXCEPT ![w].at = "deadline"] /\ lock' = lock
        BY <1>3, <4>1 DEF DueThought
      <4>3. step'[w].at = "deadline"  BY <4>2, StepAtDoes
      <4> QED  BY <2>0, <4>2, <4>3 DEF Handled, HeldAt
    <3>2. CASE time # DayEnd  BY <2>0, <3>2 DEF Handled
    <3> QED  BY <3>1, <3>2
  <2>4. PendingIsToday' /\ NoDaySkipped'
    BY <2>0 DEF Clock, PendingIsToday, NoDaySkipped
  <2> QED  BY <2>2, <2>3, <2>4 DEF Clock
<1>4. ASSUME NEW w \in Steppers, DueDeadline(w)
      PROVE  Clock'
  <2> w \in Procs  BY DEF Procs
  <2>0. /\ lock = w /\ step[w].at = "deadline"
        /\ UNCHANGED <<day, time, thought>>
    BY <1>4 DEF DueDeadline
  <2>1. CASE AtEnd /\ ~fired /\ pipelines > 0
    <3>1. pendEnd' = LastDay /\ UNCHANGED closed
      BY <1>4, <2>1 DEF DueDeadline, AtEnd, endVars
    <3> QED  BY <2>0, <2>1, <3>1, HeldClock DEF AtEnd
  <2>2. CASE AtEnd /\ ~fired /\ ~(pipelines > 0)
    <3>1. ~finished  BY <2>2 DEF Deadline
    <3>2. CloseDay(w, LastDay, TRUE) /\ UNCHANGED pendEnd
      BY <1>4, <2>2, <3>1 DEF DueDeadline, AtEnd, FinishChapter, deferVars
    <3>3. closed' = closed \cup {LastDay}  BY <3>2 DEF CloseDay
    <3>4. pendEnd' # None => pendEnd' = day /\ time = DayEnd
      BY <3>2 DEF Clock, PendingIsToday
    <3> QED  BY <2>0, <2>2, <3>3, <3>4, HeldClock DEF AtEnd
  <2>3. CASE ~(AtEnd /\ ~fired)
    <3>1. step' = [step EXCEPT ![w].at = "boundary"] /\ UNCHANGED <<lock, pendEnd, closed>>
      BY <1>4, <2>3 DEF DueDeadline, AtEnd, deferVars, endVars
    <3>2. step'[w].at = "boundary"  BY <3>1, StepAtDoes
    <3>3. pendEnd' # None => pendEnd' = day /\ time = DayEnd
      BY <3>1 DEF Clock, PendingIsToday
    <3> QED  BY <2>0, <3>1, <3>2, <3>3, HeldClock
  <2> QED  BY <2>1, <2>2, <2>3
<1>5. ASSUME NEW w \in Steppers, DueBoundary(w)
      PROVE  Clock'
  <2> w \in Procs  BY DEF Procs
  <2>0. /\ lock = w /\ step[w].at = "boundary"
        /\ UNCHANGED <<day, time, thought>>
    BY <1>5 DEF DueBoundary
  <2>1. CASE ~finished /\ time = DayEnd /\ pipelines > 0
    <3>1. pendEnd' = day /\ UNCHANGED closed
      BY <1>5, <2>1 DEF DueBoundary, endVars
    <3> QED  BY <1>0, <2>0, <2>1, <3>1, HeldClock
  <2>2. CASE ~finished /\ time = DayEnd /\ ~(pipelines > 0)
    <3>1. CloseDay(w, day, FALSE) /\ UNCHANGED pendEnd
      BY <1>5, <2>2 DEF DueBoundary
    <3>2. closed' = closed \cup {day}  BY <3>1 DEF CloseDay
    <3>3. pendEnd' # None => pendEnd' = day /\ time = DayEnd
      BY <3>1 DEF Clock, PendingIsToday
    <3> QED  BY <2>0, <2>2, <3>2, <3>3, HeldClock
  <2>3. CASE ~(~finished /\ time = DayEnd)
    <3>1. UNCHANGED <<pendEnd, closed>>
      BY <1>5, <2>3 DEF DueBoundary, endVars
    <3>2. pendEnd' # None => pendEnd' = day /\ time = DayEnd
      BY <3>1 DEF Clock, PendingIsToday
    <3>3. time = DayEnd => day \in closed'
      BY <2>3, <3>1 DEF Deadline, AtEnd
    <3> QED  BY <2>0, <3>1, <3>2, <3>3, HeldClock
  <2> QED  BY <2>1, <2>2, <2>3
<1>6. ASSUME NEW w \in Steppers, StepEnd(w)
      PROVE  Clock'
  <2>1. /\ lock = w /\ step[w].at = "due"
        /\ UNCHANGED <<day, time, thought, closed, pendEnd>>
    BY <1>6 DEF StepEnd, clockVars, deferVars, endVars
  <2>2. ~HeldAt({"thought", "deadline", "boundary"})  BY <2>1, HeldByMe
  <2>3. pendEnd' # None => pendEnd' = day /\ time = DayEnd
    BY <2>1 DEF Clock, PendingIsToday
  <2>4. time = DayEnd => day \in closed' \/ pendEnd' # None
    BY <2>1, <2>2 DEF Clock, Handled
  <2> QED  BY <2>1, <2>3, <2>4, HeldClock
<1>7. ASSUME NEW w \in Steppers, NextDay(w)
      PROVE  Clock'
  <2>1. /\ lock = w /\ step[w].at = "due" /\ step[w].left > 0 /\ ~HeldBack(w)
        /\ time = DayEnd /\ day' = day + 1 /\ time' = Morning
        /\ UNCHANGED <<thought, closed, pendEnd>>
    BY <1>7 DEF NextDay, deferVars, endVars
  <2>2. step[w].from # "rolled"  BY <2>1 DEF RolledAtMorning
  <2>3. step[w].from \in {"start", "arrived", "rolled"}  BY <1>0 DEF Steps
  <2>4. pendEnd = None  BY <2>1, <2>2, <2>3 DEF HeldBack
  <2>5. ~HeldAt({"thought", "deadline", "boundary"})  BY <2>1, HeldByMe
  <2>6. day \in closed  BY <2>1, <2>4, <2>5 DEF Clock, Handled
  <2>7. \A d \in 1..day : d \in closed
    BY <1>0, <2>6 DEF Clock, NoDaySkipped
  <2>8. NoDaySkipped'  BY <1>0, <2>1, <2>7 DEF NoDaySkipped
  <2> QED
    BY <2>1, <2>4, <2>8 DEF Clock, ThoughtMarked, PendingIsToday, Handled
<1>8. ASSUME NEW w \in Steppers, Arrive(w)
      PROVE  Clock'
  <2>1. /\ lock = w /\ step[w].at = "due" /\ time < DayEnd /\ time' = time + 1 /\ lock' = w
        /\ UNCHANGED <<day, thought, closed, pendEnd>>
    BY <1>8 DEF Arrive, deferVars, endVars
  <2>2. step'[w].at = "thought"
    <3>1. step' = [step EXCEPT ![w] = [step[w] EXCEPT !.at = "thought", !.from = "arrived",
                                                     !.left = step[w].left - 1]]
      BY <1>8 DEF Arrive
    <3> QED  BY <1>0, <3>1 DEF Steps
  <2>3. ~HeldAt({"thought"})  BY <2>1, HeldByMe
  <2>4. ThoughtMarked'
    <3>1. HeldAt({"thought"})'  BY <2>1, <2>2 DEF HeldAt
    <3>2. time' > Thought => day \in thought
      BY <1>0, <2>1, <2>3 DEF Clock, ThoughtMarked
    <3> QED  BY <2>1, <3>1, <3>2 DEF ThoughtMarked
  <2>5. Handled'  BY <2>1, <2>2 DEF Handled, HeldAt
  <2>6. PendingIsToday' /\ NoDaySkipped'
    BY <2>1 DEF Clock, PendingIsToday, NoDaySkipped
  <2> QED  BY <2>4, <2>5, <2>6 DEF Clock
<1>9. ASSUME NEW p \in Procs, NEW c \in Convs, CloseConversation(p, c)
      PROVE  Clock'
  BY <1>9, CloseConversationDoes, FreeClock
<1>10. ASSUME NEW c \in Convs, Opens(c) \/ Wakes(c) \/ RoundBegin(c) \/ SaveFails(c) \/ Empties(c)
       PROVE  UNCHANGED <<lock, day, time, thought, pendEnd, closed, step>>
  BY <1>10 DEF Opens, Wakes, RoundBegin, SaveFails, Empties, clockVars, deferVars, endVars
<1>11. ASSUME NEW c \in Convs, RoundEnd(c)
       PROVE  Clock'
  <2> c \in Procs  BY DEF Procs
  <2>0. lock = "free" /\ UNCHANGED <<day, time, thought>> /\ Boundary(c)
    BY <1>11 DEF RoundEnd
  <2>1. CASE /\ pipelines' = 0 /\ pendCh /\ pendEnd' = None
             /\ IF finished THEN UNCHANGED <<ended, closed, fired, finished, close, dayEnded, resolved>>
                            ELSE CloseDay(c, LastDay, TRUE)
    <3>1. day = LastDay /\ (finished => LastDay \in closed)  BY <2>1 DEF Deadline, AtEnd
    <3>2. closed \subseteq closed' /\ LastDay \in closed'
      BY <2>1, <3>1 DEF CloseDay
    <3> QED  BY <2>0, <2>1, <3>1, <3>2, FreeClock
  <2>2. CASE pendEnd # None /\ pendEnd' = None /\ CloseDay(c, pendEnd, FALSE)
    <3>1. pendEnd = day  BY <2>2 DEF Clock, PendingIsToday
    <3>2. closed' = closed \cup {day}  BY <2>2, <3>1 DEF CloseDay
    <3> QED  BY <2>0, <2>2, <3>2, FreeClock
  <2>3. CASE UNCHANGED <<pendEnd, closed>>
    BY <2>0, <2>3, FreeClock
  <2> QED  BY <2>0, <2>1, <2>2, <2>3, BoundaryDoes
<1>12. CASE Crash
  <2>1. lock = "free" /\ UNCHANGED <<day, time, thought, closed, pendEnd>>
    BY <1>12 DEF Crash, clockVars, deferVars
  <2> QED  BY <2>1, FreeClock
<1>13. CASE UNCHANGED vars  BY <1>1, <1>13 DEF vars
<1> QED
  BY <1>1, <1>2, <1>3, <1>4, <1>5, <1>6, <1>7, <1>8, <1>9, <1>10, <1>11, <1>12, <1>13
  DEF Next, Stepping, Due, Thinking, CloseNext
-----------------------------------------------------------------------------
(* The deadline of the last day *)

\* A step that neither defers the deadline nor takes it up.
LEMMA DeadlineStays ==
  ASSUME Deadline, UNCHANGED <<day, time>>,
         ended' <=> ended, pendCh' <=> pendCh, fired' <=> fired, finished' => fired,
         LastDay \in closed' <=> LastDay \in closed,
         \A v \in Steppers : step'[v].at \in {"thought", "deadline"} =>
                             step[v].at \in {"thought", "deadline"},
         AtEnd => pendCh \/ fired \/ HeldAt({"thought", "deadline"})',
         pendCh /\ pipelines' = 0 => \A v \in Steppers : step'[v].at = "idle"
  PROVE  Deadline'
<1>1. AtEnd' <=> AtEnd  BY DEF AtEnd
<1> QED  BY <1>1 DEF Deadline

\* Before the end of the last day nothing of the deadline has happened.
LEMMA BeforeTheEnd ==
  ASSUME Deadline, ~AtEnd
  PROVE  ~ended /\ ~pendCh /\ ~fired /\ ~finished /\ LastDay \notin closed
BY DEF Deadline

LEMMA StillBeforeTheEnd ==
  ASSUME Deadline, ~AtEnd, ended' <=> AtEnd', ~pendCh', ~fired', ~finished',
         LastDay \notin closed', AtEnd' => HeldAt({"thought", "deadline"})'
  PROVE  Deadline'
BY DEF Deadline

LEMMA NextDeadline ==
  ASSUME DayTypeOK, Holder, Clock, Deadline, StepCloses, Closings, ChapterCloses, [Next]_vars
  PROVE  Deadline'
<1> USE Constants
<1>0. /\ step \in [Steppers -> Steps] /\ day \in 1..LastDay /\ time \in Morning..DayEnd
      /\ pipelines \in Nat
  BY DEF DayTypeOK, Steps
<1>1. CASE UNCHANGED <<lock, day, time, closed, step, ended, pendCh, fired, finished>>
           /\ (pipelines' = pipelines \/ pipelines' = pipelines + 1)
  <2>1. (ended' <=> ended) /\ (pendCh' <=> pendCh) /\ (fired' <=> fired) /\ (finished' <=> finished)
    BY <1>1, Zenon
  <2>2. HeldAt({"thought", "deadline"})' <=> HeldAt({"thought", "deadline"})
    BY <1>1 DEF HeldAt
  <2>3. /\ finished => fired
        /\ AtEnd => pendCh \/ fired \/ HeldAt({"thought", "deadline"})
        /\ pendCh /\ pipelines = 0 => \A v \in Steppers : step[v].at = "idle"
    BY DEF Deadline
  <2>4. pipelines' = 0 => pipelines = 0  BY <1>0, <1>1
  <2> QED  BY <1>1, <2>1, <2>2, <2>3, <2>4, DeadlineStays
<1>2. ASSUME UNCHANGED <<ended, pendCh, fired, finished>>
      PROVE  (ended' <=> ended) /\ (pendCh' <=> pendCh) /\ (fired' <=> fired) /\ (finished' <=> finished)
  BY <1>2, Zenon
<1>3. lock = "free" /\ AtEnd => pendCh \/ fired
  BY HeldByNone DEF Deadline
<1>4. ASSUME NEW w \in Steppers, lock = w, step[w].at \notin {"thought", "deadline"}
      PROVE  AtEnd => pendCh \/ fired
  BY <1>4, HeldByMe DEF Deadline
<1>5. ASSUME NEW w \in Steppers, step[w].at # "idle", pendCh
      PROVE  pipelines # 0
  BY <1>5 DEF Deadline
<1>6. ASSUME NEW w \in Steppers, StepBegin(w)
      PROVE  Deadline'
  <2>1. ~ended /\ UNCHANGED <<day, time, closed, ended, pendCh, fired, finished>>
    BY <1>6 DEF StepBegin, clockVars, deferVars, endVars
  <2>2. ~AtEnd  BY <2>1 DEF Deadline
  <2>3. ~AtEnd'  BY <2>1, <2>2 DEF AtEnd
  <2> QED  BY <1>2, <2>1, <2>2, <2>3, BeforeTheEnd, StillBeforeTheEnd
<1>7. ASSUME NEW w \in Steppers, DueThought(w)
      PROVE  Deadline'
  <2>1. /\ lock = w /\ step[w].at = "thought"
        /\ UNCHANGED <<day, time, closed, ended, pendCh, fired, finished>>
    BY <1>7 DEF DueThought, clockVars, deferVars, endVars
  <2>2. ~pendCh /\ ~fired /\ ~finished /\ LastDay \notin closed  BY <2>1 DEF Deadline
  <2>3. ASSUME AtEnd
        PROVE  HeldAt({"thought", "deadline"})'
    <3>1. day \in thought  BY <2>3 DEF AtEnd, Clock, ThoughtMarked
    <3>2. step' = [step EXCEPT ![w].at = "deadline"] /\ lock' = lock
      BY <1>7, <3>1 DEF DueThought
    <3>3. step'[w].at = "deadline"  BY <3>2, StepAtDoes
    <3> QED  BY <2>1, <3>2, <3>3 DEF HeldAt
  <2>4. ended <=> AtEnd  BY DEF Deadline
  <2>5. AtEnd' <=> AtEnd  BY <2>1 DEF AtEnd
  <2> QED  BY <1>2, <2>1, <2>2, <2>3, <2>4, <2>5 DEF Deadline
<1>8. ASSUME NEW w \in Steppers, ThinkDone(w) \/ ThinkRaises(w) \/ StepEnd(w)
      PROVE  Deadline'
  <2>0. UNCHANGED <<day, time, closed, ended, pendCh, fired, finished, pipelines>>
    BY <1>8 DEF ThinkDone, ThinkRaises, StepEnd, clockVars, chatVars, deferVars, endVars
  <2>1. step[w].at \in {"thinking", "due"} /\ (lock = "free" \/ (lock = w /\ step[w].at = "due"))
    BY <1>8 DEF ThinkDone, ThinkRaises, StepEnd
  <2>2. PICK r \in Steps : step' = [step EXCEPT ![w] = r] /\ r.at \in {"idle", "boundary"}
    <3>1. CASE ThinkDone(w)
      <4>1. step' = [step EXCEPT ![w] = [step[w] EXCEPT !.at = "boundary", !.asked = None]]
        BY <3>1 DEF ThinkDone
      <4> DEFINE r == [step[w] EXCEPT !.at = "boundary", !.asked = None]
      <4>2. r \in Steps /\ r.at = "boundary"  BY <1>0 DEF Steps
      <4> QED  BY <4>1, <4>2
    <3>2. CASE ThinkRaises(w) \/ StepEnd(w)
      <4>1. Resting \in Steps /\ Resting.at = "idle"  BY DEF Resting, Steps
      <4> QED  BY <3>2, <4>1 DEF ThinkRaises, StepEnd
    <3> QED  BY <1>8, <3>1, <3>2
  <2>3. \A v \in Steppers : step'[v].at \in {"thought", "deadline"} =>
                            step[v].at \in {"thought", "deadline"}
    BY <1>0, <2>2
  <2>4. AtEnd => pendCh \/ fired  BY <1>3, <1>4, <2>1
  <2>5. ~(pendCh /\ pipelines' = 0)  BY <1>5, <2>0, <2>1
  <2>6. finished' => fired  BY <1>2, <2>0 DEF Deadline
  <2> QED  BY <1>2, <2>0, <2>3, <2>4, <2>5, <2>6, DeadlineStays
<1>9. ASSUME NEW w \in Steppers, DueDeadline(w)
      PROVE  Deadline'
  <2> w \in Procs  BY DEF Procs
  <2>0. /\ lock = w /\ step[w].at = "deadline"
        /\ UNCHANGED <<day, time, pipelines>>
    BY <1>9 DEF DueDeadline, chatVars
  <2>1. ~pendCh /\ ~fired /\ ~finished /\ LastDay \notin closed  BY <2>0 DEF Deadline
  <2>2. AtEnd' <=> AtEnd  BY <2>0 DEF AtEnd
  <2>3. PICK at \in {"closing", "due", "boundary"} : step' = [step EXCEPT ![w].at = at]
    BY <1>9 DEF DueDeadline
  <2>4. \A v \in Steppers : step'[v].at \notin {"thought", "deadline"}
    <3>1. step'[w].at = at /\ \A v \in Steppers : v # w => step'[v] = step[v]
      BY <2>3, StepAtDoes
    <3>2. \A v \in Steppers : v # w => step[v].at \notin {"thought", "deadline"}
      BY <2>0 DEF Holder, Held
    <3> QED  BY <3>1, <3>2
  <2>5. CASE AtEnd /\ pipelines > 0
    <3>1. pendCh' = TRUE /\ UNCHANGED <<ended, closed, fired, finished>>
      BY <1>9, <2>1, <2>5 DEF DueDeadline, AtEnd, endVars
    <3>2. pendCh' /\ (ended' <=> ended) /\ ~fired' /\ ~finished'
      BY <2>1, <3>1, Zenon
    <3>3. ended  BY <2>5 DEF Deadline
    <3> QED  BY <2>0, <2>1, <2>2, <2>4, <2>5, <3>1, <3>2, <3>3 DEF Deadline
  <2>6. CASE AtEnd /\ ~(pipelines > 0)
    <3>1. CloseDay(w, LastDay, TRUE) /\ UNCHANGED pendCh
      BY <1>9, <2>1, <2>6 DEF DueDeadline, AtEnd, FinishChapter, deferVars
    <3>2. ~pendCh'  BY <2>1, <3>1, Zenon
    <3>3. closed' = closed \cup {LastDay} /\ fired'
      BY <3>1, CloseDayDoes
    <3>4. ended'
      <4>1. ended  BY <2>6 DEF Deadline
      <4> QED  BY <3>1, <4>1, CloseDayDoes DEF Waits
    <3> QED  BY <2>2, <2>4, <2>6, <3>2, <3>3, <3>4 DEF Deadline
  <2>7. CASE ~AtEnd
    <3>1. UNCHANGED <<closed, ended, pendCh, fired, finished>>
      BY <1>9, <2>7 DEF DueDeadline, AtEnd, deferVars, endVars
    <3> QED  BY <1>2, <2>2, <2>7, <3>1, BeforeTheEnd, StillBeforeTheEnd
  <2> QED  BY <2>5, <2>6, <2>7
<1>10. ASSUME NEW w \in Steppers, DueBoundary(w)
      PROVE  Deadline'
  <2> w \in Procs  BY DEF Procs
  <2>0. /\ lock = w /\ step[w].at = "boundary"
        /\ UNCHANGED <<day, time, pipelines, pendCh>>
    BY <1>10 DEF DueBoundary, chatVars
  <2>1. PICK at \in {"closing", "due"} : step' = [step EXCEPT ![w].at = at]
    BY <1>10 DEF DueBoundary
  <2>2. \A v \in Steppers : step'[v].at \in {"thought", "deadline"} =>
                            step[v].at \in {"thought", "deadline"}
    BY <2>1, StepAtDoes
  <2>3. AtEnd => pendCh \/ fired  BY <1>4, <2>0
  <2>4. pendCh => pipelines # 0  BY <1>5, <2>0
  <2>5. pendCh' <=> pendCh  BY <2>0, Zenon
  <2>6. finished => fired  BY DEF Deadline
  <2>7. CASE UNCHANGED <<ended, closed, fired, finished>>
    <3>1. (ended' <=> ended) /\ (fired' <=> fired) /\ (finished' <=> finished)
      BY <2>7, Zenon
    <3> QED  BY <2>0, <2>2, <2>3, <2>4, <2>5, <2>6, <2>7, <3>1, DeadlineStays
  <2>8. CASE time = DayEnd /\ ~(pipelines > 0) /\ CloseDay(w, day, FALSE)
    <3>1. /\ closed' = closed \cup {day} /\ (fired' <=> fired)
          /\ (ended' <=> ended) /\ (finished' <=> finished)
      BY <1>0, <2>8, CloseDayDoes DEF Waits
    <3>2. ~pendCh  BY <1>0, <2>4, <2>8
    <3>3. LastDay \in closed' <=> LastDay \in closed
      <4>1. CASE day = LastDay
        <5>1. fired  BY <2>3, <2>8, <3>2, <4>1 DEF AtEnd
        <5> QED  BY <3>1, <5>1 DEF Deadline
      <4>2. CASE day # LastDay  BY <3>1, <4>2
      <4> QED  BY <4>1, <4>2
    <3> QED  BY <2>0, <2>2, <2>3, <2>5, <2>6, <3>1, <3>2, <3>3, DeadlineStays
  <2> QED  BY <1>10, <2>7, <2>8 DEF DueBoundary, endVars
<1>11. ASSUME NEW w \in Steppers, NextDay(w)
      PROVE  Deadline'
  <2>1. /\ day < LastDay /\ time' = Morning
        /\ UNCHANGED <<closed, ended, pendCh, fired, finished>>
    BY <1>11 DEF NextDay, deferVars, endVars
  <2>2. ~AtEnd /\ ~AtEnd'  BY <1>0, <2>1 DEF AtEnd
  <2> QED  BY <1>2, <2>1, <2>2, BeforeTheEnd, StillBeforeTheEnd
<1>12. ASSUME NEW w \in Steppers, Arrive(w)
      PROVE  Deadline'
  <2>1. /\ time < DayEnd /\ lock = w /\ lock' = w
        /\ UNCHANGED <<day, closed, pendCh, fired, finished>>
    BY <1>12 DEF Arrive, deferVars, endVars
  <2>2. ended' <=> AtEnd'
    <3>1. ended' <=> (day = LastDay /\ time' = DayEnd)  BY <1>12, Zenon DEF Arrive
    <3> QED  BY <2>1, <3>1 DEF AtEnd
  <2>3. step'[w].at = "thought"
    <3>1. step' = [step EXCEPT ![w] = [step[w] EXCEPT !.at = "thought", !.from = "arrived",
                                                     !.left = step[w].left - 1]]
      BY <1>12 DEF Arrive
    <3> QED  BY <1>0, <3>1 DEF Steps
  <2>4. HeldAt({"thought", "deadline"})'  BY <2>1, <2>3 DEF HeldAt
  <2>5. ~AtEnd  BY <2>1 DEF AtEnd
  <2>6. ~pendCh' /\ ~fired' /\ ~finished'  BY <2>1, <2>5, BeforeTheEnd, Zenon
  <2> QED  BY <2>1, <2>2, <2>4, <2>5, <2>6, BeforeTheEnd, StillBeforeTheEnd
<1>13. ASSUME NEW p \in Procs, NEW c \in Convs, CloseConversation(p, c)
       PROVE  Deadline'
  <2>1. /\ lock = "free" /\ UNCHANGED <<day, time, closed, pipelines>>
        /\ pendCh' <=> pendCh
        /\ fired' <=> fired
        /\ close[p].day \in 1..LastDay
    BY <1>13, CloseConversationDoes
  <2>2. close[p].chapter => fired
    <3>1. close[p].day \in closed  BY <2>1 DEF Closings, Closing
    <3> QED  BY <3>1 DEF ChapterCloses, Deadline
  <2>3. (finished' => fired) /\ (ended' <=> ended)
    <3>1. (finished => fired) /\ (fired => ended)  BY DEF Deadline
    <3> QED  BY <1>13, <2>2, <3>1, CloseConversationDoes
  <2>4. AtEnd => pendCh \/ fired  BY <1>3, <2>1
  <2>5. CASE step' = step
    <3>1. pendCh /\ pipelines' = 0 => \A v \in Steppers : step'[v].at = "idle"
      BY <2>1, <2>5 DEF Deadline
    <3> QED  BY <2>1, <2>3, <2>4, <2>5, <3>1, DeadlineStays
  <2>6. CASE p \in Steppers /\ step' = [step EXCEPT ![p].at = "due"]
    <3>1. step[p].at = "closing"
      BY <2>1, <2>6 DEF StepCloses, Closing
    <3>2. ~(pendCh /\ pipelines' = 0)  BY <1>5, <2>1, <2>6, <3>1
    <3>3. \A v \in Steppers : step'[v].at \in {"thought", "deadline"} =>
                              step[v].at \in {"thought", "deadline"}
      BY <2>6, StepAtDoes
    <3> QED  BY <2>1, <2>3, <2>4, <3>2, <3>3, DeadlineStays
  <2> QED  BY <1>13, <2>5, <2>6, CloseConversationDoes
<1>14. ASSUME NEW c \in Convs, Opens(c) \/ Wakes(c) \/ RoundBegin(c) \/ SaveFails(c) \/ Empties(c)
       PROVE  UNCHANGED <<lock, day, time, closed, step, ended, pendCh, fired, finished>>
              /\ (pipelines' = pipelines \/ pipelines' = pipelines + 1)
  BY <1>14 DEF Opens, Wakes, RoundBegin, SaveFails, Empties, clockVars, deferVars, endVars
<1>15. ASSUME NEW c \in Convs, RoundEnd(c)
       PROVE  Deadline'
  <2> c \in Procs  BY DEF Procs
  <2>0. lock = "free" /\ UNCHANGED <<lock, day, time, step>> /\ Boundary(c)
    BY <1>15 DEF RoundEnd
  <2>1. AtEnd' <=> AtEnd  BY <2>0 DEF AtEnd
  <2>2. AtEnd => pendCh \/ fired  BY <1>3, <2>0
  <2>3. CASE /\ pendCh /\ ~pendCh'
             /\ IF finished THEN UNCHANGED <<ended, closed, fired, finished, close, dayEnded, resolved>>
                            ELSE CloseDay(c, LastDay, TRUE)
    <3>1. AtEnd /\ ended /\ ~fired /\ ~finished  BY <2>3 DEF Deadline
    <3>2. CloseDay(c, LastDay, TRUE)  BY <2>3, <3>1
    <3>3. closed' = closed \cup {LastDay} /\ fired'  BY <3>2, CloseDayDoes
    <3>4. ended'  BY <3>1, <3>2, CloseDayDoes DEF Waits
    <3>5. \A v \in Steppers : step'[v].at \notin {"thought", "deadline"}
      BY <2>0, <2>3 DEF Deadline
    <3> QED  BY <2>1, <2>3, <3>1, <3>3, <3>4, <3>5 DEF Deadline
  <2>4. CASE /\ ~pendCh /\ pendEnd # None /\ ~pendCh' /\ CloseDay(c, pendEnd, FALSE)
    <3>1. pendEnd = day /\ time = DayEnd  BY <2>4 DEF Clock, PendingIsToday
    <3>2. /\ closed' = closed \cup {day} /\ (fired' <=> fired)
          /\ (ended' <=> ended) /\ (finished' <=> finished)
      BY <1>0, <2>4, <3>1, CloseDayDoes DEF Waits
    <3>3. LastDay \in closed' <=> LastDay \in closed
      <4>1. CASE day = LastDay
        <5>1. fired  BY <2>2, <2>4, <3>1, <4>1 DEF AtEnd
        <5> QED  BY <3>2, <5>1 DEF Deadline
      <4>2. CASE day # LastDay  BY <3>2, <4>2
      <4> QED  BY <4>1, <4>2
    <3>4. finished' => fired  BY <3>2 DEF Deadline
    <3> QED  BY <2>0, <2>2, <2>4, <3>2, <3>3, <3>4, DeadlineStays
  <2>5. CASE /\ pipelines' = 0 => ~pendCh
             /\ UNCHANGED <<ended, pendCh, closed, fired, finished>>
    <3>1. finished' => fired  BY <1>2, <2>5 DEF Deadline
    <3> QED  BY <1>2, <2>0, <2>2, <2>5, <3>1, DeadlineStays
  <2> QED  BY <2>0, <2>3, <2>4, <2>5, BoundaryDoes
<1>16. CASE Crash
  <2>1. lock = "free" /\ UNCHANGED <<day, time, closed, ended, pendCh, fired, finished>>
    BY <1>16 DEF Crash, clockVars, deferVars
  <2>2. \A w \in Steppers : step'[w].at = "idle"  BY <1>16 DEF Crash, Resting
  <2>3. finished' => fired  BY <1>2, <2>1 DEF Deadline
  <2> QED  BY <1>2, <1>3, <2>1, <2>2, <2>3, DeadlineStays
<1>17. CASE UNCHANGED vars  BY <1>1, <1>17 DEF vars
<1> QED
  BY <1>1, <1>6, <1>7, <1>8, <1>9, <1>10, <1>11, <1>12, <1>13, <1>14, <1>15, <1>16, <1>17
  DEF Next, Stepping, Due, Thinking, CloseNext
-----------------------------------------------------------------------------
(* Who waits for a closing, and who owns a deferred boundary *)

LEMMA NextStepCloses ==
  ASSUME DayTypeOK, StepCloses, Deadline, [Next]_vars
  PROVE  StepCloses'
<1> USE Constants
<1>0. /\ step \in [Steppers -> Steps] /\ close \in [Procs -> Closes]
      /\ day \in 1..LastDay /\ pendEnd # None => pendEnd \in 1..LastDay
      /\ \A w \in Steppers : w \in Procs /\ w \notin Convs
  BY DEF DayTypeOK, Steps, Closes, Procs
<1>1. CASE UNCHANGED <<step, close>>
  BY <1>1 DEF StepCloses, Closing
<1>2. ASSUME NEW w \in Steppers, close' = close, step[w].at # "closing",
             StepMoved(w), step'[w].at # "closing"
      PROVE  StepCloses'
  BY <1>2 DEF StepCloses, Closing, StepMoved
<1>3. ASSUME NEW w \in Steppers, StepBegin(w) \/ DueThought(w) \/ Thinking(w)
                                 \/ StepEnd(w) \/ NextDay(w) \/ Arrive(w)
      PROVE  StepCloses'
  <2>1. close' = close /\ step[w].at # "closing"
    BY <1>3 DEF StepBegin, DueThought, Thinking, ThinkDone, ThinkRaises, StepEnd, NextDay,
                Arrive, endVars
  <2>0. step[w] \in Steps  BY <1>0
  <2>2. PICK r \in Steps : step' = [step EXCEPT ![w] = r] /\ r.at # "closing"
    <3>1. CASE StepBegin(w)
      <4>1. PICK n \in 1..MaxStep : step' = [step EXCEPT ![w] = [step[w] EXCEPT !.at = "thought", !.left = n]]
        BY <3>1 DEF StepBegin
      <4>0. n \in Nat  BY BoundaryAssumption
      <4>2. [step[w] EXCEPT !.at = "thought", !.left = n] \in Steps
        BY <2>0, <4>0 DEF Steps
      <4>3. [step[w] EXCEPT !.at = "thought", !.left = n].at = "thought"
        BY <1>0 DEF Steps
      <4> QED  BY <4>1, <4>2, <4>3
    <3>2. CASE DueThought(w)
      <4>1. [step[w] EXCEPT !.at = "deadline"] \in Steps
            /\ [step[w] EXCEPT !.at = "deadline"].at = "deadline"
        BY <1>0 DEF Steps
      <4>0. day \in 1..LastDay  BY DEF DayTypeOK
      <4>2. [step[w] EXCEPT !.at = "thinking", !.asked = day] \in Steps
            /\ [step[w] EXCEPT !.at = "thinking", !.asked = day].at = "thinking"
        BY <2>0, <4>0 DEF Steps
      <4>3. \/ step' = [step EXCEPT ![w] = [step[w] EXCEPT !.at = "deadline"]]
            \/ step' = [step EXCEPT ![w] = [step[w] EXCEPT !.at = "thinking", !.asked = day]]
        BY <3>2 DEF DueThought
      <4> QED  BY <4>1, <4>2, <4>3
    <3>3. CASE ThinkDone(w)
      <4>1. [step[w] EXCEPT !.at = "boundary", !.asked = None] \in Steps
            /\ [step[w] EXCEPT !.at = "boundary", !.asked = None].at = "boundary"
        BY <1>0 DEF Steps
      <4> QED  BY <3>3, <4>1 DEF ThinkDone
    <3>4. CASE ThinkRaises(w) \/ StepEnd(w)
      <4>1. Resting \in Steps /\ Resting.at = "idle"  BY DEF Resting, Steps
      <4> QED  BY <3>4, <4>1 DEF ThinkRaises, StepEnd
    <3>5. CASE NextDay(w)
      <4>1. [step[w] EXCEPT !.at = "thought", !.from = "rolled"] \in Steps
            /\ [step[w] EXCEPT !.at = "thought", !.from = "rolled"].at = "thought"
        BY <1>0 DEF Steps
      <4> QED  BY <3>5, <4>1 DEF NextDay
    <3>6. CASE Arrive(w)
      <4>1. step[w].left - 1 \in Nat  BY <1>0, <3>6 DEF Arrive, Steps
      <4>2. [step[w] EXCEPT !.at = "thought", !.from = "arrived", !.left = step[w].left - 1] \in Steps
            /\ [step[w] EXCEPT !.at = "thought", !.from = "arrived", !.left = step[w].left - 1].at = "thought"
        BY <1>0, <4>1 DEF Steps
      <4> QED  BY <3>6, <4>2 DEF Arrive
    <3> QED  BY <1>3, <3>1, <3>2, <3>3, <3>4, <3>5, <3>6 DEF Thinking
  <2>3. StepMoved(w) /\ step'[w].at # "closing"
    BY <1>0, <2>2 DEF StepMoved
  <2> QED  BY <1>2, <2>1, <2>3
<1>4. ASSUME NEW w \in Steppers, NEW d \in 1..LastDay, NEW chapter \in BOOLEAN,
             CloseDay(w, d, chapter), step[w].at # "closing",
             step' = [step EXCEPT ![w].at = IF Waits(d) THEN "closing" ELSE "due"]
      PROVE  StepCloses'
  <2>1. StepMoved(w) /\ step'[w].at = IF Waits(d) THEN "closing" ELSE "due"
    BY <1>4, StepAtDoes DEF StepMoved
  <2>0. w \in Procs  BY <1>0
  <2>2. close'[w].day # None <=> Waits(d)
    <3>1. ~Waits(d) => close'[w] = NoClose
      BY <1>4, <2>0, CloseDayDoes DEF Waits
    <3>2. Waits(d) => close'[w] = [todo |-> OpenNow, day |-> d, chapter |-> chapter]
      BY <1>4, <2>0, CloseDayDoes
    <3> QED  BY <3>1, <3>2 DEF NoClose
  <2>3. \A v \in Steppers : v # w => close'[v] = close[v]
    BY <1>0, <1>4, <2>0, CloseDayOthers
  <2> QED  BY <2>1, <2>2, <2>3 DEF StepCloses, Closing, StepMoved
<1>5. ASSUME NEW w \in Steppers, DueDeadline(w)
      PROVE  StepCloses'
  <2>1. step[w].at = "deadline"  BY <1>5 DEF DueDeadline
  <2>2. CASE CloseDay(w, LastDay, TRUE)
             /\ step' = [step EXCEPT ![w].at = IF Waits(LastDay) THEN "closing" ELSE "due"]
    BY <1>4, <2>1, <2>2
  <2>3. CASE close' = close /\ \E at \in {"due", "boundary"} : step' = [step EXCEPT ![w].at = at]
    <3>1. StepMoved(w) /\ step'[w].at # "closing"
      BY <2>3, StepAtDoes DEF StepMoved
    <3> QED  BY <1>2, <2>1, <2>3, <3>1
  <2>4. ~finished  BY <2>1 DEF Deadline
  <2> QED  BY <1>5, <2>2, <2>3, <2>4 DEF DueDeadline, FinishChapter, endVars
<1>6. ASSUME NEW w \in Steppers, DueBoundary(w)
      PROVE  StepCloses'
  <2>1. step[w].at = "boundary"  BY <1>6 DEF DueBoundary
  <2>2. CASE CloseDay(w, day, FALSE)
             /\ step' = [step EXCEPT ![w].at = IF Waits(day) THEN "closing" ELSE "due"]
    <3>1. step[w].at # "closing"  BY <2>1
    <3>2. day \in 1..LastDay  BY DEF DayTypeOK
    <3> QED  BY <1>4, <2>2, <3>1, <3>2
  <2>3. CASE close' = close /\ step' = [step EXCEPT ![w].at = "due"]
    <3>1. StepMoved(w) /\ step'[w].at # "closing"
      BY <2>3, StepAtDoes DEF StepMoved
    <3> QED  BY <1>2, <2>1, <2>3, <3>1
  <2> QED  BY <1>6, <2>2, <2>3 DEF DueBoundary, endVars
<1>7. ASSUME NEW p \in Procs, NEW c \in Convs, CloseConversation(p, c)
      PROVE  StepCloses'
  <2>0. \A q \in Procs : q # p => close'[q] = close[q]
    BY <1>7, CloseConversationDoes
  <2>1. CASE p \in Steppers /\ close'[p] = NoClose /\ step' = [step EXCEPT ![p].at = "due"]
    <3>1. StepMoved(p) /\ step'[p].at = "due"  BY <2>1, StepAtDoes DEF StepMoved
    <3> QED  BY <1>0, <2>0, <2>1, <3>1 DEF StepCloses, Closing, StepMoved, NoClose
  <2>2. CASE p \in Convs /\ step' = step
    <3>1. \A w \in Steppers : close'[w] = close[w]  BY <1>0, <2>0, <2>2
    <3> QED  BY <2>2, <3>1 DEF StepCloses, Closing
  <2>3. CASE close'[p].day = close[p].day /\ step' = step
    <3>1. \A w \in Steppers : close'[w].day = close[w].day  BY <1>0, <2>0, <2>3
    <3> QED  BY <2>3, <3>1 DEF StepCloses, Closing
  <2> QED  BY <1>7, <2>1, <2>2, <2>3, CloseConversationDoes
<1>8. ASSUME NEW c \in Convs, Opens(c) \/ Wakes(c) \/ RoundBegin(c) \/ SaveFails(c) \/ Empties(c)
      PROVE  UNCHANGED <<step, close>>
  BY <1>8 DEF Opens, Wakes, RoundBegin, SaveFails, Empties, endVars
<1>9. ASSUME NEW c \in Convs, RoundEnd(c)
      PROVE  StepCloses'
  <2>1. c \in Procs /\ Boundary(c) /\ step' = step  BY <1>9 DEF RoundEnd, Procs
  <2>2. ASSUME NEW w \in Steppers
        PROVE  close'[w] = close[w]
    <3>1. w \in Procs /\ w # c  BY <1>0
    <3>2. CASE CloseDay(c, LastDay, TRUE)  BY <2>1, <3>1, <3>2, CloseDayOthers
    <3>3. CASE CloseDay(c, pendEnd, FALSE)  BY <2>1, <3>1, <3>3, CloseDayOthers
    <3>4. CASE close' = close  BY <3>4
    <3> QED  BY <2>1, <3>2, <3>3, <3>4, BoundaryDoes
  <2> QED  BY <2>1, <2>2 DEF StepCloses, Closing
<1>10. CASE Crash
  BY <1>0, <1>10 DEF Crash, StepCloses, Closing, Resting, NoClose
<1>11. CASE UNCHANGED vars  BY <1>1, <1>11 DEF vars
<1> QED
  BY <1>1, <1>3, <1>5, <1>6, <1>7, <1>8, <1>9, <1>10, <1>11
  DEF Next, Stepping, Due, CloseNext

LEMMA NextOwned ==
  ASSUME DayTypeOK, PipelinesCounted, Owned, [Next]_vars
  PROVE  Owned'
<1>0. /\ pipelines \in Nat /\ used \in [{"fails", "crashes"} -> Nat]
      /\ used["crashes"] \in Nat
  BY DEF DayTypeOK
<1>1. ASSUME UNCHANGED <<pendEnd, pendCh, used>>,
             pipelines' = pipelines \/ pipelines' = pipelines + 1
      PROVE  Owned'
  <2>1. pendCh' <=> pendCh  BY <1>1, Zenon
  <2> QED  BY <1>0, <1>1, <2>1 DEF Owned
<1>2. ASSUME NEW w \in Steppers, StepBegin(w) \/ DueThought(w) \/ Thinking(w)
                                 \/ StepEnd(w) \/ NextDay(w) \/ Arrive(w)
      PROVE  UNCHANGED <<pendEnd, pendCh, used, pipelines>>
  BY <1>2 DEF StepBegin, DueThought, Thinking, ThinkDone, ThinkRaises, StepEnd, NextDay,
              Arrive, clockVars, chatVars, deferVars, endVars
<1>3. ASSUME NEW w \in Steppers, DueDeadline(w) \/ DueBoundary(w)
      PROVE  Owned'
  <2>1. UNCHANGED <<used, pipelines>>
    BY <1>3 DEF DueDeadline, DueBoundary, chatVars
  <2>2. CASE pipelines > 0  BY <2>1, <2>2 DEF Owned
  <2>3. CASE ~(pipelines > 0)
    <3>1. UNCHANGED <<pendEnd, pendCh>>
      BY <1>3, <2>3 DEF DueDeadline, DueBoundary, deferVars
    <3> QED  BY <1>1, <2>1, <3>1
  <2> QED  BY <2>2, <2>3
<1>4. ASSUME NEW p \in Procs, NEW c \in Convs, CloseConversation(p, c)
      PROVE  Owned'
  <2>1. UNCHANGED <<pipelines, pendEnd, used>> /\ (pendCh' <=> pendCh)
    BY <1>4, CloseConversationDoes
  <2> QED  BY <2>1 DEF Owned
<1>5. ASSUME NEW c \in Convs, Opens(c) \/ Wakes(c) \/ RoundBegin(c) \/ Empties(c)
      PROVE  UNCHANGED <<pendEnd, pendCh, used>> /\ (pipelines' = pipelines \/ pipelines' = pipelines + 1)
  BY <1>5 DEF Opens, Wakes, RoundBegin, Empties, deferVars
<1>6. ASSUME NEW c \in Convs, SaveFails(c)
      PROVE  Owned'
  <2>1. pipelines' = pipelines + 1  BY <1>6 DEF SaveFails
  <2> QED  BY <1>0, <2>1 DEF Owned
<1>7. ASSUME NEW c \in Convs, RoundEnd(c)
      PROVE  Owned'
  <2>1. Boundary(c) /\ pipelines' = pipelines - 1 /\ used' = used
    BY <1>7 DEF RoundEnd
  <2>2. pipelines' \in Nat
    <3>1. Cardinality(Models) \in Nat /\ Cardinality(Models) # 0
      BY <1>7, ModelsFinite DEF RoundEnd
    <3> QED  BY <1>0, <2>1, <3>1 DEF PipelinesCounted
  <2>3. CASE pendEnd' = None /\ ~pendCh'  BY <2>3 DEF Owned
  <2>4. CASE /\ pipelines' = 0 => ~pendCh /\ pendEnd = None
             /\ UNCHANGED <<pendEnd, pendCh>>
    <3>1. pendCh' <=> pendCh  BY <2>4, Zenon
    <3> QED  BY <2>2, <2>4, <3>1 DEF Owned
  <2> QED  BY <2>1, <2>3, <2>4, BoundaryDoes
<1>8. CASE Crash
  <2>1. used'["crashes"] > 0  BY <1>0, <1>8 DEF Crash, Use
  <2> QED  BY <2>1 DEF Owned
<1>9. CASE UNCHANGED vars  BY <1>1, <1>9 DEF vars
<1> QED
  BY <1>1, <1>2, <1>3, <1>4, <1>5, <1>6, <1>7, <1>8, <1>9
  DEF Next, Stepping, Due, CloseNext
-----------------------------------------------------------------------------
(* One announcement per day, one resolution, behind every conversation *)

\* A closing that begins, of a day nobody closes and nobody announced.
LEMMA ClosingBegins ==
  ASSUME DayTypeOK, Closings, EndsOnce, NEW p \in Procs, NEW d \in 1..LastDay,
         NEW chapter \in BOOLEAN, CloseDay(p, d, chapter), chapter => ~finished
  PROVE  Closings' /\ EndsOnce'
<1>0. /\ close \in [Procs -> Closes] /\ dayEnded \in [1..LastDay -> Nat] /\ resolved \in Nat
      /\ None \notin 1..LastDay
  BY Constants DEF DayTypeOK, Closes
<1>1. closed' = closed \cup {d} /\ \A q \in Procs : q # p => close'[q] = close[q]
  BY CloseDayDoes
<1>2. ASSUME NEW q \in Procs, close[q].day # None
      PROVE  /\ close[q].day \in closed /\ close[q].day \in 1..LastDay
             /\ dayEnded[close[q].day] = 0
             /\ \A r \in Procs : close[r].day = close[q].day => r = q
  BY <1>0, <1>2 DEF Closings, Closing, Closes
<1>3. CASE d \in closed \/ OpenNow = {}
  <2>1. /\ close'[p].day = None
        /\ finished' <=> finished \/ chapter
        /\ resolved' = IF chapter THEN resolved + 1 ELSE resolved
        /\ \A e \in 1..LastDay : dayEnded'[e] = IF d \notin closed /\ e = d
                                               THEN dayEnded[e] + 1 ELSE dayEnded[e]
    <3>1. close'[p] = NoClose  BY <1>3, CloseDayDoes
    <3>2. close'[p].day = None  BY <3>1 DEF NoClose
    <3> QED  BY <1>3, <3>2, CloseDayDoes
  <2>2. ASSUME NEW q \in Procs, close'[q].day # None
        PROVE  /\ close'[q].day \in closed' /\ dayEnded'[close'[q].day] = 0
               /\ \A r \in Procs : close'[r].day = close'[q].day => r = q
    <3>1. q # p /\ close'[q] = close[q] /\ close[q].day # None  BY <1>1, <2>1, <2>2
    <3> QED  BY <1>1, <1>2, <2>1, <3>1
  <2>3. \A e \in 1..LastDay : /\ dayEnded'[e] > 0 => e \in closed'
                              /\ dayEnded'[e] <= 1
    BY <1>0, <1>1, <2>1 DEF Closings, EndsOnce
  <2>4. resolved' = (IF finished' THEN 1 ELSE 0)
    BY <1>0, <2>1 DEF Closings
  <2> QED  BY <2>2, <2>3, <2>4 DEF Closings, EndsOnce, Closing
<1>4. CASE Waits(d)
  <2>1. /\ close'[p] = [todo |-> OpenNow, day |-> d, chapter |-> chapter]
        /\ finished' <=> finished
        /\ resolved' = resolved /\ dayEnded' = dayEnded
    BY <1>4, CloseDayDoes
  <2>2. close'[p].day = d /\ d \notin closed  BY <1>4, <2>1 DEF Waits
  <2>3. dayEnded[d] = 0  BY <1>0, <2>2 DEF Closings
  <2>4. ASSUME NEW q \in Procs, close'[q].day # None
        PROVE  /\ close'[q].day \in closed' /\ dayEnded'[close'[q].day] = 0
               /\ \A r \in Procs : close'[r].day = close'[q].day => r = q
    <3>1. CASE q = p
      <4>1. \A r \in Procs : r # p => close'[r].day # d
        BY <1>0, <1>1, <1>2, <2>2
      <4> QED  BY <1>1, <2>1, <2>2, <2>3, <3>1, <4>1
    <3>2. CASE q # p
      <4>1. close'[q] = close[q] /\ close[q].day # d
        BY <1>1, <1>2, <2>2, <2>4, <3>2
      <4> QED  BY <1>1, <1>2, <2>1, <2>2, <2>4, <4>1
    <3> QED  BY <3>1, <3>2
  <2>5. resolved' = (IF finished' THEN 1 ELSE 0)
    BY <2>1 DEF Closings
  <2> QED  BY <1>1, <2>1, <2>4, <2>5 DEF Closings, EndsOnce, Closing
<1> QED  BY <1>3, <1>4 DEF Waits

LEMMA NextClosings ==
  ASSUME DayTypeOK, Clock, Deadline, Closings, EndsOnce, ChapterCloses, [Next]_vars
  PROVE  Closings' /\ EndsOnce'
<1> USE Constants
<1>0. /\ close \in [Procs -> Closes] /\ dayEnded \in [1..LastDay -> Nat] /\ resolved \in Nat
      /\ day \in 1..LastDay
      /\ \A c \in Convs : c \in Procs
      /\ \A w \in Steppers : w \in Procs
  BY DEF DayTypeOK, Closes, Procs
<1>1. CASE UNCHANGED <<closed, close, dayEnded, resolved, finished>>
  <2>1. finished' <=> finished  BY <1>1, Zenon
  <2> QED  BY <1>1, <2>1 DEF Closings, EndsOnce, Closing
<1>2. ASSUME NEW w \in Steppers, StepBegin(w) \/ DueThought(w) \/ Thinking(w)
                                 \/ StepEnd(w) \/ NextDay(w) \/ Arrive(w)
      PROVE  UNCHANGED <<closed, close, dayEnded, resolved, finished>>
  BY <1>2 DEF StepBegin, DueThought, Thinking, ThinkDone, ThinkRaises, StepEnd, NextDay,
              Arrive, endVars
<1>3. ASSUME NEW w \in Steppers, DueDeadline(w) \/ DueBoundary(w)
      PROVE  Closings' /\ EndsOnce'
  <2>1. CASE CloseDay(w, LastDay, TRUE) /\ ~finished
    BY <1>0, <2>1, ClosingBegins
  <2>2. CASE CloseDay(w, day, FALSE)
    BY <1>0, <2>2, ClosingBegins
  <2>3. CASE UNCHANGED <<closed, close, dayEnded, resolved, finished>>
    BY <1>1, <2>3
  <2> QED  BY <1>3, <2>1, <2>2, <2>3 DEF DueDeadline, DueBoundary, FinishChapter, endVars
<1>4. ASSUME NEW p \in Procs, NEW c \in Convs, CloseConversation(p, c)
      PROVE  Closings' /\ EndsOnce'
  <2>0. /\ close[p].day \in 1..LastDay /\ close[p].day # None
        /\ \A q \in Procs : q # p => close'[q] = close[q]
        /\ closed' = closed
    BY <1>4, CloseConversationDoes
  <2>1. ASSUME NEW q \in Procs, close[q].day # None
        PROVE  /\ close[q].day \in closed /\ close[q].day \in 1..LastDay
               /\ dayEnded[close[q].day] = 0
               /\ \A r \in Procs : close[r].day = close[q].day => r = q
    BY <1>0, <2>1 DEF Closings, Closing, Closes
  <2>2. CASE /\ close'[p] = NoClose
             /\ finished' <=> finished \/ close[p].chapter
             /\ resolved' = IF close[p].chapter THEN resolved + 1 ELSE resolved
             /\ \A e \in 1..LastDay : dayEnded'[e] = IF e = close[p].day
                                                     THEN dayEnded[e] + 1 ELSE dayEnded[e]
    <3>1. close'[p].day = None  BY <2>2 DEF NoClose
    <3>2. ASSUME NEW q \in Procs, close'[q].day # None
          PROVE  /\ close'[q].day \in closed' /\ dayEnded'[close'[q].day] = 0
                 /\ \A r \in Procs : close'[r].day = close'[q].day => r = q
      <4>1. q # p /\ close'[q] = close[q] /\ close[q].day # None  BY <2>0, <3>1, <3>2
      <4>2. close[q].day # close[p].day  BY <2>0, <2>1, <4>1
      <4> QED  BY <2>0, <2>1, <2>2, <3>1, <4>1, <4>2
    <3>3. \A e \in 1..LastDay : /\ dayEnded'[e] > 0 => e \in closed'
                                /\ dayEnded'[e] <= 1
      <4>1. dayEnded[close[p].day] = 0 /\ close[p].day \in closed  BY <2>0, <2>1
      <4> QED  BY <1>0, <2>0, <2>2, <4>1 DEF Closings, EndsOnce
    <3>4. resolved' = (IF finished' THEN 1 ELSE 0)
      <4>1. close[p].chapter => ~finished  BY DEF ChapterCloses
      <4> QED  BY <1>0, <2>2, <4>1 DEF Closings
    <3> QED  BY <3>2, <3>3, <3>4 DEF Closings, EndsOnce, Closing
  <2>3. CASE /\ close'[p].day = close[p].day
             /\ finished' <=> finished
             /\ UNCHANGED <<dayEnded, resolved>>
    <3>1. \A q \in Procs : close'[q].day = close[q].day  BY <2>0, <2>3
    <3> QED  BY <2>0, <2>3, <3>1 DEF Closings, EndsOnce, Closing
  <2> QED  BY <1>4, <2>2, <2>3, CloseConversationDoes
<1>5. ASSUME NEW c \in Convs, Opens(c) \/ Wakes(c) \/ RoundBegin(c) \/ SaveFails(c) \/ Empties(c)
      PROVE  UNCHANGED <<closed, close, dayEnded, resolved, finished>>
  BY <1>5 DEF Opens, Wakes, RoundBegin, SaveFails, Empties, endVars
<1>6. ASSUME NEW c \in Convs, RoundEnd(c)
      PROVE  Closings' /\ EndsOnce'
  <2>1. Boundary(c)  BY <1>6 DEF RoundEnd
  <2>2. CASE CloseDay(c, LastDay, TRUE) /\ ~finished
    BY <1>0, <2>2, ClosingBegins
  <2>3. CASE CloseDay(c, pendEnd, FALSE) /\ pendEnd # None
    <3>1. pendEnd \in 1..LastDay  BY <2>3 DEF DayTypeOK
    <3> QED  BY <1>0, <2>3, <3>1, ClosingBegins
  <2>4. CASE UNCHANGED <<closed, close, dayEnded, resolved, finished>>
    BY <1>1, <2>4
  <2> QED  BY <2>1, <2>2, <2>3, <2>4, BoundaryDoes
<1>7. CASE Crash
  <2>1. UNCHANGED <<closed, dayEnded, resolved, finished>>  BY <1>7 DEF Crash
  <2>2. finished' <=> finished  BY <2>1, Zenon
  <2>3. \A p \in Procs : close'[p].day = None  BY <1>7 DEF Crash, NoClose
  <2> QED  BY <2>1, <2>2, <2>3 DEF Closings, EndsOnce, Closing
<1>8. CASE UNCHANGED vars  BY <1>1, <1>8 DEF vars
<1> QED
  BY <1>1, <1>2, <1>3, <1>4, <1>5, <1>6, <1>7, <1>8
  DEF Next, Stepping, Due, CloseNext

\* Nothing opens any more, and what is closed for the chapter stays before its closing.
LEMMA ChapterStays ==
  ASSUME ChapterCloses, ResolvedAfterClosing, OpenNow' \subseteq OpenNow, finished' <=> finished,
         \A p \in Procs : close'[p].chapter => close'[p] = close[p]
  PROVE  ChapterCloses' /\ ResolvedAfterClosing'
BY DEF ChapterCloses, ResolvedAfterClosing

\* Before the end of the last day nothing is closed for the chapter.
LEMMA NoChapterYet ==
  ASSUME DayTypeOK, Deadline, Closings, ChapterCloses, LastDay \notin closed
  PROVE  ~finished /\ \A p \in Procs : ~close[p].chapter
<1>1. ~finished  BY DEF Deadline
<1>2. ASSUME NEW p \in Procs, close[p].chapter
      PROVE  FALSE
  <2>1. close[p].day = LastDay  BY <1>2 DEF ChapterCloses
  <2>2. close[p].day \in closed  BY <2>1, Constants DEF Closings, Closing
  <2> QED  BY <2>1, <2>2
<1> QED  BY <1>1, <1>2

LEMMA ChapterBegins ==
  ASSUME DayTypeOK, Deadline, Closings, ChapterCloses, ResolvedAfterClosing, NEW p \in Procs,
         conv' = conv, ~fired, CloseDay(p, LastDay, TRUE)
  PROVE  ChapterCloses' /\ ResolvedAfterClosing'
<1>0. LastDay \in 1..LastDay /\ LastDay \notin closed /\ OpenNow' = OpenNow
  BY Constants DEF Deadline, OpenNow
<1>1. ~finished /\ \A q \in Procs : ~close[q].chapter  BY <1>0, NoChapterYet
<1>2. \A q \in Procs : q # p => ~close'[q].chapter
  BY <1>1, CloseDayOthers
<1>3. CASE OpenNow = {}
  <2>1. close'[p] = NoClose  BY <1>0, <1>3, CloseDayDoes
  <2>2. ~close'[p].chapter  BY <2>1 DEF NoClose
  <2> QED  BY <1>0, <1>2, <1>3, <2>2 DEF ChapterCloses, ResolvedAfterClosing
<1>4. CASE OpenNow # {}
  <2>1. Waits(LastDay)  BY <1>0, <1>4 DEF Waits
  <2>2. close'[p] = [todo |-> OpenNow, day |-> LastDay, chapter |-> TRUE] /\ (finished' <=> finished)
    BY <1>0, <2>1, CloseDayDoes
  <2> QED  BY <1>0, <1>1, <1>2, <2>2 DEF ChapterCloses, ResolvedAfterClosing
<1> QED  BY <1>3, <1>4

LEMMA DayBegins ==
  ASSUME DayTypeOK, ChapterCloses, ResolvedAfterClosing, NEW p \in Procs, NEW d \in 1..LastDay,
         conv' = conv, CloseDay(p, d, FALSE)
  PROVE  ChapterCloses' /\ ResolvedAfterClosing'
<1>1. OpenNow' = OpenNow  BY DEF OpenNow
<1>2. finished' <=> finished  BY CloseDayDoes DEF Waits
<1>3. close'[p] \in {NoClose, [todo |-> OpenNow, day |-> d, chapter |-> FALSE]}
  BY CloseDayDoes DEF Waits
<1>4. ~close'[p].chapter  BY <1>3 DEF NoClose
<1>5. \A q \in Procs : q # p => close'[q] = close[q]  BY CloseDayOthers
<1> QED  BY <1>1, <1>2, <1>4, <1>5, ChapterStays

LEMMA NextChapterCloses ==
  ASSUME DayTypeOK, Clock, Deadline, Closings, ChapterCloses, ResolvedAfterClosing, [Next]_vars
  PROVE  ChapterCloses' /\ ResolvedAfterClosing'
<1> USE Constants
<1>0. /\ conv \in [Convs -> {"new", "open", "closed"}] /\ day \in 1..LastDay
      /\ time \in Morning..DayEnd
      /\ \A c \in Convs : c \in Procs
      /\ \A w \in Steppers : w \in Procs
  BY DEF DayTypeOK, Procs
<1>1. ASSUME UNCHANGED <<close, finished>>, OpenNow' \subseteq OpenNow
      PROVE  ChapterCloses' /\ ResolvedAfterClosing'
  <2>1. finished' <=> finished  BY <1>1, Zenon
  <2> QED  BY <1>1, <2>1, ChapterStays
<1>2. ASSUME UNCHANGED <<close, finished>>, time < Cutoff
      PROVE  ChapterCloses' /\ ResolvedAfterClosing'
  <2>1. ~AtEnd  BY <1>2 DEF AtEnd
  <2>2. LastDay \notin closed  BY <2>1, BeforeTheEnd
  <2>3. finished' <=> finished  BY <1>2, Zenon
  <2> QED  BY <1>2, <2>2, <2>3, NoChapterYet DEF ChapterCloses, ResolvedAfterClosing
<1>3. ASSUME UNCHANGED <<close, finished, conv>>
      PROVE  ChapterCloses' /\ ResolvedAfterClosing'
  <2>1. OpenNow' = OpenNow  BY <1>3 DEF OpenNow
  <2> QED  BY <1>1, <1>3, <2>1
<1>4. ASSUME NEW w \in Steppers, StepBegin(w) \/ DueThought(w) \/ ThinkRaises(w)
                                 \/ StepEnd(w) \/ NextDay(w) \/ Arrive(w)
      PROVE  UNCHANGED <<close, finished, conv>>
  BY <1>4 DEF StepBegin, DueThought, ThinkRaises, StepEnd, NextDay, Arrive, chatVars, endVars
<1>5. ASSUME NEW w \in Steppers, ThinkDone(w)
      PROVE  ChapterCloses' /\ ResolvedAfterClosing'
  <2>1. UNCHANGED <<close, finished>>  BY <1>5 DEF ThinkDone, endVars
  <2>2. conv' = conv \/ time < Cutoff  BY <1>5 DEF ThinkDone, StillToday
  <2> QED  BY <1>2, <1>3, <2>1, <2>2
<1>6. ASSUME NEW w \in Steppers, DueDeadline(w) \/ DueBoundary(w)
      PROVE  ChapterCloses' /\ ResolvedAfterClosing'
  <2>0. conv' = conv  BY <1>6 DEF DueDeadline, DueBoundary, chatVars
  <2>1. CASE CloseDay(w, LastDay, TRUE) /\ ~fired
    BY <1>0, <2>0, <2>1, ChapterBegins
  <2>2. CASE CloseDay(w, day, FALSE)
    BY <1>0, <2>0, <2>2, DayBegins
  <2>3. CASE UNCHANGED <<close, finished>>
    BY <1>3, <2>0, <2>3
  <2> QED  BY <1>6, <2>1, <2>2, <2>3 DEF DueDeadline, DueBoundary, FinishChapter, endVars
<1>7. ASSUME NEW p \in Procs, NEW c \in Convs, CloseConversation(p, c)
      PROVE  ChapterCloses' /\ ResolvedAfterClosing'
  <2>0. /\ \A q \in Procs : q # p => close'[q] = close[q]
        /\ close[p].day \in 1..LastDay /\ c \in close[p].todo
    BY <1>7, CloseConversationDoes
  <2>1. OpenNow' = OpenNow \ {c}
    <3>1. conv' = [conv EXCEPT ![c] = "closed"]  BY <1>7, CloseConversationDoes
    <3> QED  BY <1>0, <3>1 DEF OpenNow
  <2>2. ASSUME NEW q \in Procs, q # p, close[q].chapter, close[p].chapter
        PROVE  FALSE
    <3>1. close[q].day = LastDay /\ close[p].day = LastDay  BY <2>2 DEF ChapterCloses
    <3> QED  BY <2>0, <2>2, <3>1 DEF Closings, Closing
  <2>3. CASE /\ close[p].todo = {c} /\ close'[p] = NoClose
             /\ finished' <=> finished \/ close[p].chapter
    <3>1. ~close'[p].chapter  BY <2>3 DEF NoClose
    <3>2. CASE close[p].chapter
      <4>1. OpenNow' = {}  BY <2>1, <2>3, <3>2 DEF ChapterCloses
      <4>2. \A q \in Procs : ~close'[q].chapter  BY <2>0, <2>2, <3>1, <3>2
      <4> QED  BY <4>1, <4>2 DEF ChapterCloses, ResolvedAfterClosing
    <3>3. CASE ~close[p].chapter
      BY <2>0, <2>1, <2>3, <3>1, <3>3, ChapterStays
    <3> QED  BY <3>2, <3>3
  <2>4. CASE /\ close'[p].todo = close[p].todo \ {c} /\ close'[p].day = close[p].day
             /\ close'[p].chapter = close[p].chapter
             /\ finished' <=> finished
    <3>1. ASSUME NEW q \in Procs, close'[q].chapter
          PROVE  close'[q].day = LastDay /\ ~finished' /\ OpenNow' \subseteq close'[q].todo
      <4>1. close[q].chapter  BY <2>0, <2>4, <3>1, Zenon
      <4>2. close[q].day = LastDay /\ ~finished /\ OpenNow \subseteq close[q].todo
        BY <4>1 DEF ChapterCloses
      <4> QED  BY <2>0, <2>1, <2>4, <4>2
    <3>2. ResolvedAfterClosing'  BY <2>1, <2>4 DEF ResolvedAfterClosing
    <3> QED  BY <3>1, <3>2 DEF ChapterCloses
  <2> QED  BY <1>7, <2>3, <2>4, CloseConversationDoes
<1>8. ASSUME NEW c \in Convs, Opens(c)
      PROVE  ChapterCloses' /\ ResolvedAfterClosing'
  BY <1>2, <1>8 DEF Opens, endVars
<1>9. ASSUME NEW c \in Convs, Wakes(c) \/ RoundBegin(c) \/ SaveFails(c)
      PROVE  UNCHANGED <<close, finished, conv>>
  BY <1>9 DEF Wakes, RoundBegin, SaveFails, endVars
<1>10. ASSUME NEW c \in Convs, Empties(c)
       PROVE  ChapterCloses' /\ ResolvedAfterClosing'
  <2>1. UNCHANGED <<close, finished>> /\ conv' = [conv EXCEPT ![c] = "closed"]
    BY <1>10 DEF Empties, endVars
  <2>2. OpenNow' \subseteq OpenNow  BY <1>0, <2>1 DEF OpenNow
  <2> QED  BY <1>1, <2>1, <2>2
<1>11. ASSUME NEW c \in Convs, RoundEnd(c)
       PROVE  ChapterCloses' /\ ResolvedAfterClosing'
  <2>1. Boundary(c) /\ conv' = conv  BY <1>11 DEF RoundEnd
  <2>2. CASE CloseDay(c, LastDay, TRUE) /\ pendCh
    <3>1. ~fired  BY <2>2 DEF Deadline
    <3> QED  BY <1>0, <2>1, <2>2, <3>1, ChapterBegins
  <2>3. CASE CloseDay(c, pendEnd, FALSE) /\ pendEnd # None
    <3>1. pendEnd \in 1..LastDay  BY <2>3 DEF DayTypeOK
    <3> QED  BY <1>0, <2>1, <2>3, <3>1, DayBegins
  <2>4. CASE UNCHANGED <<close, finished>>
    BY <1>3, <2>1, <2>4
  <2> QED  BY <2>1, <2>2, <2>3, <2>4, BoundaryDoes
<1>12. CASE Crash
  <2>1. UNCHANGED <<conv, finished>> /\ \A p \in Procs : ~close'[p].chapter
    BY <1>12 DEF Crash, NoClose
  <2>2. finished' <=> finished  BY <2>1, Zenon
  <2>3. OpenNow' = OpenNow  BY <2>1 DEF OpenNow
  <2> QED  BY <2>1, <2>2, <2>3, ChapterStays
<1>13. CASE UNCHANGED vars  BY <1>3, <1>13 DEF vars
<1> QED
  BY <1>3, <1>4, <1>5, <1>6, <1>7, <1>8, <1>9, <1>10, <1>11, <1>12, <1>13
  DEF Next, Stepping, Due, Thinking, CloseNext

-----------------------------------------------------------------------------
(* The theorems *)

LEMMA InitInv == Init => DayInv
<1> SUFFICES ASSUME Init
             PROVE  DayInv
  OBVIOUS
<1>1. DayTypeOK  BY InitType
<1>2. /\ ~ended /\ ~pendCh /\ ~fired /\ ~finished
  BY Zenon DEF Init
<1>3. /\ lock = "free" /\ day = 1 /\ time = 0 /\ pipelines = 0 /\ pendEnd = None
      /\ closed = {} /\ resolved = 0 /\ used["fails"] = 0
      /\ \A d \in 1..LastDay : dayEnded[d] = 0
      /\ \A c \in Convs : conv[c] = "new" /\ task[c] = "none"
      /\ \A w \in Steppers : step[w] = Resting
      /\ \A p \in Procs : close[p] = NoClose
  BY DEF Init
<1>4. /\ \A w \in Steppers : step[w].at = "idle" /\ step[w].from = "start"
      /\ \A p \in Procs : ~Closing(p) /\ ~close[p].chapter
  BY <1>3 DEF Resting, NoClose, Closing
<1>5. Models = {} /\ OpenNow = {}  BY <1>3 DEF Models, OpenNow
<1>6. PipelinesCounted  BY <1>3, <1>5, FS_EmptySet DEF PipelinesCounted
<1>7. TaskCloses /\ StepCloses
  BY <1>3, <1>4 DEF TaskCloses, StepCloses, Procs
<1>8. Owned /\ Holder /\ RolledAtMorning
  BY <1>2, <1>3, <1>4 DEF Owned, Holder, Held, RolledAtMorning
<1>9. ThoughtMarked /\ PendingIsToday /\ Handled /\ NoDaySkipped
  BY <1>3 DEF ThoughtMarked, PendingIsToday, Handled, NoDaySkipped
<1>10. Deadline
  BY <1>2, <1>3 DEF Deadline, AtEnd
<1>11. Closings /\ ChapterCloses /\ EndsOnce /\ ResolvedAfterClosing
  BY <1>2, <1>3, <1>4, <1>5 DEF Closings, ChapterCloses, EndsOnce, ResolvedAfterClosing
<1> QED  BY <1>1, <1>6, <1>7, <1>8, <1>9, <1>10, <1>11 DEF DayInv

LEMMA NextInv == DayInv /\ [Next]_vars => DayInv'
<1> SUFFICES ASSUME DayInv, [Next]_vars
             PROVE  DayInv'
  OBVIOUS
<1>1. DayTypeOK' /\ PipelinesCounted' /\ TaskCloses'
  BY NextType, NextCounted DEF DayInv
<1>2. StepCloses' /\ Owned'  BY NextStepCloses, NextOwned DEF DayInv
<1>3. Holder' /\ RolledAtMorning'  BY NextHolder DEF DayInv
<1>4. Clock'  BY NextClock DEF DayInv, Clock
<1>5. Deadline'  BY NextDeadline DEF DayInv, Clock
<1>6. Closings' /\ EndsOnce'  BY NextClosings DEF DayInv, Clock
<1>7. ChapterCloses' /\ ResolvedAfterClosing'
  BY NextChapterCloses DEF DayInv, Clock
<1> QED  BY <1>1, <1>2, <1>3, <1>4, <1>5, <1>6, <1>7 DEF DayInv, Clock

THEOREM DayInvariant == Spec => []DayInv
<1>1. Init => DayInv  BY InitInv
<1>2. DayInv /\ [Next]_vars => DayInv'  BY NextInv
<1> QED  BY <1>1, <1>2, PTL DEF Spec

\* The variables of the clock and of the boundaries keep their types: the count of the
\* active pipelines, for one, never falls below zero, whatever fails or restarts.
THEOREM DayTypeCorrect == Spec => []DayTypeOK
<1>1. DayInv => DayTypeOK  BY DEF DayInv
<1> QED  BY <1>1, DayInvariant, PTL

\* The days end in order, whoever moves the clock: the clock passes no day that was not
\* taken to its closing, no day is announced twice, and the chapter is resolved once, with
\* every conversation of the run closed (world_step, _process_due_locked,
\* _finish_pending_boundary_locked).
THEOREM DaysInOrder == Spec => []DaysEndInOrder
<1>1. DayInv => DaysEndInOrder  BY DEF DayInv, DaysEndInOrder
<1> QED  BY <1>1, DayInvariant, PTL

\* A boundary that was deferred has a pipeline that waits for a model and takes it over when
\* it ends, as long as no save failed and the process did not restart.
THEOREM DeferredBoundaryIsOwned == Spec => []DeferredIsOwned
<1>1. ASSUME DayInv
      PROVE  DeferredIsOwned
  <2> SUFFICES ASSUME Undisturbed, pendEnd # None \/ pendCh
               PROVE  \E c \in Convs : task[c] = "model"
    BY DEF DeferredIsOwned
  <2>1. used["fails"] = 0 /\ used["crashes"] = 0
    BY <1>1 DEF DayInv, DayTypeOK, Undisturbed
  <2>2. pipelines > 0 /\ pipelines = Cardinality(Models)
    BY <1>1, <2>1 DEF DayInv, Owned, PipelinesCounted
  <2>3. Models # {}  BY <2>2, FS_EmptySet
  <2> QED  BY <2>3 DEF Models
<1> QED  BY <1>1, DayInvariant, PTL
=============================================================================
