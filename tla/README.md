# Verification of qinghuai-agent-world

The program is a single-process asyncio server (FastAPI, `core/backend/app`) that
runs small worlds ("runs") in which NPCs driven by a language model and one player
meet in a bookstore, hold conversations of two or three, and after a few days settle
a chapter. A browser client (`core/frontend/src`) shows the world. This directory
holds TLA+ modules of its concurrent parts, the TLC configurations that check them
on small instances, and theorems with proofs for TLAPS.

Paths below are relative to the repository root; `run_service.py` is
`core/backend/app/orchestration/run_service.py`, where most of the logic lives.

## 1. The system

Each run is one in-memory aggregate `Run` (`domain/run.py`) shared by every task of
the process, with one `asyncio.Lock` (`run.lock`). A *section* of code holds the lock
and ends in `repository.save(run)`. The essential trait of this program is that
**every model call releases the lock** (`_await_model_without_run_lock`): the section
saves, unlocks, waits for seconds, locks again and goes on with whatever the state has
become. So a section is not a transaction, and what was read before an await may be
stale after it. There are five kinds of actors:

| actor | what it does |
|---|---|
| HTTP commands (`api/routes`) | `world_step`, `player_message`, create / join / leave a conversation, invitations, `conversation_idle`, consolidations |
| chat workers (`_chat_worker`) | one task per conversation: message rounds, opener rounds, publication with pauses, cooldown, final check |
| the finished callback of a worker | records its failure and restarts it (`_record_chat_worker_failure`) |
| maintenance tasks | consolidation after the player has left |
| WebSocket handlers | subscribe to the event hub, send snapshot, replay and events |

### Components

| component | state | operations | what makes it correct | module |
|---|---|---|---|---|
| Chat rounds (`run_service.py` 342-595, 1188-1264, 2351-2479, 2680-3915, 4211-4333) | conversation, segments, messages, the durable round state, the worker's locals | player message, idle, join, leave, message round, opener round, publication, cooldown, failure, resume | nothing stale is said, nobody speaks twice in a round, rounds do not overlap, every round ends, no message is forgotten | `ChatRound` |
| World clock and boundaries (861-905, 1400-1682, 1798-1907, 3863-3877, 4432-4472, 4765-4846; `domain/clock.py`) | clock, thought and closed days, pending boundary, active pipelines | `world_step`, daily thought, end of day, deadline, deferral | no day skipped, a day ends once, chapter resolved once and after everything is closed, a deferred boundary is carried out | `DayBoundary` |
| Event stream (`Run.append_event`, `event_hub.py`, `websocket.py`) | event numbers, the hub's pending events and subscribers, the handlers' queues | append, save, publish, deliver, prime, subscribe, snapshot, replay, send | a client is told each event once, in order, none missing, and none that a restart takes back | `EventStream`, `EventFeed` |
| Browser store (`worldStore.ts`, `eventReducer.ts`, `socket.ts`, `useWorldRuntime.ts`) | snapshot, sequence number, chat messages | apply event, apply snapshot, reconnect | the store is the run at one moment, every message is shown | `ClientStore` |
| Membership: invitations, join requests, daily actions (640-1187, 1700-2560, 4081-4333) | invitations, requests, who is where, which segment runs | create, answer, withdraw, join, leave, close, cutoff | at most two conversations of two or three, what is settled stays settled, an actor is in one conversation, an ended segment is gone on with | `Membership` |
| Command idempotency (4960-5013) and the store (`persistence/*repository.py`, `codec.py`) | recorded commands, revisions, the cached aggregate of a process | look up, execute, record, save, reload, retry | an effect is stored once, no save overwrites another, what a client was told is stored | `RunStore` |
| Rows of a run (`db/models.py`, `normalized_projection.py`, migrations, indexer) | the rows of 37 tables and what they refer to | save, load, index, backfill, migrate up and down, delete | no save, migration or deletion is refused; answers and vectors are not lost | `RunTables` |
| Exit consolidation, drafts, maintenance (1300-1400, 4335-4764) | drafts of goals and relationships, consolidation status per NPC | attempt, commit, retry, resume | drafts are committed once and not lost, what is owed is done | `Consolidation` |
| Segment summaries (2560-2790, 4223-4430) | summary and cursor of each segment, the list of owed summaries | roll, summarise at the end, maintenance | no message leaves the context before a summary covers it | `SegmentSummary` |
| Agent runtime and decision service (`agents/`, `ai/`) | one graph run per call, the slots of the model, counters | decide, remember, speak, retry, time out | one search of the memory per message, every request accounted for | `NpcAgent` |
| Seven-day simulation (`simulation/`, `run_seven_day_simulation.py`) | the ledger of attempts, checkpoints, rows, call budget | prepare, start, attach, report, clean up, publish, resume | a seed runs once, the published batch is what happened, no row is left | `SimulationBatch` |
| Semantic evaluation (`evaluation/`, three scripts) | the counters of an execution, the results of its cases, the calibration, the files | evaluate a case, calibrate, write, resume, qualify a judge | limits are shared, a report is complete only when everything in it is | `SemanticEvaluation` |
| Chapter resolution (4147-4209, 4702-4960) | stances, relations | branch, agenda, player task | the rules of the design | not modelled (section 7) |
| HTTP adapters, scenario loader, user interface, game scene, rule scorer, benchmarks, other scripts | - | - | - | not modelled (section 7) |

### How they interact

`world_step` moves the clock and starts daily thoughts, which may open conversations;
commands and thoughts change conversations; a changed round state starts or wakes the
conversation's worker; workers count themselves in `active_chat_pipelines`, which
defers the end of a day; the last pipeline takes the deferred boundary over and closes
the conversations, the one that just ran included. All of them append events to the
run; whoever appended publishes after unlocking, through the hub, to the handlers, to
the browser. The browser also gets whole snapshots in the HTTP responses. A restart
loses all tasks, locks, queues and the pipeline count, and keeps what was saved last;
every request (`get_run_entity`) resumes the workers that the round states ask for.

### What is hard

Stale results after awaits; two callers of `world_step`; a player who speaks while
the NPCs decide, while they generate, between generation and publication, and between
two publications; failures recorded by a callback that runs after a new worker has
taken over; restarts in the middle of a publication or of the closing of a day; events
published twice, out of order or never; snapshots that arrive before or after the
events they contain. `PROJECT.json` lists each hazard at its line with the properties
about it, or the reason why there is none.

## 2. Modules and their correspondence with the code

### ChatRound, ChatRoundProofs (with MCChatRound)

One conversation. An action is one section under `run.lock`; `pc` is where the worker
task is, the other variables are the conversation and its round state (`rs`, with the
fields of `_default_round_state` renamed: `rid` roundId, `ver` roundVersion, `pver`
participantVersion, `pend` pendingPublications, `published` publishedMessageIds,
`attempt` retryAttempt, `leavers`/`post` the decided departures).

| action | code |
|---|---|
| `Request` | `get_run_entity`, `_resume_chat_tasks` |
| `PlayerMessage`, `ConversationIdle`, `PlayerLeaves`, `ApiRemove`, `JoinBegin`/`JoinFinish` | the commands; a join and a leave are split at the summary of the segment and at the consolidation, which unlock |
| `WorkerTop`, `CooldownWoken`, `CooldownExpired` | the loop of `_chat_worker` |
| `BeginRound`, `Decide`, `PromptSpeech`, `SpeechDone`, `DropStale` | `_execute_message_round`, section by section |
| `BeginOpener`, `DecideOpener` (then as above) | `_execute_opener_round` |
| `PublishEnter`, `PickPublication`, `PublishItem`, `PublishTail`, `DropStalePublication` | `_publish_pending_round` |
| `NextLeaver`, `LeaveBegin`, `LeaveSummarised`, `LeaveConsolidated` | `_finish_no_speech_round_locked`, `_leave_and_consolidate_locked` |
| `Finally` | the `finally` of a round, with `_finish_pending_boundary_locked` |
| `WorkerRaises`, `RecordFailure` | an exception in a section, and the callback |
| `DayEnds`, `CloseFinish` | `_close_day_locked` reaching this conversation, `_close_conversation_locked` |
| `Crash` | a restart |

Abstracted: contents of decisions and speeches (the model may answer anything, so
`Decide` chooses any sets of speakers and leavers, `SpeechDone` keeps any subset of
the speeches in any order), prompts, memory, reply targets, relationship changes.
`msgs[i].seen` is history: how many messages there were when the speaker's round
began. `queuedMessageIds` is absent because it is always empty when it is read: only
`player_message` fills it, in an active round, and the same call empties it.

### DayBoundary, DayBoundaryProofs (with MCDayBoundary, MCScripts)

The clock moves over four points of a day: 08:00, an NPC's thought, 17:00 (cutoff
of new chats), 18:00. `step[w]` is where a caller of `world_step` is inside
`_advance_virtual_locked` and `_process_due_locked`; `task[c]` is what the worker of a
conversation awaits; `close[p]` is a closing in progress. A pipeline of ChatRound is
one interval here. `Resting.from` tells which of the two checks of the pending
boundary comes next. `CloseDay` and `FinishChapter` are the `_locked` functions of the
same names, cut where the closing of a conversation waits for models.

### EventStream, EventFeed, EventStreamProofs (with MCEventStream)

An event is its number. Sections append (`AppendEvent`), wait (`AwaitModel`, which
saves), end by saving and publishing what `events_after(before_seq)` returned
(`EndSection`), or end without publishing (`EndSilently`, the `finally` of a pipeline)
or without saving (`EndRaised`). The hub's delivery loop goes one event at a time with
the subscribers captured when the event was accepted. `EventFeed` is what a listener
may rely on: it joins at the present and is told every later event one at a time.
`FeedSpec` is EventFeed under the mapping listener = socket, log = `eventSeq`,
view = `pos`, connected = past the snapshot.

### ClientStore, EventStreamProofs (with MCRecords)

Extends EventStream with the browser's stores. A snapshot numbered n reflects events
1..n. `known` is what the store's snapshot reflects, `shown` which events went through
the reducer (an event can carry a chat message that no snapshot contains).

### Membership, MembershipProofs (with MCMembership)

Any number of actors and conversations. `talk[c]` has the participants and whether the
last segment runs, `invite` and `join` the requests with their status, `standing` the
`status` of `actor_states`. An action is a section; a model call that may be overtaken is
a record in `daily`, `invite[i].asked`, `join[j]`, `parting`, `settling` or `ending`, and
its return is an action of its own (`DailyReturns`, `InviteAnswered`, `PollReturns`,
`JoinSummarised`, `LeaveSummarised`, `Consolidated`, `CloseSummarised`,
`CloseConsolidated`). What is said is ChatRound's, when a day ends is DayBoundary's;
here the hour is `Open`, `Late` (after the cutoff) or `Over`.

### RunStore, RunStoreProofs (with MCRecords)

Two processes (`Workers`) with a cached aggregate each (the identity map), one database.
A command has one effect, appended to `effects`; a `Slow` one waits for a model between
its two sections, in a `Waiter`. `Execute` is look-up, effect, record and save at once, as
they are under one lock; a save may fail before or after the database committed
(`faults`). `LoadRows` and `LoadRevision` are the two queries of a load.

### Consolidation, ConsolidationProofs (with MCMembership)

One NPC and the conversations (`Stays`) it takes part in. `work` holds the calls under
way, each with the `existing` entry and the draft that `_consolidate_locked` read before
it waited; `Ended` is the section after it, for all four callers (leave, close,
maintenance, retry). `seat[c]` is where the NPC is: `away`, `in`, `left`, or, of a closed
conversation, still among its participants (`over`) or `gone`. A join, a leave and a closing
are cut where they wait for a summary or a consolidation (`joining`, `leaving`, `closing`), so
the NPC may have left, or the conversation closed, before they go on: `Entered` joins or
raises as `add_participant` does, `LeaveRemoved` removes the NPC also from a closed
conversation, `CloseBegins` consolidates it also when it has left since the list was made.

| action | code |
|---|---|
| `EnterNew`, `EnterAsked`/`Entered` | a new conversation; `_join_conversation_locked` |
| `Decided` | `_apply_chat_drafts` |
| `LeaveAsked`/`LeaveRemoved` | `_leave_and_consolidate_locked` |
| `OthersClose`, `CloseListed`/`CloseBegins`/`Closed` | `_close_conversation_locked`, or the leave of the last but one |
| `Retried` | `retry_consolidation` |
| `PlayerLeft`, `PlayerLeftLast` | `_remove_player_locked`, `_schedule_player_leave_maintenance` |
| `TaskBegins`, `TaskEnds`, `TaskRaises` | `_complete_player_leave_maintenance` and the callback `finished` (4355-4363) |
| `RunLoaded` | `get_run_entity`, which resumes the tasks of what is pending |
| `CallRaises`, `LeaveRaises`, `ClosingRaises`, `Restarted` | an exception in another handler; a restart |

### SegmentSummary, ConsolidationProofs (with MCMembership)

The segments of one conversation in order, the messages of each counted; `covers` is what
the summary was made of, `cursor` `summarizedThroughMessageId`. `calls` are the summaries
under way, by whom, with what they read before they waited. `owed` is
`pendingSummarySegmentIds`, `minding` the segment the maintenance task was given. The list is
part of the round state, and goes with it: a join or a leave that ends in the closing of the
conversation pops it in `After`, the worker of a closed conversation in `WorkerEnds`, also
while a summary is awaited. A task that raises (`MaintenanceRaises`, or after its summary in
`MaintenanceEnds`) resumes nothing; `stalled` holds until a request (`Requested`, that is
`get_run_entity`) or the end of another task looks at the list. `dropped` is history: the
segments of the steps that lose one (`Loses`).
`_maybe_roll_segment_summary_locked` has no caller in `app/` (tests call it, and
SYSTEM_DESIGN.md:130 describes it); `RollAsks` takes it to be called after a message.

### NpcAgent, NpcAgentProofs (with MCRecords)

The tasks of a process that invoke one agent: `at` is where in the graph a task waits
(for a slot, for the provider, for the memory), `decision` and `try` count the two levels
of retries. `TimedOut` cancels a task wherever it is.

### RunTables, RunStoreProofs (with MCRecords)

A row is a tuple with its name, the names of the rows it refers to and its checked column.
`References` holds the 74 foreign keys of `db/models.py` with their ON DELETE rule (the
migrations create the same); `Lawful`, `DeletedRows` and `Added` are what PostgreSQL does with
them, a cascade level by level, five at most. What a statement writes is a set of rows; what
their order decides, that a row finds what it refers to, is `InsertsInOrder`, over the list of
the tables and, within the goals, the order of the run. `AddedRows` and `SavedRows` follow the
statements of `add` and `save` in their order, `Load` reads the items back in any order, as the
query has no ORDER BY. `Upgrade` and `Downgrade` are the six migrations. The initial states are
an empty database, or one at the fifth migration with a run of that release. Migrations and
deletions are taken to happen while the service is stopped.

### SimulationBatch, ScriptProofs (with MCScripts)

`ledger[a]` is the record file of an attempt, `checkpoint` its report file, `rows` the runs
in the database, `batch` the running invocation of the script, which goes through its
stages in `pc`. `Killed` ends it anywhere, `Interrupted` goes through the `finally`. Each file
is written in a step of its own: the records that nothing started (`SettlePlanned`), then the
reports of the checkpoint again (`Rewritten`, for the attempts that ran and for those that
were resumed), so a kill leaves some of them written. An attempt counts the requests that
reached the provider, and a request that the client repeats is not checked against its
limit: `PlayEnds` may pass `CallLimit` by `MaxRepeats`. Any of its ends may come with any
number of calls, as `budget_exhausted` is also the end of the budgets of messages and of
answers that break the protocol.

### SemanticEvaluation, ScriptProofs (with MCScripts)

`evaluation` is where `EvaluationRunner.run` is, `execution` its counters,
`calibration` where `_live_calibration_report` is (for the evaluation script, the resume
or the qualification of a judge), `artifacts` the three files. Cost is counted in units of
one request of a text model, and each request is taken to cost what is reserved for it.
What a rule or the judge thinks of an answer is left out: an observation has an error or
not, a score is valid or missing. The judge is enabled in live mode, as the script says it
should be.

## 3. What the runs check

Passing runs:

| run | properties | what it shows |
|---|---|---|
| `chat_rounds` | TypeOK, SpeechMatchesSegment, RoundsDoNotOverlap, NothingSaidWhileClosing | with a join, a leave or an idle call, player messages, departing NPCs and the end of the day between any two sections, no speech crosses into a segment it was not prepared for, rounds stay in order, nothing is said into a closing |
| `chat_faults` | OneSpeechPerRound, NoStaleSpeech | with a failing task and a restart, nobody says two things in one round, and nothing decided before a player message is said after it |
| `chat_served` | NoOrphanedRound, RoundsSettle | with two failures and a restart, only a round that failed twice has no worker, and a client that keeps asking gets every round and every cooldown to end |
| `stream_order` | TypeOK, NothingSlipsThrough, ToldOneByOne, FeedSpec | every connected client is told each event once and in order; refinement of EventFeed |
| `stream_arrives` | ToldIsDurable, EveryEventArrives | if sections save and publish, every saved event arrives, and a client knows nothing a restart forgets |
| `talks` | TalksTypeOK, LimitsKept, SecondPlaceOnlyByLateJoin, SettledOnce, SegmentLostOnlyByRestart | Membership: with a model call between any two steps of inviting, asking, joining, leaving and closing, the limits hold, what is settled stays settled, a second place comes only from a late join, and no segment stays ended without someone to go on with it |
| | SummaryOwed, NothingHidden | SegmentSummary: an ended segment is summarised or in hand, but for four steps of the code that lose one, and no message is hidden by a cursor |
| | CommittedOnce, OwedIsOwned | Consolidation: the draft of a stay is kept until it is committed, and committed once; what is owed has a task, but between a task that raised, or a restart, and the next request |
| `records` | RecordsTypeOK, ViewIsFaithful | ClientStore: through a lost connection, a restart and an HTTP snapshot, a store is whole, has shown every event, and is not ahead of what is durable |
| | StoredOnce, NothingOverwritten | RunStore: two processes, lost acknowledgements, a command retried while the first execution waits |
| | RecalledOnce, RequestsAccounted | NpcAgent: two tasks, one slot, timeouts anywhere in the graph |
| | OnlyKnownRefusals, AnswersAndVectorsSurvive | RunTables: saves, loads, an index pass or a backfill at any time, migrations, deletion |
| `days_and_scripts` | ScriptsTypeOK, DaysEndInOrder | DayBoundary: two callers, three conversations, a failing save, a restart: no day skipped, none ended twice, chapter resolved once and last |
| | SeedRunOnce, BatchAccounts | SimulationBatch: two attempts, three invocations, each killed (also between two files), interrupted or out of budget anywhere |
| | BudgetIsShared, ReportIsHonest | SemanticEvaluation: an evaluation of two cases, its calibration, a resume or a qualification, killed between the files |
| `day_moves` | DeferredIsOwned, ChapterResolves, EveryDayIsAnnounced | until a save fails or the process restarts, a deferred boundary has a pipeline to take it over, days are announced, the chapter resolves |

`talks`, `records` and `days_and_scripts` check several modules that share no variable in
one run: a behaviour is one of one of them, chosen in its initial state (`part`).

Runs that end in a violation, each the counterexample of a disagreement between the
code and a sentence of its documents or comments (quoted in `PROJECT.json`):

| run | property | what happens |
|---|---|---|
| `chat_lost_message` | NoMessageLostToIdle | a player message between the section that stores the speeches and the first of the publication is taken for part of the round; the tail section overwrites its queued status and no round answers it |
| `stream_stalled` | PublishedEventArrives | one section that saves events but never publishes them (the closing in the `finally` of a round) stops the hub for good |
| `day_restart` | DeferralEnds | the deferral of a boundary is saved, the pipeline count is not: after a restart the resumed round is dropped at 18:00 and the clock is held back for ever |

Every property of a passing run has a mutant in `PROJECT.json`: an operator beside the
original, named for the bug, for which TLC finds the property violated.

Where a property holds only under a condition, the condition is a limit of the code
that the models show when it is lifted:

* `NothingSaidWhileClosing` needs `MaxFails = 0` and `MaxCrashes = 0`: a publication
  resumed after a failure or a restart runs outside `active_chat_pipelines`, and the day
  closes while it speaks.
* `ToldIsDurable` and `ViewIsFaithful` need `MaxRaised = 0`: `_daily_action_locked` raises
  after it appended events, which snapshots then tell and no save has kept.
* `ViewIsFaithful` excepts a store that got a snapshot older or newer than itself
  (`back`, `ahead`): `setSnapshot` compares no sequence numbers.
* The properties of `day_moves` hold while `Undisturbed`: beside `day_restart`,
  `closed_days` is marked before the awaits of the closing, so after a restart in between
  the day counts as closed and is never announced. A save that fails after the pipeline was
  counted (line 3045) leaves the count above zero, and the day is deferred for ever.
* `SecondPlaceOnlyByLateJoin` names its exception: an applicant accepted while free may be
  in another conversation when its join is carried out, after the segment summary.
* `StoredOnce` excepts `Slow` commands, which a retry runs again while the first execution
  waits; a `torn` load (rows and revision of two saves, two queries without a snapshot);
  and, for what a client was told, a process in which a save `failed`.
* `CommittedOnce` excepts a second stay in the same conversation, whose draft is dropped
  when the first consolidation succeeds, and `overlap`ping consolidations of one NPC, which
  both read the entry before either wrote it.
* `NothingHidden` excepts segments summarised twice at once (`doubled`: the result that
  returns last wins).
* `SummaryOwed` excepts the segments that one of four steps loses (`dropped`): a join or a
  leave that waits for the summary raises or is stopped; the player's next leave
  writes the owed list anew; the closing of the conversation pops the round state with the
  list (`_chat_worker` 2813-2815 after 4327, `_close_conversation_locked` 4452) while no task
  minds the segment; a task that minds it raises or is stopped after the list has lost it in
  one of these ways. The segment then keeps its messages and never gets its summary, where
  SYSTEM_DESIGN.md:102 says that a segment that has ended is summarised, and :200 that a
  summary that failed is made later.
* `OwedIsOwned` excepts the conversations in `stranded`: their task raised, and its callback
  resumes nothing (4360-4363), or the process stopped; the next request resumes them.
* `RecalledOnce` allows one more search for each decision cut off after its search, and speaks
  of one process: `_recalled_triggers` (`agents/runtime.py:419`) is not saved, so after a
  restart the message may be searched for again.
* `OnlyKnownRefusals` names three reasons for a refused save: goals a load put in an order
  in which a child comes before its parent; a status that migration b18e renamed in
  `goals` and not in `run_state_items`; a cached revision ahead of a revision row that a
  downgrade below 34039 dropped.
* `AnswersAndVectorsSurvive` excepts migrations: the downgrade 9f6c removes repeated
  commands, a change of dimension clears the vectors.
* `SeedRunOnce` excepts attempts given back to the plan: an invocation without its models
  finishes every record as `not_started`, a started one too.
* `ReportIsHonest` says less of a resumed report: a resume calls the evaluation complete
  when every case was finished, a partial one too (`merge_resume_into_baseline`). A first
  calibration that timed out leaves `timedOut`, and no resume can complete it. Killed
  between the two files, a report without a calibration cannot be resumed.

More traces of the models contradict a document and have no run of their own. For five of
them the sentence is a definition of its module: `OneConversationEach`
(SYSTEM_DESIGN.md:13 and 209: an actor is in one conversation), `JoinedByConsent`
(SYSTEM_DESIGN.md:84: all participants agree; one who came later was not asked),
`DraftsCommitOnce` (SYSTEM_DESIGN.md:211), `CommandsAreIdempotent` (README.md:35),
`StaleNeverOverwrites` (`run_repository.py:41-43`, with a torn load). Further: a player
message makes the active round stale, where SYSTEM_DESIGN.md:114 says it does not
(`QueueRound` moves `ver` on); a round or opener chosen by the worker loop begins although
the player joined or spoke before its first section (`BeginRound` and `BeginOpener` do not
look at the status again), so opening words can come second; `openerActorId` is never
cleared, so a failure without triggers opens a second time (`RetryStatus`); the deferral is
cleared before the conversations are closed, so the next day may begin while they close
(`Boundary`, then `NextDay`). An NPC that has left for good keeps its open goal; a restart
during the summary of a join leaves the applicant `inviting`; an index pass that races a
save loses a vector until the next pass; a batch stopped by its ceiling leaves the started
record and the row of an attempt killed earlier.

## 4. Bounds

The bounds are the constants named `Max...` and the sets of actors; each sits in a guard of
the action it counts. They suffice for the cases the properties are about:

* ChatRound: two NPCs and the player fill a conversation. Three messages make a
  round, its preemption by the player and what is said after it. `SafetyRounds = 2` lets
  the limit of NPC-only rounds be reached. One failure and one crash may come between any
  two sections; `chat_served` has two failures, the number at which the code gives up, with
  one NPC to keep the liveness check small.
* EventStream: two overlapping sections and three events give every order of two
  publications with a duplicate and a gap. In ClientStore they are the first snapshot,
  an event before and an event after the HTTP snapshot.
* DayBoundary: two days are the first with a successor and the last; two callers of
  `world_step`, one conversation more than may be open at once, one failure, one crash.
* Membership: the player and three NPCs are two conversations, or one that fills up and an
  applicant more. The allowances of `MCMembership` bound what is done how often in one
  behaviour: four mixes, two racing joins with a leave, a daily action with an invitation
  and a restart or a leave, and one that crosses into the next day.
* SegmentSummary: three segments, three messages in one and four in all (`MaxSaid`), a rolling
  summary from the third message on, one closer beside the maintenance, one handler
  that raises or stop of the process (`MaxStops`): two summaries of one segment can overlap, and
  each of the four steps that lose a segment happens.
* Consolidation: `StayBounds` has four mixes of visits, conversations the player shares,
  handlers at work and failures (handlers that raise, restarts): two conversations, one of them
  shared, with a handler; two shared ones with a failure, which have the tasks to themselves;
  one conversation with two handlers and a failure; one that is entered twice with
  two handlers. Consolidations of the same and of different stays overlap, and a task raises
  while another one is at work.
* RunStore: two processes, a fast and a slow command, two effects, two faults: a retry at
  the other process after a lost acknowledgement.
* NpcAgent: two tasks for one slot and one message, two invocations: the second decision
  about the same message.
* RunTables: one conversation, a goal and its sub-goal, a memory, a message, one reload, one
  migration: rows of every table that refer to each other over up to four levels.
* SimulationBatch: two attempts, three invocations: killed, resumed, killed, resumed; one
  repeated request (`MaxRepeats`) passes the limit of an attempt and of the batch.
* SemanticEvaluation: a retrieval case and a text case observed twice, the second
  observation judged twice, two calibration items; one budget that is enough for all of it
  and one that runs out; one resume or qualification and one kill.

Symmetry is used in runs without liveness checking, over sets whose members no definition
orders or names.

Deadlock is not checked: every instance may stop, a conversation that is idle,
a chapter that is over, a script that has ended, or a bound that is used up.

## 5. Fairness

* ChatRound: the event loop runs every ready task, and model calls end, since they
  have `chat_model_call_timeout_seconds`: weak fairness of the worker, of leaving, of
  the callback and of a join in progress. `CooldownExpired` has strong fairness: a
  request may wake the worker out of its wait, but the due time is kept in the round
  state, and past it the wait ends at once. Nothing is assumed of players, and of
  requests only in `ServedSpec` (weak fairness of `Request`): the browser sends a
  `world_step` every two seconds while the run is open.
* EventStream: weak fairness of publish, delivery and sending; strong fairness of
  whatever needs `run.lock`, since `asyncio.Lock` wakes its waiters first come first
  served.
* DayBoundary: strong fairness of `StepBegin` for the browser's repeated `world_step`
  and the lock's queue; of the ends of thoughts, pipelines and closings because model
  calls are bounded.

## 6. What is proved

All theorems hold for any values of the constants that satisfy the named assumptions of the
modules: any sets of actors, sections, sockets, processes and tasks, any values of the
bounds. Three name one more assumption, without which the code breaks the property. Every
inductive invariant was first checked as an invariant of an instance by TLC.

### Event stream and browser store: `EventStreamProofs`

| theorem | statement |
|---|---|
| `StreamTypeCorrect` | `Spec => []TypeOK` |
| `StreamLosesNothing` | `Spec => []NothingSlipsThrough` |
| `StreamTellsOneByOne` | `Spec => ToldOneByOne` |
| `StreamImplementsFeed` | `Spec => FeedSpec` |
| `StreamTellsTheDurable` | with `MaxRaised = 0`, `Spec => []ToldIsDurable` |
| `ClientViewIsFaithful` | with `MaxRaised = 0`, `ClientSpec => []ViewIsFaithful` |

The assumptions are those of `StreamAssumption` and `HttpAssumption`, and for the last two
`MaxRaised = 0` (without it the properties are false, as section 3 says).

`NothingSlipsThrough` says that an event the hub has delivered and a client was not
told yet is in the client's queue. It is not inductive. Two things could break it: the
hub delivers an event to a handler that was not among its captured subscribers, and a
queue has gaps or repetitions. The inductive invariant `IInv` adds

* `InRange`: the hub, the queues and the sections hold only numbers of existing events,
* `Subscribers`: a handler past `Subscribe` is subscribed,
* `Queues`: a queue is increasing, by one, and ends at the hub's last number,
* `Captured`: a pending event beyond a handler's snapshot has captured that handler.

`Captured` is the heart: the snapshot is taken after the subscription, so every event
later than the snapshot was appended, hence accepted by the hub, when the handler
was already subscribed. Each conjunct has its own lemma (`NextType`, `NextRange`,
`NextSubscribers`, `NextQueues`, `NextCaptured`), with one step per action;
`NextIInv` puts them together. `StreamTellsOneByOne` follows since the head of a live
queue is skipped or is the next number (`SendsTheNext`), and `StreamImplementsFeed`
maps each action to a step of the feed or to a stutter (`FeedStep`).
`StreamTellsTheDurable` needs a second invariant (`Durable`): what the hub knows or a
section publishes was saved, and only the section that holds the lock has events that
were not.

`ClientViewIsFaithful` adds, for each client (`Sees`), what its store has to do with where the
handler is: while no response of a request was older than the store, the store reflects an
initial segment of the events and has shown each event after its first snapshot up to what the
handler has sent; and where the handler began is not past where it is. Snapshots and responses
carry numbers that were saved, so the store is not ahead of what is durable; this is where
`Durable` comes in again.

### Chat rounds: `ChatRoundProofs`

| theorem | statement |
|---|---|
| `ChatTypeCorrect` | `Spec => []TypeOK` |
| `ChatRoundsDoNotOverlap` | `Spec => []RoundsDoNotOverlap` |
| `ChatOneSpeechPerRound` | `Spec => []OneSpeechPerRound` |
| `ChatNoStaleSpeech` | `Spec => []NoStaleSpeech` |
| `ChatSpeechMatchesSegment` | `Spec => []SpeechMatchesSegment` |
| `ChatNoOrphanedRound` | `Spec => []NoOrphanedRound` |
| `ChatNothingSaidWhileClosing` | with `Faultless`, `Spec => NothingSaidWhileClosing` |

The assumption is `ConstantsAssumption`; `Faultless` says that no task fails and the process
does not restart (the instance of `chat_rounds` is such a one). The types need one addition,
`Joiner`: a join that waits for the summary remembers who joins. None of the safety
properties is inductive: a step that stores speeches while others still wait, or under a
number already spoken under, would break the first two. The invariant `Inv` adds

* `Pending`: speeches wait only under the status `publishing` (while the conversation
  is open), nothing waits while a worker prepares a round, and the waiting speeches
  are of distinct authors who have not spoken in the round yet;
* `Numbers`: nothing was said under a later number than `rid`, and nothing yet under
  the number of a round that still asks its models;
* `Listening`: the version only grows, and while a round that asks still has the version
  it froze nothing was said since; after a waiting speech was asked for, only its own round
  has spoken;
* `Heard`: the same of a speech that was said.

Most sections are `Quiet`: they say nothing, begin no round, and leave the waiting list
alone or empty it. One lemma shows that such a step preserves `Inv` (`QuietKeepsInv`),
three that the sections are quiet (`CommandsAreQuiet`, `WorkerIsQuiet`,
`EndsAreQuiet`), and the four that are not have a lemma each: a player message, the
start of a round, the storing of its speeches, the publication of one. That a player
message empties the waiting list is where `Pending` is needed most:
`_queue_message_round_locked` empties it in an active round only. `NoStaleSpeech` follows
from `Heard`. That no round is orphaned rests on `Attended`: a worker that leaves its
section early is followed by the callback of its task.

For the closing, `Silence` relates the pipelines to what waits. `Counted`: what waits is
said only by a worker counted as a pipeline, under the tokens it froze, or its segment is
over. `ClosingIsSilent`: a conversation closes after the end of its day and only when no
pipeline is counted, or by its own worker at the end of a pipeline, and then what still
waits is of a segment that is over. A publication that a worker takes up again after a failure
or a restart is not counted, and the end of the day does not wait for it (section 3).

### World clock and day boundaries: `DayBoundaryProofs`

| theorem | statement |
|---|---|
| `DayInvariant`, `DayTypeCorrect` | `Spec => []DayInv`, `Spec => []DayTypeOK` |
| `DaysInOrder` | `Spec => []DaysEndInOrder` |
| `DeferredBoundaryIsOwned` | `Spec => []DeferredIsOwned` |

The assumption is `BoundaryAssumption`: any callers, finitely many conversations, any number
of days. That no day is passed unclosed is not inductive, for the clock may be moved by a
caller that has not looked at the boundary. `Handled` says that at 18:00 the day is closed
or deferred before the lock is released; it needs that no caller waits for a model there
(`ThoughtMarked`: the thoughts of the day were marked before) and that who moved to the
next morning still holds the lock (`RolledAtMorning`). `Deadline` says that one caller takes
the deadline up, `Closings` that a day is closed by one section, and `ChapterCloses` that
the section that ends the chapter still has every open conversation before it. `Owned` and
`PipelinesCounted` are the argument for the deferral: the count is never less than the
pipelines that wait for a model, and a boundary is deferred only while it is positive.

### Conversations and requests: `MembershipProofs`

| theorem | statement |
|---|---|
| `MemberInvariant`, `MemberTypeCorrect` | `MemberSpec => []MemberInv`, `MemberSpec => []MemberTypeOK` |
| `LimitsAreKept` | `MemberSpec => []LimitsKept` |
| `RequestsAreSettledOnce` | `MemberSpec => SettledOnce` |
| `SecondPlaceIsALateJoin` | `MemberSpec => SecondPlaceOnlyByLateJoin` |
| `EndedSegmentsStayOwned` | `MemberSpec => SegmentLostOnlyByRestart` |

The assumption is `MembershipAssumption`: any number of actors, conversations, days and
allowances. The actions are described by what they do to the conversations, to the
requests and to those who will start the next segment, one lemma each; what such a move
keeps is shown once. `EndedSegmentsStayOwned` is the one that needs an invariant of its own,
`OwnersFit`: a join that waits for a summary raises when its applicant finds no room any
more, and a leave when its actor has gone, so having an owner is not enough; among the
owners of a segment that has ended there is always one that will not raise.

### Consolidation of drafts and summaries: `ConsolidationProofs`

| theorem | statement |
|---|---|
| `StayTypeCorrect` | `StaySpec => []StayTypeOK` |
| `OwedHasATask` | `StaySpec => []OwedIsOwned` |
| `DraftsAreCommittedOnce` | `StaySpec => []CommittedOnce` |
| `SummaryInvariant`, `SummaryTypeCorrect` | `SummarySpec => [](Sums /\ Owing)`, `SummarySpec => []SummaryTypeOK` |
| `SummariesAreOwed` | `SummarySpec => []SummaryOwed` |
| `SummariesHideNothing` | `SummarySpec => NothingHidden` |

The assumptions are `ConsolidationAssumption` (finitely many conversations) and
`SummaryAssumption`. `OwedIsOwned` is
inductive with the types: an entry becomes pending together with its task, a task that ends
well resumes whatever is pending, in any conversation, and one that is lost strands only its own
conversation. `CommittedOnce` is not, because a call decides with the entry it read before the
model answered. The invariant `CommitInv` adds what that reading is worth: `Kept` (whoever
saw or stored that a draft was committed is right), and as long as no two calls
overlapped `Exact` (the entries count the commits and the meetings) and `Reads` (there
is one call at most, and the entry it read is the one there is).

Of the summaries, `NothingHidden` is a property of steps, and the step that could break it
is the return of a call: `CallsFit` says what it may write (a summary of everything before
its cursor, up to a message that was said), and `FinalsFit` that the segment of a final
summary has not changed since it was asked for. `SummaryOwed` needs `Owing`: the segment the
maintenance task was given is the one its call is about, and what is owed or minded has ended,
so that a segment that still runs needs nobody. Two classes of steps could break it, and have
a lemma each. `Lets`: a step that takes segments off the list leaves them to the task or loses
them (`LetsOwned`). `Breaks`: a step that ends handlers or the task leaves what they had to the
list or loses it (`BreakKeeps`). The end of the task resumes another owed one (`EndsOwing`).

### Agent invocations: `NpcAgentProofs`

| theorem | statement |
|---|---|
| `AgentTypeCorrect` | `AgentSpec => []AgentTypeOK` |
| `RequestsAreAccounted` | `AgentSpec => []RequestsAccounted` |
| `MemoriesAreRecalledOnce` | `AgentSpec => []RecalledOnce` |

The assumption is `AgentAssumption`. The bound of eight requests is not inductive: `Progress`
gives for each task how many requests it can have sent when it is at its n-th try of its
m-th decision, `4(m - 1) + 2(n - 1)` while it waits for its slot and one or two more
afterwards; `Flow` is the account of slots and counters. For the searches the
invariant `Searches` says, trigger by trigger, that at most one task decides about it, that
a decision that may still search follows none that has searched, and that as long as
nobody is known to have searched there are no more searches than decisions cut off.

### Commands and their store: `RunStoreProofs`

| theorem | statement |
|---|---|
| `StoreTypeCorrect` | `StoreSpec => []StoreTypeOK` |
| `EffectsAreStoredOnce` | `StoreSpec => []StoredOnce` |
| `SavesOverwriteNothing` | `StoreSpec => NothingOverwritten` |

The assumption is `StoreAssumption`; the number of processes, commands and waiting requests
is any. A save compares one number, the revision. What makes that enough is `Current`: no
aggregate in memory is ahead of the store, and one that is at the stored revision goes on
from the stored effects and records, though it may hold effects of saves that failed.
`Known` adds that a command with an effect is recorded in the same aggregate, and
`Durable`, while no save has raised, that what processes and clients know is stored.
`SaveSound` shows that a save, accepted or not, keeps all of it: afterwards every other
process is behind. A load is the only step that reads two states; it is the one that
`torn` excludes.

### The rows of a run: `RunStoreProofs`

| theorem | statement |
|---|---|
| `TablesInvariant`, `TablesTypeCorrect` | `TablesSpec => []TablesInv`, `TablesSpec => []TablesTypeOK` |
| `AnswersAndVectorsKept` | `TablesSpec => AnswersAndVectorsSurvive` |
| `RefusalsAreKnown` | `TablesSpec => OnlyKnownRefusals` |

The assumptions are `StatusesAssumption` (the statuses a draft may set are listed ones) and
`TableBoundsAssumption`; conversations and bounds are any. `TablesInv` says of the database
that every row is `RowOK` (it has the shape its table gives it, and a row of a run names the row
that cascades to it), is lawful at the present revision and refers to rows that are there;
that two rows of one memory have the same vector (`OneVector`); that a memory which is stored is
among the items of the last save (`ItemsKept`); that a run which is stored has its scenario. Of
the run in memory it says that it is well formed (`RunOK`) and has what was stored of it
(`RunAhead`): an answer that was recorded and a memory that has a row are never forgotten by
the aggregate, also by one that was loaded.

* *The schema.* `Cascades` and `Restricts` are the 74 references read by what they do. Lists
  of tables that are deleted together are `Closed`: what the deletion of one cascades to is
  deleted with it, so five levels reach every row and a replaced table leaves no row that
  refers to it (`SaveListsClosed`, `ReplacedOK`). A deletion of the run takes all
  its rows at once: each of them hangs on the row of the run by cascades only.
* *The migrations.* A row is lawful at one revision and at the next, or the migration
  restates it, with its name and references (`Migrates`); a downgrade drops tables that only
  tables it drops refer to.
* *What survives.* `Outlives` is the property of one step. A save writes the answered
  commands of the run in memory, which has the stored ones by `RunAhead`, and gives each
  memory the vector it had before (`VectorKept`, which needs `OneVector`);
  the index passes fill in what is missing. `Promise` says it of every step, and that no
  migration or deletion is refused.
* *What is refused.* A save is six parts, one after the other. `SaveReady` says when it must
  succeed: the goals have their parents before them, the statuses are listed ones, the stored
  rows are sound. Then no two rows it builds have one name (`RowsUnique`: a row is named by
  the entry it is built from), every row refers to rows of tables inserted before
  (`Sequenced`, `Placed`, `RefsPlaced`: one table at a time, what its rows refer to and who
  owns it), and what a part deletes is referred to by nothing it keeps (`WholeDeletes`,
  `FreeDeletes`). `SaveFits` puts the parts together, `AddFits` does it for an addition.

### Simulations and evaluations: `ScriptProofs`

| theorem | statement |
|---|---|
| `BatchInvariant`, `SimTypeCorrect` | `SimSpec => []BatchInv`, `SimSpec => []SimTypeOK` |
| `SeedsRunOnce` | `SimSpec => []SeedRunOnce` |
| `BatchesAccount` | `SimSpec => []BatchAccounts` |
| `EvalInvariant`, `EvalTypeCorrect` | `EvalSpec => []EvalInv`, `EvalSpec => []EvalTypeOK` |
| `BudgetsAreShared` | `EvalSpec => []BudgetIsShared` |
| `HonestInvariant`, `ReportsAreHonest` | `EvalSpec => []HonestInv`, `EvalSpec => []ReportIsHonest` |

The assumptions are `SimulationAssumption` and `EvaluationAssumption`; attempts, launches,
kills, cases, retries, resumes and budgets are any.

A batch is stopped anywhere and goes on from its files. `LedgerFits` says that a start
leaves a status in the record (so it is not started again, unless given back), `HandFits`
that the attempt in hand has the record of a started one. What a batch publishes comes from
three collections of reports, those of the checkpoint, of this invocation and of a resume:
`ReportsFit` and `DoneFits` say that each agrees with the records and with the rows that
were deleted; `ResumeFits`, that what a resume leaves out of its plan was settled, its rows
noted for deletion, and the rest is over when the batch is published; `RowsGone`, that the
rows of both are gone once the runs were deleted; `WrittenFits`, that as many of the checkpoints
as have been written again hold the report of a completed attempt (`Backed`), up to the last
file.

`BudgetIsShared` speaks of an evaluation and its calibration together, while the calibration
looks only at the limits it was given when it began: `CalibrationFits` keeps what they have
to do with what the evaluation had spent. `ExecutionFits` says it of the evaluation alone:
a request is sent below the limit, and one answer is `MaxRequests` requests at most, so a
limit is passed by `MaxRequests - 1`. A resume adds to the execution of the file, whose
limits of calls no longer hold; it raises the limit of cost by its own cap.

`ReportIsHonest` speaks of the file, which is written when all is over, so `HonestInv` follows
what the file will say from the first case on. `RunFits`: as long as the runner has met no
error, the cases behind it are whole, and of the one in hand the observations before the
present one are judged as often as they must be (`ResultsFit`, `CaseFits`). How often an
observation is judged depends on its number in the whole evaluation, which `OrdinalOf` counts
as the observations of the cases before it (`Before`, a finite set of pairs); `OrdinalFits`
says that it is the counter the runner keeps. `OverFits` keeps this until the calibration is
merged, `ScoresFit` says which items of the calibration are scored while it is at work: the
ones it no longer has to do, and for a resume none that the file has already. `FilesFit` says
it of the three files: the two that are written one after the other agree as far as they can,
and a completion calls itself completed when all its items are scored.

### Only model-checked

* All liveness properties: `RoundsSettle`, `EveryEventArrives`, `ChapterResolves`,
  `EveryDayIsAnnounced` (fairness and ENABLED are out of the prover's reach), and what the
  three violated runs show.
* `TalksTypeOK`, `RecordsTypeOK` and `ScriptsTypeOK` are the type invariants of the modules
  that share a run; those of Membership, SegmentSummary, Consolidation, RunStore, RunTables,
  NpcAgent, ClientStore (within `ClientInv`), DayBoundary, SimulationBatch and
  SemanticEvaluation are proved, each for its own specification.

## 7. Not modelled

* What the model answers, and its validation: any answer is possible in the modules.
  Prompts, reply targets, traces, wording.
* Chapter resolution: thresholds over stances, relations and goals. It is a pure function
  with unit tests for each branch; DayBoundary has its timing, Consolidation the drafts it
  reads.
* `advance_time`, scripted world events and the schedules of NPCs: they change nothing
  the modelled properties read, except the clock, which moves the same way.
* The ranking of memories and speech examples: a query over vectors in PostgreSQL.
* HTTP adapters: each calls one operation of RunService that is modelled. Scenario loader,
  settings: validation of static data. User interface, game scene: rendering.
* The rule scorer, the metrics of a report, the retrieval benchmark and `src/benchmark`:
  pure computations over finished answers, without state that outlives a call. The player
  strategies of a simulation attempt: `PlayEnds` allows any of their outcomes.

## 8. Order of the work

Done in the order of what the parts protect: the event stream with its abstract feed and
its proofs; the chat rounds with theirs; the browser's store; the day boundary; then
membership, consolidation, the store with its commands, summaries and tables; the agent;
the batch and the evaluation; then the proofs of the safety and action properties of all of
them. What would come next: the chapter's thresholds as operators compared with the rules of
the design; a composition of ChatRound and DayBoundary that shows a pipeline of the latter to
be implemented by the worker of the former; the optimistic messages of the browser.
