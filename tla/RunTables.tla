------------------------------ MODULE RunTables ------------------------------
(***************************************************************************)
(* The tables a run is stored in: the foreign keys between them, the        *)
(* migrations that create and change them, and the transaction that         *)
(* replaces every row of a run by the rows of its present state.            *)
(*                                                                          *)
(* A run is what its rows refer to each other by: conversations, segments,  *)
(* messages, goals, memories, requests, world events.  A row names the rows *)
(* it refers to and the value of its checked column; days, minutes, texts   *)
(* and the columns no other row depends on are left out.  The tables refuse *)
(* a row whose parent is missing, a value their check does not list, and    *)
(* the deletion of a row that another one still RESTRICTs.                  *)
(***************************************************************************)
EXTENDS Naturals, Sequences, FiniteSets, SequencesExt

CONSTANTS
    Talks,          \* conversations that may take place
    MaxGoals,       \* bound on the goals an NPC adds to the one of the scenario
    MaxMemories,    \* bound on the memories
    MaxSaid,        \* bound on the messages
    MaxLoads,       \* bound on restarts of the process
    Statuses,       \* the goal statuses a draft may set
    MaxMoves        \* bound on downgrades from the newest schema and deletions by the operator

\* _GOAL_UPDATE_STATUSES of the draft contract, checked by the tables as well
ASSUME StatusesAssumption == Statuses \subseteq {"active", "blocked", "achieved", "abandoned"}
\* bounds of the model, whatever they are
ASSUME TableBoundsAssumption == {MaxLoads, MaxMoves} \subseteq Nat

VARIABLES
    run,            \* the run in the memory of the process, or Unloaded
    tuples,         \* the rows of the database
    items,          \* run_state_items: the run as the last transaction wrote it
    revision,       \* the migration the database is at
    refused,        \* what the database refused in the last step, or "nothing"
    loads, moves    \* restarts, and series of downgrades and deletions, so far

tableVars == <<run, tuples, items, revision, refused, loads, moves>>

--------------------------------------------------------------------------------
(* The tables and their references: <<child, parent, ON DELETE>>.            *)

ScenarioReferences ==
    {<<"npc_profiles", "actors", "CASCADE">>, <<"goal_definitions", "actors", "RESTRICT">>,
     <<"agendas", "actors", "RESTRICT">>, <<"agendas", "goal_definitions", "RESTRICT">>}

StateReferences ==
    {<<"chapter_runs", "agendas", "RESTRICT">>, <<"run_actor_states", "chapter_runs", "CASCADE">>,
     <<"run_actor_states", "actors", "RESTRICT">>,
     <<"run_daily_schedules", "chapter_runs", "CASCADE">>,
     <<"run_daily_schedules", "actors", "RESTRICT">>}

HistoryReferences ==
    {<<"run_events", "chapter_runs", "CASCADE">>, <<"command_records", "chapter_runs", "CASCADE">>,
     <<"world_events", "chapter_runs", "CASCADE">>,
     <<"world_event_observers", "world_events", "CASCADE">>,
     <<"world_event_observers", "actors", "RESTRICT">>,
     <<"topic_candidates", "chapter_runs", "CASCADE">>,
     <<"topic_candidates", "topics", "SET NULL">>}

ConversationReferences ==
    {<<"conversations", "chapter_runs", "CASCADE">>,
     <<"conversation_participants", "conversations", "CASCADE">>,
     <<"conversation_participants", "actors", "RESTRICT">>,
     <<"conversation_segments", "conversations", "CASCADE">>}

MessageReferences ==
    {<<"segment_participants", "conversation_segments", "CASCADE">>,
     <<"segment_participants", "actors", "RESTRICT">>,
     <<"messages", "conversations", "CASCADE">>, <<"messages", "conversation_segments", "CASCADE">>,
     <<"messages", "actors", "RESTRICT">>, <<"conversation_idle_states", "conversations", "CASCADE">>}

RequestReferences ==
    {<<"invitations", "chapter_runs", "CASCADE">>, <<"invitations", "actors", "RESTRICT">>,
     <<"invitations", "conversations", "RESTRICT">>, <<"invitations", "goals", "RESTRICT">>,
     <<"join_requests", "chapter_runs", "CASCADE">>, <<"join_requests", "conversations", "CASCADE">>,
     <<"join_requests", "actors", "RESTRICT">>,
     <<"join_request_approvers", "join_requests", "CASCADE">>,
     <<"join_request_approvers", "actors", "RESTRICT">>}

DraftReferences ==
    {<<"conversation_drafts", "conversations", "CASCADE">>,
     <<"conversation_drafts", "actors", "RESTRICT">>,
     <<"consolidations", "conversations", "CASCADE">>, <<"consolidations", "actors", "RESTRICT">>}

GoalReferences ==
    {<<"goals", "chapter_runs", "CASCADE">>, <<"goals", "goal_definitions", "RESTRICT">>,
     <<"goals", "goals", "RESTRICT">>, <<"goals", "actors", "RESTRICT">>,
     <<"relationships", "chapter_runs", "CASCADE">>, <<"relationships", "actors", "RESTRICT">>}

MemoryReferences ==
    {<<"memories", "chapter_runs", "CASCADE">>, <<"memories", "actors", "RESTRICT">>,
     <<"memories", "world_events", "RESTRICT">>, <<"memories", "conversations", "RESTRICT">>,
     <<"memories", "conversation_segments", "RESTRICT">>}

LinkReferences ==
    {<<"memory_evidence_messages", "memories", "CASCADE">>,
     <<"memory_evidence_messages", "messages", "CASCADE">>,
     <<"memory_actor_links", "memories", "CASCADE">>, <<"memory_actor_links", "actors", "RESTRICT">>,
     <<"memory_topic_links", "memories", "CASCADE">>, <<"memory_topic_links", "topics", "RESTRICT">>,
     <<"memory_goal_links", "memories", "CASCADE">>, <<"memory_goal_links", "goals", "CASCADE">>,
     <<"memory_edges", "memories", "CASCADE">>}

StanceReferences ==
    {<<t, "chapter_runs", "CASCADE">> : t \in {"chapter_actor_stances", "chapter_authorizations",
                                               "chapter_agenda_stances"}}
    \cup {<<t, p, "RESTRICT">> : t \in {"chapter_actor_stances", "chapter_authorizations",
                                        "chapter_agenda_stances"}, p \in {"messages", "memories"}}
    \cup {<<"chapter_actor_stances", "actors", "RESTRICT">>,
          <<"chapter_agenda_stances", "actors", "RESTRICT">>,
          <<"chapter_agenda_stances", "agendas", "RESTRICT">>}

StorageReferences ==
    {<<t, "chapter_runs", "CASCADE">> : t \in {"chapter_resolutions", "run_state_items",
                                               "run_storage_revisions"}}

References ==
    UNION {ScenarioReferences, StateReferences, HistoryReferences, ConversationReferences,
           MessageReferences, RequestReferences, DraftReferences, GoalReferences,
           MemoryReferences, LinkReferences, StanceReferences, StorageReferences}

--------------------------------------------------------------------------------
(* Rows.  status is the checked column of a goal and the vector of a memory. *)

Chapter == <<"chapter_runs", "run">>
Npc == <<"actors", "npc">>
Topic == <<"topics", "topic">>
Definition == <<"goal_definitions", "goal">>
Board == <<"agendas", "agenda">>

\* A row names its table and key, and the rows it refers to.
Row(table, key, refs) == [name |-> <<table, key>>, refs |-> refs, status |-> "none"]
TableOf(row) == row.name[1]

\* The rows of the scenario, merged by the application when it starts.
ScenarioRows ==
    {Row(Npc[1], Npc[2], {}), Row("npc_profiles", "npc", {Npc}), Row(Topic[1], Topic[2], {}),
     Row(Definition[1], Definition[2], {Npc}), Row(Board[1], Board[2], {Npc, Definition})}

\* A run as it is created: the goal of the scenario, no conversation yet.
FreshRun ==
    [present |-> TRUE, goals |-> <<[goal |-> 0, parents |-> {}, status |-> "active"]>>,
     segments |-> [c \in Talks |-> 0], messages |-> {}, memories |-> {}, invited |-> {},
     event |-> FALSE, ended |-> FALSE, commands |-> {}, ahead |-> FALSE]

EmptyRun == [FreshRun EXCEPT !.goals = <<>>]
Unloaded == [EmptyRun EXCEPT !.present = FALSE]

Opened(r) == {c \in Talks : r.segments[c] > 0}
Segments(r) == {s \in Talks \X {1, 2} : s[2] <= r.segments[s[1]]}
GoalIds(r) == {r.goals[i].goal : i \in DOMAIN r.goals}

\* <<key, references>> of the rows a run has in each table.
StateEntries(table, r) ==
    CASE table = "chapter_runs" -> {<<"run", {Board}>>}
      [] table \in {"run_actor_states", "run_daily_schedules"} -> {<<"npc", {Chapter, Npc}>>}
      [] table \in {"run_state_items", "run_storage_revisions"} -> {<<"run", {Chapter}>>}
      [] OTHER -> {}

HistoryEntries(table, r) ==
    CASE table = "run_events" -> {<<"run", {Chapter}>>}
      [] table = "command_records" -> {<<n, {Chapter}>> : n \in r.commands}
      [] table = "world_events" /\ r.event -> {<<"event", {Chapter}>>}
      [] table = "world_event_observers" /\ r.event -> {<<"event", {<<"world_events", "event">>, Npc}>>}
      [] OTHER -> {}

TalkEntries(table, r) ==
    CASE table = "conversations" -> {<<c, {Chapter}>> : c \in Opened(r)}
      [] table = "conversation_idle_states" -> {<<c, {<<"conversations", c>>}>> : c \in Opened(r)}
      [] table \in {"conversation_participants", "conversation_drafts", "consolidations"} ->
            {<<c, {<<"conversations", c>>, Npc}>> : c \in Opened(r)}
      [] table = "conversation_segments" -> {<<s, {<<"conversations", s[1]>>}>> : s \in Segments(r)}
      [] table = "segment_participants" ->
            {<<s, {<<"conversation_segments", s>>, Npc}>> : s \in Segments(r)}
      [] table = "messages" ->
            {<<s, {<<"conversations", s[1]>>, <<"conversation_segments", s>>, Npc}>> : s \in r.messages}
      [] OTHER -> {}

MemoryEntries(table, r) ==
    CASE table = "memories" ->
            {<<m.memory, {Chapter, Npc} \cup (IF m.said = {} THEN {<<"world_events", "event">>}
                                              ELSE {<<"conversations", s[1]>> : s \in m.said})>>
                : m \in r.memories}
      [] table = "relationships" -> {<<"npc", {Chapter, Npc}>>}
      [] OTHER -> {}

LinkEntries(table, r) ==
    CASE table = "memory_evidence_messages" ->
            UNION {{<<<<m.memory, s>>, {<<"memories", m.memory>>, <<"messages", s>>}>> : s \in m.said}
                     : m \in r.memories}
      [] table = "memory_goal_links" ->
            UNION {{<<<<m.memory, g>>, {<<"memories", m.memory>>, <<"goals", g>>}>> : g \in m.about}
                     : m \in r.memories}
      [] table = "memory_actor_links" -> {<<m.memory, {<<"memories", m.memory>>, Npc}>> : m \in r.memories}
      [] table = "memory_topic_links" -> {<<m.memory, {<<"memories", m.memory>>, Topic}>> : m \in r.memories}
      [] OTHER -> {}

RequestEntries(table, r) ==
    LET joins == {s \in Segments(r) : s[2] = 2} IN
    CASE table = "invitations" ->
            {<<i, {Chapter, Npc, <<"conversations", i[1]>>, <<"goals", i[2]>>}>> : i \in r.invited}
      [] table = "join_requests" -> {<<s, {Chapter, Npc, <<"conversations", s[1]>>}>> : s \in joins}
      [] table = "join_request_approvers" -> {<<s, {<<"join_requests", s>>, Npc}>> : s \in joins}
      [] OTHER -> {}

ChapterEntries(table, r) ==
    CASE table = "chapter_actor_stances" -> {<<"npc", {Chapter, Npc}>>}
      [] table = "chapter_agenda_stances" -> {<<"npc", {Chapter, Board, Npc}>>}
      [] table = "chapter_authorizations" -> {<<"run", {Chapter}>>}
      [] table = "chapter_resolutions" /\ r.ended -> {<<"run", {Chapter}>>}
      [] OTHER -> {}

EntriesOf(table, r) ==
    StateEntries(table, r) \cup HistoryEntries(table, r) \cup TalkEntries(table, r)
        \cup MemoryEntries(table, r) \cup LinkEntries(table, r) \cup RequestEntries(table, r)
        \cup ChapterEntries(table, r)

\* The goals in the order of the run: the only rows that refer to rows of their own table.
GoalRows(r) ==
    [i \in DOMAIN r.goals |->
        [Row("goals", r.goals[i].goal,
             {Chapter, Npc} \cup {<<"goals", p>> : p \in r.goals[i].parents}
                \cup (IF r.goals[i].goal = 0 THEN {Definition} ELSE {}))
            EXCEPT !.status = r.goals[i].status]]

\* Mutants (here and below, each before the operator it changes): what the operator would be
\* with a plausible bug in the code it stands for; they are used by no definition of the
\* specification.
VectorForgotten(m, stored) == "none"

\* A memory keeps the vector the database has for it.
VectorOf(m, stored) ==
    LET known == {t \in stored : t.name = <<"memories", m>>} IN
    IF known = {} THEN "none" ELSE (CHOOSE t \in known : TRUE).status

\* The rows of a table.
RowsOf(table, r, stored) ==
    CASE table = "goals" -> ToSet(GoalRows(r))
      [] table = "memories" ->
            {[Row(table, e[1], e[2]) EXCEPT !.status = VectorOf(e[1], stored)]
                : e \in EntriesOf(table, r)}
      [] OTHER -> {Row(table, e[1], e[2]) : e \in EntriesOf(table, r)}

--------------------------------------------------------------------------------
(* The database: inserts, deletions with their cascades, transactions.       *)

GoalStatuses(n) ==
    IF n < 6 THEN {"active", "blocked", "completed", "abandoned", "departed"}
    ELSE {"active", "blocked", "achieved", "abandoned"}
Vector(n) == IF n < 3 THEN "384" ELSE IF n < 5 THEN "1024" ELSE "2048"

\* The checks of a table at a revision of the schema.
Lawful(row, n) ==
    /\ TableOf(row) = "goals" => row.status \in GoalStatuses(n)
    /\ TableOf(row) = "memories" => row.status \in {"none", Vector(n)}

Names(rs) == {t.name : t \in rs}

Refers(t, p, rule) == p.name \in t.refs /\ <<TableOf(t), TableOf(p), rule>> \in References

\* The rows a deletion takes with it, level by level, as the triggers of PostgreSQL are
\* queued; a row that RESTRICTs must be gone one level after the row it refers to.
NextLevel(rs, a) ==
    LET left == rs \ a.gone
        next == {t \in left : \E p \in a.level : Refers(t, p, "CASCADE")}
    IN [gone |-> a.gone \cup next, level |-> next,
        ok |-> a.ok /\ ~ \E t \in left, p \in a.level : Refers(t, p, "RESTRICT")]

\* done: the rows a transaction has so far; ok is FALSE when a statement was refused.  No
\* chain of references is longer than five.
DeletedRows(done, dead) ==
    LET Next(a) == NextLevel(done.rows, a)
        all == Next(Next(Next(Next(Next([gone |-> dead, level |-> dead, ok |-> TRUE])))))
    IN [rows |-> done.rows \ all.gone, ok |-> done.ok /\ all.ok]

\* Rows are deleted table by table: one that RESTRICTs goes no later than what it refers to.
DeletesInOrder(rs, deletes) ==
    \A t, p \in rs :
        p.name \in t.refs /\ Refers(t, p, "RESTRICT") /\ TableOf(p) \in ToSet(deletes) =>
            \E i \in DOMAIN deletes : deletes[i] = TableOf(t) /\ \A j \in 1..(i - 1) : deletes[j] # TableOf(p)

\* Goals are inserted in the order the run holds them.
GoalsBefore(t, r) ==
    {<<"goals", r.goals[j].goal>> : j \in
        {k \in DOMAIN r.goals : \E i \in DOMAIN r.goals :
                                    k < i /\ t.name = <<"goals", r.goals[i].goal>>}}

\* Rows are inserted table by table: what a row refers to is there before it.
InsertsInOrder(rs, new, inserts, r) ==
    LET there == Names(rs) IN
    /\ \A t \in new : Lawful(t, 6) /\ t.name \notin there /\ \A u \in new : u.name = t.name => u = t
    /\ \A i \in DOMAIN inserts :
        LET earlier == {inserts[j] : j \in 1..(i - 1)}
            before  == there \cup Names({u \in new : TableOf(u) \in earlier})
        IN \A t \in new : TableOf(t) = inserts[i] => t.refs \subseteq before \cup GoalsBefore(t, r)

\* A part of a transaction that writes run r; stored: the rows before the transaction.
NewRows(inserts, r, stored) == UNION {RowsOf(table, r, stored) : table \in ToSet(inserts)}
Replaced(done, deletes, inserts, r, stored) ==
    LET kept == DeletedRows(done, {t \in done.rows : TableOf(t) \in ToSet(deletes)}).rows
        new  == NewRows(inserts, r, stored)
    IN [rows |-> kept \cup new,
        ok   |-> done.ok /\ DeletesInOrder(done.rows, deletes) /\ InsertsInOrder(kept, new, inserts, r)]

\* Rows that may be there already: world events are updated, run events left alone.
Merged(done, inserts, r, stored) ==
    LET new == {t \in NewRows(inserts, r, stored) : t.name \notin Names(done.rows)}
    IN [rows |-> done.rows \cup new, ok |-> done.ok /\ InsertsInOrder(done.rows, new, inserts, r)]

\* replace_normalized_projection.
DeleteOrderGoalsFirst ==
    <<"chapter_resolutions", "chapter_agenda_stances", "chapter_authorizations",
      "chapter_actor_stances", "memory_edges", "memory_goal_links", "memory_topic_links",
      "memory_actor_links", "memory_evidence_messages", "consolidations", "conversation_drafts",
      "goals", "join_request_approvers", "join_requests", "invitations", "memories", "relationships",
      "conversation_idle_states", "messages", "segment_participants", "conversation_segments",
      "conversation_participants", "conversations">>

DeleteOrder ==
    <<"chapter_resolutions", "chapter_agenda_stances", "chapter_authorizations",
      "chapter_actor_stances", "memory_edges", "memory_goal_links", "memory_topic_links",
      "memory_actor_links", "memory_evidence_messages", "consolidations", "conversation_drafts",
      "join_request_approvers", "join_requests", "invitations", "memories", "relationships", "goals",
      "conversation_idle_states", "messages", "segment_participants", "conversation_segments",
      "conversation_participants", "conversations">>

InsertOrder ==
    <<"conversations", "conversation_participants", "conversation_segments", "segment_participants",
      "messages", "conversation_idle_states", "goals", "relationships", "memories",
      "memory_evidence_messages", "memory_actor_links", "memory_topic_links", "memory_goal_links",
      "memory_edges", "invitations", "join_requests", "join_request_approvers",
      "conversation_drafts", "consolidations", "chapter_actor_stances", "chapter_authorizations",
      "chapter_agenda_stances", "chapter_resolutions">>

\* SQLAlchemyRunRepository.add and save.
AddedRows(r, stored) ==
    Replaced([rows |-> stored, ok |-> TRUE], <<>>,
        <<"chapter_runs", "run_actor_states", "run_daily_schedules", "run_events", "command_records",
          "world_events", "world_event_observers", "run_state_items">>
        \o InsertOrder \o <<"run_storage_revisions">>, r, stored)

SavedRows(r, stored) ==
    LET Direct == <<"run_actor_states", "run_daily_schedules", "run_state_items">>
        first  == Replaced([rows |-> stored, ok |-> TRUE], Direct, Direct, r, stored)
        unseen == Replaced(first, <<"world_event_observers">>, <<>>, r, stored)
        told   == Merged(unseen, <<"world_events", "world_event_observers">>, r, stored)
        whole  == Replaced(told, DeleteOrder, InsertOrder, r, stored)
        events == Merged(whole, <<"run_events">>, r, stored)
    IN Replaced(events, <<"command_records">>, <<"command_records">>, r, stored)

\* Everything the database has of a memory but its vector is written by the save; the vectors
\* the index pass after it could compute.
Indexed(rs, memories) ==
    {IF TableOf(t) = "memories" /\ t.name[2] \in memories /\ t.status = "none"
     THEN [t EXCEPT !.status = Vector(6)] ELSE t : t \in rs}
StoredMemories(rs) == {t.name[2] : t \in {u \in rs : TableOf(u) = "memories"}}

--------------------------------------------------------------------------------
(* The migrations: revision 0 is an empty database, 1 is 0001_initial_schema,  *)
(* 2 34039a40f40d, 3 8e5b6c7d8f90, 4 9f6c7d8e9012, 5 a07d8e9f0123, 6 b18e9f0a1234. *)

WorldTables ==
    <<"actors", "npc_profiles", "topics", "goal_definitions", "agendas", "chapter_runs",
      "run_actor_states">>
HistoryTables ==
    <<"run_daily_schedules", "run_events", "command_records", "world_events",
      "world_event_observers", "topic_candidates">>
TalkTables ==
    <<"conversations", "conversation_participants", "conversation_segments", "segment_participants",
      "messages", "conversation_idle_states">>
RequestTables ==
    <<"goals", "relationships", "invitations", "join_requests", "join_request_approvers",
      "conversation_drafts", "consolidations">>

ChapterTables ==
    <<"chapter_resolutions", "run_state_items", "run_storage_revisions", "memories",
      "chapter_actor_stances", "chapter_agenda_stances", "chapter_authorizations">>
LinkTables ==
    <<"memory_actor_links", "memory_edges", "memory_evidence_messages", "memory_goal_links",
      "memory_topic_links">>

\* The order in which a migration creates its tables, and drops them when it is undone.
CreateOrder(n) ==
    CASE n = 1 -> WorldTables \o HistoryTables \o TalkTables \o RequestTables
      [] n = 2 -> ChapterTables \o LinkTables
      [] OTHER -> <<>>
DropOrder(n) == Reverse(CreateOrder(n))   \* as both downgrades spell it out
TablesAt(n) == UNION {ToSet(CreateOrder(k)) : k \in 1..n}

ParentTables(table) == {r[2] : r \in {q \in References : q[1] = table}} \ {table}
CreatesInOrder(n) ==
    \A i \in DOMAIN CreateOrder(n) : ParentTables(CreateOrder(n)[i]) \subseteq
        TablesAt(n - 1) \cup {CreateOrder(n)[j] : j \in 1..(i - 1)}
DropsInOrder(n) ==
    \A i \in DOMAIN DropOrder(n) : \A t \in TablesAt(n) \ {DropOrder(n)[j] : j \in 1..i} :
        DropOrder(n)[i] \notin ParentTables(t)

Renamed(rs, names) ==
    {IF TableOf(t) = "goals" /\ t.status \in DOMAIN names
     THEN [t EXCEPT !.status = names[t.status]] ELSE t : t \in rs}
WithoutVectors(rs) == {IF TableOf(t) = "memories" THEN [t EXCEPT !.status = "none"] ELSE t : t \in rs}
\* All commands have the same fingerprint.
OneCommand(rs) ==
    rs \ {t \in rs : TableOf(t) = "command_records" /\ \E u \in rs :
                        TableOf(u) = "command_records" /\ u.name[2] < t.name[2]}

UpgradedRows(rs, n) ==
    CASE n \in {3, 5} -> WithoutVectors(rs)
      [] n = 6 -> Renamed(rs, [completed |-> "achieved", departed |-> "abandoned"])
      [] OTHER -> rs

\* The rows when migration n is undone.
DowngradedRows(rs, n) ==
    CASE n = 6 -> Renamed(rs, [achieved |-> "completed"])
      [] n \in {3, 5} -> WithoutVectors(rs)
      [] n = 4 -> OneCommand(rs)
      [] OTHER -> {t \in rs : TableOf(t) \in TablesAt(n - 1)}

--------------------------------------------------------------------------------
(* The run changes in memory; run_service appends and never removes.        *)

Changed(r) ==
    /\ run.present /\ ~run.ended /\ run' = r /\ refused' = "nothing"
    /\ UNCHANGED <<tuples, items, revision, loads, moves>>

\* An invitation made for goal g is accepted: it opens conversation c.
Invite(c, g) ==
    /\ run.segments[c] = 0
    /\ Changed([run EXCEPT !.segments[c] = 1, !.invited = @ \cup {<<c, g>>}])

\* A join request is approved: the conversation gets a second segment.
Join(c) == run.segments[c] = 1 /\ Changed([run EXCEPT !.segments[c] = 2])

\* The player says something in the last segment: a message and a command record.
Speak(c) ==
    LET said == <<c, run.segments[c]>> IN
    /\ run.segments[c] > 0 /\ said \notin run.messages /\ Cardinality(run.messages) < MaxSaid
    /\ Changed([run EXCEPT !.messages = @ \cup {said},
                           !.commands = @ \cup {Cardinality(run.commands) + 1}])

\* A world event happens and the NPC remembers it.
Happen ==
    /\ ~run.event /\ Cardinality(run.memories) < MaxMemories
    /\ Changed([run EXCEPT !.event = TRUE,
            !.memories = @ \cup {[memory |-> Cardinality(@) + 1, said |-> {}, about |-> {}]}])

\* A consolidation: a memory with the messages that are its evidence, about a goal.
Remember(c, about) ==
    LET said == {m \in run.messages : m[1] = c} IN
    /\ said # {} /\ Cardinality(run.memories) < MaxMemories
    /\ Changed([run EXCEPT
            !.memories = @ \cup {[memory |-> Cardinality(@) + 1, said |-> said, about |-> about]}])

\* The memory triggers a new goal, under one of the NPC's goals or under none.
RememberAndWant(c, parents) ==
    LET said == {m \in run.messages : m[1] = c}
        goal == Len(run.goals) + 1
    IN
    /\ said # {} /\ Cardinality(run.memories) < MaxMemories /\ Len(run.goals) <= MaxGoals
    /\ Changed([run EXCEPT
            !.memories = @ \cup {[memory |-> Cardinality(@) + 1, said |-> said, about |-> {goal}]},
            !.goals = Append(@, [goal |-> goal, parents |-> parents, status |-> "active"])])

\* A draft's update of a goal is committed.
SettleGoal(i, status) ==
    run.goals[i].status # status /\ Changed([run EXCEPT !.goals[i].status = status])

EndChapter == Changed([run EXCEPT !.ended = TRUE])

\* The service starts on the newest schema: sync_scenario.
SyncScenario ==
    /\ revision = 6 /\ ~(ScenarioRows \subseteq tuples) /\ tuples' = tuples \cup ScenarioRows
    /\ refused' = "nothing" /\ UNCHANGED <<run, items, revision, loads, moves>>

\* SQLAlchemyRunRepository.add.
Add ==
    LET done == AddedRows(FreshRun, tuples) IN
    /\ revision = 6 /\ ~run.present /\ ScenarioRows \subseteq tuples /\ Chapter \notin Names(tuples)
    /\ IF done.ok THEN tuples' = done.rows /\ run' = FreshRun /\ items' = FreshRun /\ refused' = "nothing"
       ELSE refused' = "save" /\ UNCHANGED <<tuples, run, items>>
    /\ UNCHANGED <<revision, loads, moves>>

\* Where the revision row is missing the cached revision runs ahead of the stored one, 0.
Save ==
    LET done == SavedRows(run, tuples)
        ahead == <<"run_storage_revisions", "run">> \notin Names(tuples)
    IN
    /\ revision = 6 /\ run.present /\ items # run
    /\ IF done.ok /\ ~run.ahead
       THEN /\ run' = [run EXCEPT !.ahead = ahead] /\ items' = run /\ refused' = "nothing"
            /\ \E embedded \in {{}, StoredMemories(done.rows)} : tuples' = Indexed(done.rows, embedded)
       ELSE refused' = "save" /\ UNCHANGED <<tuples, run, items>>
    /\ UNCHANGED <<revision, loads, moves>>

\* The backfill script of the operator.
Backfill ==
    /\ revision = 6 /\ tuples' = Indexed(tuples, StoredMemories(tuples)) /\ tuples' # tuples
    /\ refused' = "nothing" /\ UNCHANGED <<run, items, revision, loads, moves>>

\* The process restarts.  run_state_items are read in no particular order.
Reorderings(goals) ==
    {[i \in DOMAIN goals |-> goals[f[i]]] : f \in {g \in [DOMAIN goals -> DOMAIN goals] :
                                                    ToSet(g) = DOMAIN goals}}

Load ==
    LET stored == IF items.present THEN items ELSE [EmptyRun EXCEPT !.present = TRUE] IN
    /\ revision = 6 /\ Chapter \in Names(tuples) /\ loads < MaxLoads
    /\ \E goals \in Reorderings(stored.goals) :
        run' = [stored EXCEPT !.goals = goals, !.ahead = FALSE,
                    !.event = <<"world_events", "event">> \in Names(tuples),
                    !.commands = {t.name[2] : t \in {u \in tuples : TableOf(u) = "command_records"}}]
    /\ loads' = loads + 1 /\ refused' = "nothing" /\ UNCHANGED <<tuples, items, revision, moves>>

\* Migrations and deletions are done while the service is stopped.
Upgrade ==
    LET n == revision + 1
        rs == UpgradedRows(tuples, n)
    IN
    /\ revision < 6 /\ run' = Unloaded
    /\ IF CreatesInOrder(n) /\ \A t \in rs : Lawful(t, n)
       THEN revision' = n /\ tuples' = rs /\ refused' = "nothing"
       ELSE refused' = "migration" /\ UNCHANGED <<revision, tuples>>
    /\ UNCHANGED <<items, loads, moves>>

Downgrade ==
    LET n == revision
        rs == DowngradedRows(tuples, n)
    IN
    /\ revision > 0 /\ (revision = 6 => moves < MaxMoves) /\ run' = Unloaded
    /\ IF DropsInOrder(n) /\ \A t \in rs : Lawful(t, n - 1)
       THEN /\ revision' = n - 1 /\ tuples' = rs /\ refused' = "nothing"
            /\ items' = IF n = 2 THEN Unloaded ELSE items
       ELSE refused' = "migration" /\ UNCHANGED <<revision, tuples, items>>
    /\ moves' = IF revision = 6 THEN moves + 1 ELSE moves
    /\ UNCHANGED loads

DeleteRun ==
    LET done == DeletedRows([rows |-> tuples, ok |-> TRUE], {t \in tuples : t.name = Chapter}) IN
    /\ revision = 6 /\ Chapter \in Names(tuples) /\ moves < MaxMoves /\ run' = Unloaded
    /\ IF done.ok THEN tuples' = done.rows /\ items' = Unloaded /\ refused' = "nothing"
       ELSE refused' = "deletion" /\ UNCHANGED <<tuples, items>>
    /\ moves' = moves + 1 /\ UNCHANGED <<revision, loads>>

\* A database without tables, or one of an earlier release with a run in it.
TablesInit ==
    /\ run = Unloaded /\ refused = "nothing" /\ loads = 0 /\ moves = 0
    /\ \/ revision = 0 /\ tuples = {} /\ items = Unloaded
       \/ \E status \in {"active", "completed", "departed"} :
            /\ revision = 5 /\ items = [FreshRun EXCEPT !.goals[1].status = status]
            /\ tuples = AddedRows(items, ScenarioRows).rows

TablesNext ==
    \/ \E c \in Talks, g \in GoalIds(run) : Invite(c, g)
    \/ \E c \in Talks : Join(c) \/ Speak(c)
    \/ Happen
    \/ \E c \in Talks, about \in {{}} \cup {{g} : g \in GoalIds(run)} :
        Remember(c, about) \/ RememberAndWant(c, about)
    \/ \E i \in DOMAIN run.goals, status \in Statuses : SettleGoal(i, status)
    \/ EndChapter \/ SyncScenario \/ Add \/ Save \/ Backfill \/ Load \/ Upgrade \/ Downgrade \/ DeleteRun

TablesSpec == TablesInit /\ [][TablesNext]_tableVars

--------------------------------------------------------------------------------
\* Every row is in a table of the schema and is one it accepts; no row refers to one that
\* is gone, and a run that was deleted left none behind.
TablesTypeOK ==
    /\ run.present \in BOOLEAN /\ items.present \in BOOLEAN
    /\ \A t \in tuples : TableOf(t) \in TablesAt(revision) /\ Lawful(t, revision)
    /\ \A t \in tuples : t.refs \subseteq Names(tuples)
    /\ Chapter \notin Names(tuples) => tuples \subseteq ScenarioRows
    /\ revision \in 0..6 /\ refused \in {"nothing", "save", "migration", "deletion"}
    /\ loads \in 0..MaxLoads /\ moves \in 0..MaxMoves

\* What can make the tables refuse a run: a goal above its parent, which only a load puts
\* there; a status no longer listed, which only the items of an earlier release keep; a
\* revision row that a downgrade took away.
Misordered(r) == \E i, j \in DOMAIN r.goals : i < j /\ r.goals[j].goal \in r.goals[i].parents
Outdated(r) == \E i \in DOMAIN r.goals : r.goals[i].status \notin GoalStatuses(6)

\* The order of the statements of a save, the references of the rows it builds, the
\* migrations and the cascades fit the foreign keys: no migration and no deletion of a run
\* is ever refused, and a save only for one of the three reasons above.
OnlyKnownRefusals ==
    [][/\ refused' \notin {"migration", "deletion"}
       /\ refused' = "save" => Misordered(run) \/ Outdated(run) \/ run.ahead]_tableVars

\* What no later save can compute again outlives every save, load and index pass: the
\* commands already answered, and the vectors of the memories.  Only migrations and the
\* deletion of the run take them.
AnswersAndVectorsSurvive ==
    [][moves' = moves /\ revision' = revision =>
        \A t \in tuples : TableOf(t) = "command_records" \/ t.status = Vector(6) =>
            t.name \in Names(tuples') /\ \E u \in tuples' : u.name = t.name /\ u.status = t.status]_tableVars
=============================================================================
