------------------------------- MODULE RunStore -------------------------------
(***************************************************************************)
(* Commands and the store of one run: a command looks its id up, changes   *)
(* the aggregate, records its result and saves                             *)
(* (orchestration/run_service.py); the SQL repository keeps one aggregate  *)
(* per process and writes all of it in one transaction that checks the     *)
(* stored revision (persistence/sqlalchemy_repository.py, codec.py).       *)
(*                                                                         *)
(* An aggregate is the sequence of the effects its commands had, of which  *)
(* each is one event, and the set of recorded commands; what codec.py      *)
(* leaves out (locks, tasks, counters of pipelines) is nothing here, for a *)
(* restart forgets it.  A process is a worker; run.lock is held from a     *)
(* command's lookup to its save, except while it waits for a model, which  *)
(* the slow commands may do after their first effect.                      *)
(***************************************************************************)
EXTENDS Integers, Sequences, FiniteSets

CONSTANTS Workers,    \* processes with a repository on the same database
          Waiters,    \* requests that may wait for a model at once
          Commands,   \* command ids, each with one fingerprint
          Slow,       \* those whose execution may wait for a model
          NoRun,      \* the process has not loaded the run
          MaxEffects, \* bound: effects of an aggregate
          MaxFaults   \* bound: failed saves, lost acknowledgements, restarts

Aggregates == [effects : Seq(Commands), recorded : SUBSET Commands]
Runs == [effects : Seq(Commands), recorded : SUBSET Commands, rev : Nat]

ASSUME StoreAssumption ==
    /\ Slow \subseteq Commands /\ NoRun \notin Runs
    /\ MaxEffects \in Nat /\ MaxFaults \in Nat

VARIABLES
    db,       \* the rows: effects, recorded, events and the revision
    cache,    \* repository._runs and _revisions of each worker
    loading,  \* rows that a worker has read before the revision
    request,  \* requests that wait for a model: the worker and the command
    told,     \* history: commands a client was given a result of
    torn,     \* history: a worker read rows and a revision of different saves
    failed,   \* history: a save has raised
    faults    \* how much of MaxFaults has been used

storeVars == <<db, cache, loading, request, told, torn, failed, faults>>

NoRequest == [at |-> "idle", by |-> NoRun, cmd |-> NoRun]

-----------------------------------------------------------------------------
(* The repository *)

\* get: the aggregate is loaded once per process, row by row ...
LoadRows(w) ==
    /\ cache[w] = NoRun /\ loading[w] = NoRun
    /\ loading' = [loading EXCEPT ![w] = [effects |-> db.effects, recorded |-> db.recorded]]
    /\ UNCHANGED <<db, cache, request, told, torn, failed, faults>>

\* ... and its revision last
LoadRevision(w) ==
    /\ loading[w] # NoRun
    /\ cache' = [cache EXCEPT ![w] = [effects |-> loading[w].effects,
                                      recorded |-> loading[w].recorded, rev |-> db.rev]]
    /\ loading' = [loading EXCEPT ![w] = NoRun]
    /\ torn' = (torn \/ loading[w] # [effects |-> db.effects, recorded |-> db.recorded])
    /\ UNCHANGED <<db, request, told, failed, faults>>

\* _insert_missing_events: an event whose number is stored is not written again
WithEvents(stored, effects) ==
    stored \o SubSeq(effects, Len(stored) + 1, Len(effects))

\* the transaction of save: everything but the events is replaced
Written(run) ==
    db' = [effects |-> run.effects, recorded |-> run.recorded, rev |-> db.rev + 1,
           events |-> WithEvents(db.events, run.effects)]

\* Mutants (here and below, each before the operator it changes): what the
\* operator would be with a plausible bug in the code it stands for; they are
\* used by no definition of the specification.
SaveAcceptedUnchecked(w, run) ==
    /\ Written(run)
    /\ cache' = [cache EXCEPT ![w] = [run EXCEPT !.rev = db.rev + 1]]
    /\ UNCHANGED <<failed, faults>>

SaveAccepted(w, run) ==
    /\ run.rev = db.rev
    /\ Written(run)
    /\ cache' = [cache EXCEPT ![w] = [run EXCEPT !.rev = db.rev + 1]]
    /\ UNCHANGED <<failed, faults>>

\* save raises, and the aggregate stays changed in memory: another worker has saved
\* (RepositoryConflictError), the transaction failed, or it was committed and the
\* answer lost, and the cached revision is no longer the stored one
SaveRaises(w, run) ==
    /\ cache' = [cache EXCEPT ![w] = run]
    /\ failed' = TRUE
    /\ \/ run.rev # db.rev /\ UNCHANGED <<db, faults>>
       \/ /\ run.rev = db.rev /\ faults < MaxFaults /\ faults' = faults + 1
          /\ Written(run) \/ UNCHANGED db

-----------------------------------------------------------------------------
(* Commands *)

Loaded(w) == cache[w] # NoRun /\ Len(cache[w].effects) < MaxEffects

\* _existing_command: the recorded result is returned
AnswerAgain(w, c) ==
    /\ cache[w] # NoRun /\ c \in cache[w].recorded
    /\ told' = told \cup {c}
    /\ UNCHANGED <<db, cache, loading, request, torn, failed, faults>>

WithEffect(run, c) == [run EXCEPT !.effects = Append(@, c)]

WithoutRecord(run, c) == run

\* _record_command
WithRecord(run, c) == [run EXCEPT !.recorded = @ \cup {c}]

\* the whole command in one section: effect, record, save
Execute(w, c) ==
    /\ Loaded(w) /\ c \notin cache[w].recorded
    /\ LET run == WithRecord(WithEffect(cache[w], c), c) IN
         \/ SaveAccepted(w, run) /\ told' = told \cup {c}
         \/ SaveRaises(w, run) /\ UNCHANGED told
    /\ UNCHANGED <<loading, request, torn>>

\* a slow command saves and waits for a model
Wait(t, w, c) ==
    /\ Loaded(w) /\ c \in Slow /\ c \notin cache[w].recorded /\ request[t] = NoRequest
    /\ LET run == WithEffect(cache[w], c) IN
         \/ /\ SaveAccepted(w, run)
            /\ request' = [request EXCEPT ![t] = [at |-> "waiting", by |-> w, cmd |-> c]]
         \/ SaveRaises(w, run) /\ UNCHANGED request
    /\ UNCHANGED <<loading, told, torn>>

\* ... and goes on
CommandResumes(t) ==
    /\ request[t].at = "waiting"
    /\ LET w == request[t].by  c == request[t].cmd  run == WithRecord(cache[w], c) IN
         \/ SaveAccepted(w, run) /\ told' = told \cup {c}
         \/ SaveRaises(w, run) /\ UNCHANGED told
    /\ request' = [request EXCEPT ![t] = NoRequest]
    /\ UNCHANGED <<loading, torn>>

\* ... or raises: its effects stay, its id is not recorded
CommandRaises(t) ==
    /\ request[t].at = "waiting"
    /\ request' = [request EXCEPT ![t] = NoRequest]
    /\ UNCHANGED <<db, cache, loading, told, torn, failed, faults>>

WorkerRestarts(w) ==
    /\ faults < MaxFaults /\ faults' = faults + 1
    /\ cache' = [cache EXCEPT ![w] = NoRun] /\ loading' = [loading EXCEPT ![w] = NoRun]
    /\ request' = [t \in Waiters |-> IF request[t].by = w THEN NoRequest ELSE request[t]]
    /\ UNCHANGED <<db, told, torn, failed>>

\* the run has been created (add) and no process has it loaded
StoreInit ==
    /\ db = [effects |-> <<>>, recorded |-> {}, rev |-> 0, events |-> <<>>]
    /\ cache = [w \in Workers |-> NoRun] /\ loading = [w \in Workers |-> NoRun]
    /\ request = [t \in Waiters |-> NoRequest]
    /\ told = {} /\ torn = FALSE /\ failed = FALSE /\ faults = 0

StoreNext ==
    \/ \E w \in Workers :
         \/ LoadRows(w) \/ LoadRevision(w) \/ WorkerRestarts(w)
         \/ \E c \in Commands : AnswerAgain(w, c) \/ Execute(w, c)
                                \/ \E t \in Waiters : Wait(t, w, c)
    \/ \E t \in Waiters : CommandResumes(t) \/ CommandRaises(t)

StoreSpec == StoreInit /\ [][StoreNext]_storeVars
-----------------------------------------------------------------------------
(* Properties *)

Times(c, s) == Cardinality({i \in DOMAIN s : s[i] = c})

Extends(s, t) == Len(s) <= Len(t) /\ SubSeq(t, 1, Len(s)) = s

\* The type invariant.
StoreTypeOK ==
    /\ db \in [effects : Seq(Commands), recorded : SUBSET Commands, rev : Nat,
               events : Seq(Commands)]
    /\ cache \in [Workers -> Runs \cup {NoRun}]
    /\ loading \in [Workers -> Aggregates \cup {NoRun}]
    /\ request \in [Waiters -> [at : {"waiting"}, by : Workers, cmd : Commands]
                                \cup {NoRequest}]
    /\ told \subseteq Commands /\ torn \in BOOLEAN /\ failed \in BOOLEAN
    /\ faults \in 0..MaxFaults

\* A command that waits for no model has its effect stored at most once, whichever
\* worker it is retried at, over failed saves, lost acknowledgements and restarts
\* (command_records and the stored revision); the event table tells the history
\* of the stored state; and while no save has raised, whatever a client was told
\* is in the store.  A load that mixes two saves (torn) breaks all of it, and a
\* retry after a failed save is answered with a result that is in no row.
StoredOnce ==
    ~torn => /\ \A c \in Commands \ Slow : Times(c, db.effects) <= 1
             /\ db.events = db.effects
             /\ ~failed => told \subseteq db.recorded

\* No save takes back what another worker has stored (RepositoryConflictError).
NothingOverwritten == [][~torn => Extends(db.effects, db'.effects)]_storeVars

\* A command has its effect at most once, also one that waits for a model.
CommandsAreIdempotent == \A c \in Commands : Times(c, db.effects) <= 1

\* A stale worker cannot overwrite another worker's transition.
StaleNeverOverwrites == [][Extends(db.effects, db'.effects)]_storeVars
=============================================================================
