------------------------------- MODULE Scheduler -------------------------------
(***************************************************************************)
(* WhiteRabbit: the job that embeds the procedures of all agents again.    *)
(* The job lives in one Redis job store; the schedulers of all replicas    *)
(* look for due jobs in it, so one due job may start on several replicas,  *)
(* and a lock with a time to live lets one of them work.  Toggling a       *)
(* plugin of an agent embeds its procedures too, and so do the re-embed    *)
(* pass, the creation and the clone of an agent, all without the lock.     *)
(* What an agent offers also changes with no embedding at all.             *)
(* APScheduler is external.                                                *)
(***************************************************************************)
EXTENDS Naturals, FiniteSets

CONSTANTS Nil,
          Replicas,
          Cats,        \* agents
          Tools,       \* procedures
          Runs,        \* executions, toggles and embeddings under way at a time
          Cycle,       \* bound: a job comes due this often
          MaxChanges,  \* bound: toggles, embeddings without the lock, other changes
          MaxHalts     \* bound: crashes, shutdowns, failures, expirations

ASSUME SchedulerAssumption == Nil \notin Runs \union Cats

VARIABLES
    jobs,      \* the job store: is the job there, is it due
    replica,   \* per replica: up, does its list of jobs name the job, has it seen it due
    lock,      \* the run that took the lock
    run,       \* per run: what it does
    offered,   \* per agent: its procedures
    shelf,     \* per agent: the batches of procedures in the vector store
    outOfStep, \* history: agents put out of step, since the last run that was alone
    met,       \* history: runs that met another on their agent
    lapsed,    \* history: a lock expired while its run was alive
    counts     \* batches, dues, changes, halts

scVars == <<jobs, replica, lock, run, offered, shelf, outOfStep, met, lapsed, counts>>

Ended == [op |-> "none", at |-> "idle", on |-> Nil, agent |-> Nil, todo |-> {}, tools |-> {}]
Down == [up |-> FALSE, lists |-> FALSE, seen |-> FALSE]
RunAt(x, op, at) == run[x].op = op /\ run[x].at = at
Sets(x, r) == run' = [run EXCEPT ![x] = r]
Changes == counts.changes < MaxChanges /\ counts' = [counts EXCEPT !.changes = @ + 1]
Halts == counts.halts < MaxHalts /\ counts' = [counts EXCEPT !.halts = @ + 1]
\* The runs that another on agent a meets there: two jobs are kept apart by the lock.
Others(x, a, op) ==
    {y \in Runs \ {x} : run[y].agent = a /\ ~(op = "job" /\ run[y].op = "job")}
Meets(x, a, op) ==
    IF Others(x, a, op) = {} THEN UNCHANGED <<outOfStep, met>>
    ELSE outOfStep' = outOfStep \union {a} /\ met' = met \union Others(x, a, op) \union {x}
Removed == [there |-> FALSE, due |-> FALSE]

-----------------------------------------------------------------------------
(* Replicas and the job store. *)

\* after_lizard_bootstrap: the job is scheduled anew, to start now.
Boot(r) ==
    /\ replica[r] = Down
    /\ replica' = [replica EXCEPT ![r] = [up |-> TRUE, lists |-> TRUE, seen |-> FALSE]]
    /\ jobs' = [there |-> TRUE, due |-> TRUE]
    /\ UNCHANGED <<lock, run, offered, shelf, outOfStep, met, lapsed, counts>>

ComesDue ==
    /\ jobs.there /\ ~jobs.due /\ counts.dues < Cycle
    /\ counts' = [counts EXCEPT !.dues = @ + 1]
    /\ jobs' = [jobs EXCEPT !.due = TRUE]
    /\ UNCHANGED <<replica, lock, run, offered, shelf, outOfStep, met, lapsed>>

\* A scheduler reads the due jobs, then submits them and stores the next run time.
SeeDue(r) ==
    /\ replica[r].up /\ ~replica[r].seen /\ jobs.due
    /\ replica' = [replica EXCEPT ![r].seen = TRUE]
    /\ UNCHANGED <<jobs, lock, run, offered, shelf, outOfStep, met, lapsed, counts>>

Submit(r, x) ==
    /\ replica[r].up /\ replica[r].seen /\ run[x] = Ended
    /\ Sets(x, [Ended EXCEPT !.op = "job", !.at = "lock", !.on = r])
    /\ replica' = [replica EXCEPT ![r].seen = FALSE]
    /\ jobs' = [jobs EXCEPT !.due = FALSE]
    /\ UNCHANGED <<lock, offered, shelf, outOfStep, met, lapsed, counts>>

\* after_plugin_toggling_on_system, when the plugin itself is switched off.
RemoveJob(r) ==
    /\ replica[r].up /\ jobs.there /\ Halts
    /\ jobs' = Removed
    /\ replica' = [replica EXCEPT ![r].lists = FALSE]
    /\ UNCHANGED <<lock, run, offered, shelf, outOfStep, met, lapsed>>

\* The runs of a replica are gone; what they were embedding is left as it is.
EndRuns(r) ==
    /\ run' = [x \in Runs |-> IF run[x].on = r THEN Ended ELSE run[x]]
    /\ outOfStep' = outOfStep \union ({run[x].agent : x \in {y \in Runs : run[y].on = r}} \ {Nil})
    /\ met' = {x \in met : run[x].on # r}

Holds(x) == run[x].op = "job" /\ run[x].at # "lock"

\* before_lizard_shutdown removes the jobs that the replica has scheduled, which
\* are those of all replicas.  The runs are cancelled; by the time they come to
\* release the lock there is no white_rabbit to do it, and the lock stays.
Shutdown(r) ==
    /\ replica[r].up /\ Halts
    /\ jobs' = IF replica[r].lists THEN Removed ELSE jobs
    /\ replica' = [replica EXCEPT ![r] = Down]
    /\ EndRuns(r)
    /\ UNCHANGED <<lock, offered, shelf, lapsed>>

ReplicaDies(r) ==
    /\ replica[r].up /\ Halts
    /\ replica' = [replica EXCEPT ![r] = Down]
    /\ EndRuns(r)
    /\ UNCHANGED <<jobs, lock, offered, shelf, lapsed>>

\* The hour is over: in time, when the run is gone, or not.
Lapse ==
    /\ lock # Nil
    /\ lock' = Nil
    /\ IF Holds(lock) THEN Halts /\ lapsed' = TRUE ELSE UNCHANGED <<lapsed, counts>>
    /\ UNCHANGED <<jobs, replica, run, offered, shelf, outOfStep, met>>

-----------------------------------------------------------------------------
(* re_embed_mcp_tools *)

Acquire(x) ==
    /\ RunAt(x, "job", "lock")
    /\ IF lock = Nil THEN lock' = x /\ Sets(x, [run[x] EXCEPT !.at = "next", !.todo = Cats])
       ELSE Sets(x, Ended) /\ UNCHANGED lock
    /\ UNCHANGED <<jobs, replica, offered, shelf, outOfStep, met, lapsed, counts>>

\* The agents one after the other.  The lock is released whoever holds it by then.
NextCat(x) ==
    /\ RunAt(x, "job", "next")
    /\ IF run[x].todo = {} THEN Sets(x, Ended) /\ lock' = Nil /\ UNCHANGED <<outOfStep, met>>
       ELSE /\ \E a \in run[x].todo :
                 /\ Sets(x, [run[x] EXCEPT !.at = "collect", !.agent = a, !.todo = @ \ {a}])
                 /\ Meets(x, a, "job")
            /\ UNCHANGED lock
    /\ UNCHANGED <<jobs, replica, offered, shelf, lapsed, counts>>

-----------------------------------------------------------------------------
(* What changes the procedures of an agent, and embed_procedures.          *)

\* A plugin or an endpoint of the system is toggled, installed or uninstalled, or an
\* external server changes its tools: nothing is embedded again.
OffersChange(a, S) ==
    /\ offered[a] # S /\ Changes
    /\ offered' = [offered EXCEPT ![a] = S]
    /\ outOfStep' = outOfStep \union {a}
    /\ UNCHANGED <<jobs, replica, lock, run, shelf, met, lapsed>>

\* initialize, for another embedder: the collections are dropped.
DropTools ==
    /\ Changes
    /\ shelf' = [a \in Cats |-> {}]
    /\ outOfStep' = Cats
    /\ UNCHANGED <<jobs, replica, lock, run, offered, met, lapsed>>

\* The toggle of a plugin of an agent changes its procedures, then takes them all out
\* of the store and embeds them.
Toggle(r, x, a, S) ==
    /\ replica[r].up /\ run[x] = Ended /\ offered[a] # S /\ Changes
    /\ offered' = [offered EXCEPT ![a] = S]
    /\ Sets(x, [Ended EXCEPT !.op = "toggle", !.at = "purge", !.on = r, !.agent = a])
    /\ Meets(x, a, "toggle")
    /\ UNCHANGED <<jobs, replica, lock, shelf, lapsed>>

\* The re-embed pass, a creation or a clone comes to the procedures of an agent.
EmbedAgain(r, x, a) ==
    /\ replica[r].up /\ run[x] = Ended /\ Changes
    /\ Sets(x, [Ended EXCEPT !.op = "embed", !.at = "collect", !.on = r, !.agent = a])
    /\ Meets(x, a, "embed")
    /\ UNCHANGED <<jobs, replica, lock, offered, shelf, lapsed>>

PurgeTools(x) ==
    /\ RunAt(x, "toggle", "purge")
    /\ shelf' = [shelf EXCEPT ![run[x].agent] = {}]
    /\ Sets(x, [run[x] EXCEPT !.at = "collect"])
    /\ UNCHANGED <<jobs, replica, lock, offered, outOfStep, met, lapsed, counts>>

\* A run is done with its agent.  One that was alone has put it in step if what it
\* stored is what is offered now.
Leaves(x, right) ==
    /\ Sets(x, IF run[x].op = "job"
               THEN [run[x] EXCEPT !.at = "next", !.agent = Nil, !.tools = {}] ELSE Ended)
    /\ outOfStep' = IF right /\ x \notin met THEN outOfStep \ {run[x].agent} ELSE outOfStep
    /\ met' = met \ {x}

\* The procedures are collected and embedded, ...
CollectTools(x) ==
    /\ run[x].at = "collect" /\ offered[run[x].agent] # {}
    /\ Sets(x, [run[x] EXCEPT !.at = "clear", !.tools = offered[run[x].agent]])
    /\ UNCHANGED <<jobs, replica, lock, offered, shelf, outOfStep, met, lapsed, counts>>

\* ... unless there are none: the store is left as it is, ...
CollectNone(x) ==
    /\ run[x].at = "collect" /\ offered[run[x].agent] = {}
    /\ Leaves(x, run[x].op = "toggle")
    /\ UNCHANGED <<jobs, replica, lock, offered, shelf, lapsed, counts>>

\* Mutant of ClearTools: those of before stay.
ClearNoTools(x) ==
    /\ run[x].at = "clear"
    /\ Sets(x, [run[x] EXCEPT !.at = "add"])
    /\ UNCHANGED <<jobs, replica, lock, offered, shelf, outOfStep, met, lapsed, counts>>

\* ... those of before are deleted, ...
ClearTools(x) ==
    /\ run[x].at = "clear"
    /\ shelf' = [shelf EXCEPT ![run[x].agent] = {}]
    /\ Sets(x, [run[x] EXCEPT !.at = "add"])
    /\ UNCHANGED <<jobs, replica, lock, offered, outOfStep, met, lapsed, counts>>

\* ... and they are added under new identifiers.
AddTools(x) ==
    /\ run[x].at = "add"
    /\ shelf' = [shelf EXCEPT ![run[x].agent] =
                   @ \union {[batch |-> counts.batches + 1, tools |-> run[x].tools]}]
    /\ counts' = [counts EXCEPT !.batches = @ + 1]
    /\ Leaves(x, run[x].tools = offered[run[x].agent])
    /\ UNCHANGED <<jobs, replica, lock, offered, lapsed>>

\* An agent that fails is left for the next time.
FailTools(x) ==
    /\ run[x].at \in {"purge", "collect", "clear", "add"} /\ Halts
    /\ Sets(x, IF run[x].op = "job"
               THEN [run[x] EXCEPT !.at = "next", !.agent = Nil, !.tools = {}] ELSE Ended)
    /\ outOfStep' = outOfStep \union {run[x].agent}
    /\ met' = met \ {x}
    /\ UNCHANGED <<jobs, replica, lock, offered, shelf, lapsed>>

-----------------------------------------------------------------------------
scInit ==
    /\ jobs = Removed
    /\ replica = [r \in Replicas |-> Down]
    /\ lock = Nil
    /\ run = [x \in Runs |-> Ended]
    /\ offered = [a \in Cats |-> Tools]
    /\ shelf = [a \in Cats |-> {[batch |-> 0, tools |-> Tools]}]
    /\ outOfStep = {} /\ met = {}
    /\ lapsed = FALSE
    /\ counts = [batches |-> 0, dues |-> 0, changes |-> 0, halts |-> 0]

scNext ==
    \/ \E r \in Replicas :
         \/ Boot(r) \/ SeeDue(r) \/ RemoveJob(r) \/ Shutdown(r) \/ ReplicaDies(r)
         \/ \E x \in Runs :
              \/ Submit(r, x)
              \/ \E a \in Cats : EmbedAgain(r, x, a) \/ \E S \in SUBSET Tools : Toggle(r, x, a, S)
    \/ \E x \in Runs :
         \/ Acquire(x) \/ NextCat(x) \/ PurgeTools(x) \/ CollectTools(x) \/ CollectNone(x)
         \/ ClearTools(x) \/ AddTools(x) \/ FailTools(x)
    \/ \E a \in Cats, S \in SUBSET Tools : OffersChange(a, S)
    \/ ComesDue \/ Lapse \/ DropTools

scSpec == scInit /\ [][scNext]_scVars

-----------------------------------------------------------------------------
(* Properties. *)

\* However many replicas start the job, an agent has its procedures once, and
\* those it offers when nobody is embedding them; except from the time a change of
\* what it offers is not embedded, its collection is dropped, or a run on it meets
\* another or is cut short, to the end of a run that is alone; and except once a
\* lock has expired under its run.
ToolsMatch ==
    \A a \in Cats \ outOfStep : ~lapsed =>
      /\ Cardinality(shelf[a]) <= 1
      /\ (\A x \in Runs : run[x].agent # a) => UNION {b.tools : b \in shelf[a]} = offered[a]
=============================================================================
