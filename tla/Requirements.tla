----------------------------- MODULE Requirements -----------------------------
(***************************************************************************)
(* The activation of a plugin by several server processes of one machine,  *)
(* which share the plugin's folder and the Python environment.  A process  *)
(* that finds the hash of the requirements recorded in the folder goes on; *)
(* otherwise one of them installs the requirements under a file lock in    *)
(* the folder, and the others poll for the hash, up to a deadline after    *)
(* which they wait for the lock and install themselves.  A new package     *)
(* replaces the folder, and its lock file with it.  uv, which installs     *)
(* packages, is external.                                                  *)
(***************************************************************************)
EXTENDS Naturals, FiniteSets

CONSTANTS Nobody,
          Servers,      \* server processes
          Packages,
          Releases,     \* versions of the plugin
          Needs,        \* the packages a version requires
          MaxReplaces,  \* bound: packages of the plugin that are extracted
          MaxActivations,
          MaxTroubles   \* bound: installations that fail, processes that die

ASSUME RequirementsAssumption ==
    /\ Nobody \notin Servers
    /\ Releases \subseteq Nat \ {0} \* 0 stands for no hash
    /\ Needs \in [Releases -> SUBSET Packages]
    /\ MaxReplaces \in Nat

VARIABLES
    folder,   \* the plugin's folder: its version, a number for the folder, the hash
    flocks,   \* per folder: the process that has its lock
    env,      \* the packages in the environment
    task,     \* per process: where its activation is, what it hashed, the lock file it opened
    active,   \* per process: the folder the active plugin was loaded from, 0 when inactive
    replaced, \* history: a folder was replaced under an activation
    used      \* activations, troubles

rqVars == <<folder, flocks, env, task, active, replaced, used>>

FolderNumbers == 1..(MaxReplaces + 1)
NoTask == [at |-> "idle", hash |-> 0, lock |-> 0]
Wants == Needs[folder.version]
Recorded(w) == folder.hash = task[w].hash
TaskIs(w, t) == task' = [task EXCEPT ![w] = t]
Steps(w, at) == TaskIs(w, [task[w] EXCEPT !.at = at])
Trouble == used.troubles < MaxTroubles /\ used' = [used EXCEPT !.troubles = @ + 1]

-----------------------------------------------------------------------------
\* activate: the fast path finds the hash of the requirements.
Activate(w) ==
    /\ task[w] = NoTask /\ used.activations < MaxActivations
    /\ used' = [used EXCEPT !.activations = @ + 1]
    /\ TaskIs(w, [at |-> IF folder.hash = folder.version THEN "load" ELSE "try",
                   hash |-> folder.version, lock |-> 0])
    /\ UNCHANGED <<folder, flocks, env, active, replaced>>

Locks(w, f) ==
    /\ flocks' = [flocks EXCEPT ![f] = w]
    /\ TaskIs(w, [task[w] EXCEPT !.at = "check", !.lock = f])

\* The lock without waiting for it.
TryLock(w) ==
    /\ task[w].at = "try"
    /\ IF flocks[folder.number] = Nobody THEN Locks(w, folder.number)
       ELSE Steps(w, "poll") /\ UNCHANGED flocks
    /\ UNCHANGED <<folder, env, active, replaced, used>>

\* Sixty looks at the hash; then the lock file is opened, ...
Poll(w) ==
    /\ task[w].at = "poll"
    /\ IF Recorded(w) THEN Steps(w, "load")
       ELSE TaskIs(w, [task[w] EXCEPT !.at = "wait", !.lock = folder.number])
    /\ UNCHANGED <<folder, flocks, env, active, replaced, used>>

\* ... and waited for.
WaitLock(w) ==
    /\ task[w].at = "wait" /\ flocks[task[w].lock] = Nobody
    /\ Locks(w, task[w].lock)
    /\ UNCHANGED <<folder, env, active, replaced, used>>

Unlocks(w, t) ==
    /\ flocks' = [flocks EXCEPT ![task[w].lock] = Nobody]
    /\ TaskIs(w, t)

\* Mutant of Check: the hash is not looked at again.
CheckNothing(w) ==
    /\ task[w].at = "check"
    /\ Steps(w, "install")
    /\ UNCHANGED <<folder, flocks, env, active, replaced, used>>

\* Another process may have installed meanwhile.
Check(w) ==
    /\ task[w].at = "check"
    /\ IF Recorded(w) THEN Unlocks(w, [task[w] EXCEPT !.at = "load", !.lock = 0])
       ELSE Steps(w, "install") /\ UNCHANGED flocks
    /\ UNCHANGED <<folder, env, active, replaced, used>>

\* uv reads the file of requirements that is there by now.
Install(w) ==
    /\ task[w].at = "install"
    /\ \/ env' = env \union Wants /\ Steps(w, "record") /\ UNCHANGED used
       \/ Trouble /\ Steps(w, "clean") /\ UNCHANGED env
    /\ UNCHANGED <<folder, flocks, active, replaced>>

Record(w) ==
    /\ task[w].at = "record"
    /\ folder' = [folder EXCEPT !.hash = task[w].hash]
    /\ Unlocks(w, [task[w] EXCEPT !.at = "load", !.lock = 0])
    /\ UNCHANGED <<env, active, replaced, used>>

\* What could not be installed is uninstalled, and the activation fails.
Clean(w) ==
    /\ task[w].at = "clean"
    /\ env' = env \ Wants
    /\ Unlocks(w, NoTask)
    /\ UNCHANGED <<folder, active, replaced, used>>

\* The modules are imported; without their packages they are not.
LoadModules(w) ==
    /\ task[w].at = "load"
    /\ active' = IF Wants \subseteq env THEN [active EXCEPT ![w] = folder.number] ELSE active
    /\ TaskIs(w, NoTask)
    /\ UNCHANGED <<folder, flocks, env, replaced, used>>

Deactivate(w) ==
    /\ task[w] = NoTask /\ active[w] # 0
    /\ active' = [active EXCEPT ![w] = 0]
    /\ UNCHANGED <<folder, flocks, env, task, replaced, used>>

\* The extractor deletes the folder and moves the new one to its place.
Replace(v) ==
    /\ folder.number <= MaxReplaces
    /\ folder' = [version |-> v, number |-> folder.number + 1, hash |-> 0]
    /\ replaced' = (replaced \/ \E w \in Servers : task[w] # NoTask)
    /\ UNCHANGED <<flocks, env, task, active, used>>

\* The lock of a process that dies is free.
ServerDies(w) ==
    /\ task[w] # NoTask /\ Trouble
    /\ flocks' = [f \in FolderNumbers |-> IF flocks[f] = w THEN Nobody ELSE flocks[f]]
    /\ TaskIs(w, NoTask)
    /\ active' = [active EXCEPT ![w] = 0]
    /\ UNCHANGED <<folder, env, replaced>>

-----------------------------------------------------------------------------
rqInit ==
    /\ folder \in [version : Releases, number : {1}, hash : {0}]
    /\ flocks = [f \in FolderNumbers |-> Nobody]
    /\ env = {}
    /\ task = [w \in Servers |-> NoTask]
    /\ active = [w \in Servers |-> 0]
    /\ replaced = FALSE
    /\ used = [activations |-> 0, troubles |-> 0]

rqNext ==
    \/ \E w \in Servers :
         \/ Activate(w) \/ TryLock(w) \/ Poll(w) \/ WaitLock(w) \/ Check(w) \/ Install(w)
         \/ Record(w) \/ Clean(w) \/ LoadModules(w) \/ Deactivate(w) \/ ServerDies(w)
    \/ \E v \in Releases : Replace(v)

rqSpec == rqInit /\ [][rqNext]_rqVars

-----------------------------------------------------------------------------
(* Properties. *)

\* At most one process installs or uninstalls at a time; a recorded hash, and a
\* process that has loaded the folder that is there, mean that the packages are in
\* the environment, also after an installation of another process failed; unless
\* the folder was replaced under an activation.
RequirementsMet ==
    ~replaced =>
      /\ Cardinality({w \in Servers : task[w].at \in {"install", "record", "clean"}}) <= 1
      /\ folder.hash = folder.version => Wants \subseteq env
      /\ \A w \in Servers : active[w] = folder.number => Wants \subseteq env
=============================================================================
