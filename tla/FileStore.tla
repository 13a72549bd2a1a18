------------------------------ MODULE FileStore ------------------------------
(***************************************************************************)
(* The files of an agent: the file manager it has selected, the requests   *)
(* that save and delete files, and the transfer of the files from the      *)
(* manager selected before, which several processes may run at a time.     *)
(* Each request works with the manager that was selected when it loaded    *)
(* the agent.  A folder holds the agent's files and a subfolder per        *)
(* conversation.                                                           *)
(***************************************************************************)
EXTENDS Naturals, FiniteSets

CONSTANTS Nothing,
          Managers,      \* file managers an agent may select
          Moving,        \* those whose download moves the file, as the local one
          Chats,         \* conversations
          FileNames,
          Clients,       \* requests under way at a time
          MaxEdits,      \* bound: requests
          MaxErrors      \* bound: errors and crashes during a transfer

ASSUME FileAssumption == Moving \subseteq Managers

Agent == "agent"
Folders == Chats \union {Agent}
Entries == Folders \X FileNames
\* What lies in a folder itself, and in its subfolders too.
InFolder(S, d) == {e \in S : e[1] = d}
InTree(S, d) == IF d = Agent THEN S ELSE InFolder(S, d)

VARIABLES
    stored,   \* per manager: the files it holds
    vectors,  \* the files that have points
    manager,  \* the selected manager
    client,   \* per client: the request it runs, and the transfer that follows it
    kept,     \* history: files saved in a safe place, not deleted, not put at risk
    done      \* requests, errors

fsVars == <<stored, vectors, manager, client, kept, done>>

\* with: the manager loaded; of a transfer, to: the one selected, todo: what is to
\* download, tmp: what is to upload.
Free == [op |-> "none", with |-> Nothing, to |-> Nothing, todo |-> {}, tmp |-> {}]
Becomes(k, r) == client' = [client EXCEPT ![k] = r]
Enters(k, op) == Becomes(k, [client[k] EXCEPT !.op = op])

\* From the selection of a manager to the end of its transfer.
Switching == {"selected", "list", "download", "upload"}
Switches == {k \in Clients : client[k].op \in Switching}
\* A manager that no transfer will empty.
Lasting(m) == \A k \in Switches : client[k].with # m

-----------------------------------------------------------------------------
\* A request loads the agent, then saves, deletes or selects.
LoadAgent(k) ==
    /\ client[k] = Free
    /\ done.edits < MaxEdits /\ done' = [done EXCEPT !.edits = @ + 1]
    /\ Becomes(k, [Free EXCEPT !.op = "loaded", !.with = manager])
    /\ UNCHANGED <<stored, vectors, manager, kept>>

\* save_file: the file takes its place in the manager the request has loaded; one
\* that is no longer selected, or that a transfer is to empty, is no safe place.
SaveFile(k, e) ==
    /\ client[k].op = "loaded"
    /\ stored' = [stored EXCEPT ![client[k].with] = @ \union {e}]
    /\ kept' = IF client[k].with = manager /\ Lasting(manager) THEN kept \union {e} ELSE kept
    /\ Becomes(k, [client[k] EXCEPT !.op = "embed", !.todo = {e}])
    /\ UNCHANGED <<vectors, manager, done>>

Embed(k) ==
    /\ client[k].op = "embed"
    /\ vectors' = vectors \union client[k].todo
    /\ Becomes(k, Free)
    /\ UNCHANGED <<stored, manager, kept, done>>

\* delete_file: the file goes first, its points after the hooks.
DeleteFile(k, e) ==
    /\ client[k].op = "loaded"
    /\ stored' = [stored EXCEPT ![client[k].with] = @ \ {e}]
    /\ kept' = kept \ {e}
    /\ Becomes(k, [client[k] EXCEPT !.op = "forget", !.todo = {e}])
    /\ UNCHANGED <<vectors, manager, done>>

\* delete_files: what the folder lists, then the whole tree.
DeleteFiles(k, d) ==
    /\ client[k].op = "loaded"
    /\ LET files == stored[client[k].with] IN
       /\ stored' = [stored EXCEPT ![client[k].with] = @ \ InTree(files, d)]
       /\ Becomes(k, [client[k] EXCEPT !.op = "forget", !.todo = InFolder(files, d)])
    /\ kept' = kept \ InTree(kept, d)
    /\ UNCHANGED <<vectors, manager, done>>

\* The points of the listed files, source by source.
Forget(k) ==
    /\ client[k].op = "forget"
    /\ IF client[k].todo = {} THEN Becomes(k, Free) /\ UNCHANGED vectors
       ELSE \E e \in client[k].todo :
              /\ vectors' = vectors \ {e}
              /\ Becomes(k, [client[k] EXCEPT !.todo = @ \ {e}])
    /\ UNCHANGED <<stored, manager, kept, done>>

\* delete_memory_points_by_metadata: the points first, then the agent's file and,
\* with a conversation, that of the conversation too.
DeleteSource(k, e) ==
    /\ client[k].op = "loaded"
    /\ vectors' = vectors \ {e}
    /\ Becomes(k, [client[k] EXCEPT !.op = "unlink", !.todo = {e, <<Agent, e[2]>>}])
    /\ UNCHANGED <<stored, manager, kept, done>>

Unlink(k) ==
    /\ client[k].op = "unlink"
    /\ stored' = [stored EXCEPT ![client[k].with] = @ \ client[k].todo]
    /\ kept' = kept \ client[k].todo
    /\ Becomes(k, Free)
    /\ UNCHANGED <<vectors, manager, done>>

-----------------------------------------------------------------------------
(* The selection of a manager and the transfer, a background task of the   *)
(* request: nothing keeps two of them apart.                               *)

\* upsert_service.  Files that two transfers handle are at risk.
SelectManager(k, m) ==
    /\ client[k].op = "loaded"
    /\ manager' = m
    /\ kept' = IF Switches = {} THEN kept ELSE {}
    /\ Enters(k, "selected")
    /\ UNCHANGED <<stored, vectors, done>>

\* The request reads the selected manager, its own or a later one.
StartTransfer(k) ==
    /\ client[k].op = "selected"
    /\ Becomes(k, IF client[k].with = manager THEN Free
                  ELSE [client[k] EXCEPT !.op = "list", !.to = manager])
    /\ UNCHANGED <<stored, vectors, manager, kept, done>>

\* list_files: the files of the folder, without its subfolders.
ListFolder(k) ==
    /\ client[k].op = "list"
    /\ Becomes(k, [client[k] EXCEPT !.op = "download",
                                   !.todo = InFolder(stored[client[k].with], Agent)])
    /\ UNCHANGED <<stored, vectors, manager, kept, done>>

\* A file that is gone by now makes the download fail: see Abort.
Download(k, e) ==
    /\ client[k].op = "download" /\ e \in client[k].todo \intersect stored[client[k].with]
    /\ stored' = IF client[k].with \in Moving
                 THEN [stored EXCEPT ![client[k].with] = @ \ {e}] ELSE stored
    /\ Becomes(k, [client[k] EXCEPT !.todo = @ \ {e}, !.tmp = @ \union {e}])
    /\ UNCHANGED <<vectors, manager, kept, done>>

\* Mutant of UploadFiles: the old folder is removed before the files are uploaded.
RemoveThenUpload(k) ==
    /\ client[k].op = "download" /\ client[k].todo = {}
    /\ stored' = [stored EXCEPT ![client[k].with] = {}]
    /\ Enters(k, "upload")
    /\ UNCHANGED <<vectors, manager, kept, done>>

UploadFiles(k) ==
    /\ client[k].op = "download" /\ client[k].todo = {}
    /\ Enters(k, "upload")
    /\ UNCHANGED <<stored, vectors, manager, kept, done>>

UploadNext(k, e) ==
    /\ client[k].op = "upload" /\ e \in client[k].tmp
    /\ stored' = [stored EXCEPT ![client[k].to] = @ \union {e}]
    /\ Becomes(k, [client[k] EXCEPT !.tmp = @ \ {e}])
    /\ UNCHANGED <<vectors, manager, kept, done>>

\* remove_folder takes the whole tree.
RemoveFolder(k) ==
    /\ client[k].op = "upload" /\ client[k].tmp = {}
    /\ stored' = [stored EXCEPT ![client[k].with] = {}]
    /\ Becomes(k, Free)
    /\ UNCHANGED <<vectors, manager, kept, done>>

\* An error is logged only and the temporary folder is removed: what the download
\* has moved into it is lost.  So it is after a crash.  A file that is gone before
\* its download is an error too.
Abort(k) ==
    /\ k \in Switches
    /\ \/ done.errors < MaxErrors /\ done' = [done EXCEPT !.errors = @ + 1]
       \/ /\ client[k].op = "download" /\ ~(client[k].todo \subseteq stored[client[k].with])
          /\ UNCHANGED done
    /\ kept' = IF client[k].with \in Moving THEN kept \ client[k].tmp ELSE kept
    /\ Becomes(k, Free)
    /\ UNCHANGED <<stored, vectors, manager>>

-----------------------------------------------------------------------------
fsInit ==
    /\ manager \in Managers
    /\ \E S \in SUBSET Entries :
         /\ stored = [m \in Managers |-> IF m = manager THEN S ELSE {}]
         /\ vectors = S /\ kept = S
    /\ client = [k \in Clients |-> Free]
    /\ done = [edits |-> 0, errors |-> 0]

fsNext ==
    \E k \in Clients :
      \/ LoadAgent(k) \/ Embed(k) \/ Forget(k) \/ Unlink(k)
      \/ \E e \in Entries : SaveFile(k, e) \/ DeleteFile(k, e) \/ DeleteSource(k, e)
      \/ \E d \in Folders : DeleteFiles(k, d)
      \/ \E m \in Managers : SelectManager(k, m)
      \/ \E e \in Entries : Download(k, e) \/ UploadNext(k, e)
      \/ StartTransfer(k) \/ ListFolder(k) \/ UploadFiles(k) \/ RemoveFolder(k) \/ Abort(k)

fsSpec == fsInit /\ [][fsNext]_fsVars

-----------------------------------------------------------------------------
(* Properties. *)

Somewhere == UNION {stored[m] : m \in Managers}
\* What transfers from managers that move hold.
OnTheWay == UNION {client[k].tmp : k \in {j \in Switches : client[j].with \in Moving}}

\* A file of the agent's own folder that was saved in the manager selected then, while
\* no transfer was to empty it, and that was not deleted since is in one of the
\* managers or, between managers that move, on its way; except once a manager is
\* selected while the transfer of another selection is under way, and except what a
\* transfer from a manager that moves has moved when it fails.
FilesKept == InFolder(kept, Agent) \subseteq Somewhere \union OnTheWay

\* Without errors a transfer takes all files along, those of the conversations too.
\* The code does not keep it (README, section 5), and no run has it.
TransferKeepsFiles == done.errors = 0 => kept \subseteq Somewhere \union OnTheWay
=============================================================================
