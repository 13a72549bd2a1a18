------------------------------ MODULE Migrations ------------------------------
(***************************************************************************)
(* The migrations of the data in Redis.  Every container upgrades the      *)
(* schema to the latest revision that its image knows before it starts;    *)
(* operators upgrade and downgrade from the command line.  A command reads *)
(* the recorded head, works out the revisions to go through, and takes     *)
(* them one by one: the migration itself, the new head, the history.       *)
(* Revisions are created one after the other, so the one below revision r  *)
(* is r - 1, and 0 is the base.  The migrations themselves are external.   *)
(***************************************************************************)
EXTENDS Integers, Sequences, SequencesExt, FiniteSetsExt

CONSTANTS Operators,     \* commands under way at a time: containers and people
          MaxRevisions,  \* bound: revisions
          MaxCommands,   \* bound: commands
          MaxCuts        \* bound: commands that die or whose migration fails

ASSUME MigrationAssumption == MaxRevisions \in Nat

VARIABLES
    files,     \* the revisions created so far
    head,      \* schema:current_head
    history,   \* schema:migrations
    command,   \* per operator: the command under way
    net,       \* per revision: how often it was applied, less how often reverted
    asked,     \* history: what was asked that is not upgrades one after the other
    cut,       \* history: revisions at which a command stopped half-way
    spent      \* commands, cuts

mgVars == <<files, head, history, command, net, asked, cut, spent>>

Revisions == 1..MaxRevisions
NoCommand == [op |-> "none", at |-> "idle", todo |-> {}, read |-> <<>>]

\* The revision a command is at: the chain is sorted from the base upwards.
Current(c) == IF command[c].op = "upgrade" THEN Min(command[c].todo) ELSE Max(command[c].todo)
CommandIs(c, r) == command' = [command EXCEPT ![c] = r]
CommandGoes(c, at) == CommandIs(c, [command[c] EXCEPT !.at = at])

-----------------------------------------------------------------------------
CreateRevision ==
    /\ files < MaxRevisions
    /\ files' = files + 1
    /\ UNCHANGED <<head, history, command, net, asked, cut, spent>>

\* Mutant of Between: the walk takes its start with it.
BetweenWithStart(start, end) ==
    IF start \in 1..end THEN start..end ELSE 1..end

\* get_revision_chain walks down from the end until it meets the start, or the base.
Between(start, end) ==
    IF start \in 1..end THEN (start + 1)..end ELSE 1..end

Begins(c, op, chain, backwards) ==
    /\ command[c] = NoCommand /\ spent.commands < MaxCommands
    /\ chain # {}
    /\ spent' = [spent EXCEPT !.commands = @ + 1]
    /\ CommandIs(c, [op |-> op, at |-> "migrate", todo |-> chain, read |-> <<>>])
    /\ asked' = asked
         \union (IF op = "downgrade" THEN {"downgrade"} ELSE {})
         \union (IF backwards THEN {"wrong way"} ELSE {})
         \union (IF \E d \in Operators : command[d] # NoCommand THEN {"overlap"} ELSE {})
    /\ UNCHANGED <<files, head, history, net, cut>>

\* The revisions an image knows end at `known`, its target when it is "head": an
\* image older than the recorded head walks down to the base.
UpgradeTo(c, known, target) ==
    /\ target \in 1..known
    /\ head # target
    /\ Begins(c, "upgrade", Between(head, target), head > target)

\* From the recorded head, when the image knows it, down to the target, or to the
\* base when the target is not below the head.
DowngradeTo(c, known, target) ==
    /\ head \in 1..known
    /\ Begins(c, "downgrade", Between(target, head), target > head)

MigrateRevision(c) ==
    /\ command[c].at = "migrate"
    /\ net' = [net EXCEPT ![Current(c)] = @ + IF command[c].op = "upgrade" THEN 1 ELSE -1]
    /\ CommandGoes(c, "head")
    /\ UNCHANGED <<files, head, history, asked, cut, spent>>

SetHead(c) ==
    /\ command[c].at = "head"
    /\ head' = IF command[c].op = "upgrade" THEN Current(c) ELSE Current(c) - 1
    /\ CommandGoes(c, "read")
    /\ UNCHANGED <<files, history, net, asked, cut, spent>>

\* add_to_history reads the list, appends to it and stores it.
ReadHistory(c) ==
    /\ command[c].at = "read"
    /\ CommandIs(c, [command[c] EXCEPT !.at = "history", !.read = history])
    /\ UNCHANGED <<files, head, history, net, asked, cut, spent>>

AddToHistory(c) ==
    /\ command[c].at = "history"
    /\ history' = Append(command[c].read, [revision |-> Current(c), action |-> command[c].op])
    /\ LET left == command[c].todo \ {Current(c)} IN
       CommandIs(c, IF left = {} THEN NoCommand
               ELSE [command[c] EXCEPT !.at = "migrate", !.todo = left, !.read = <<>>])
    /\ UNCHANGED <<files, head, net, asked, cut, spent>>

\* The migration raises, which may leave it half done, or the process dies.
Cut(c) ==
    /\ command[c] # NoCommand /\ spent.cuts < MaxCuts
    /\ spent' = [spent EXCEPT !.cuts = @ + 1]
    /\ cut' = IF command[c].at \in {"migrate", "head"} THEN cut \union {Current(c)} ELSE cut
    /\ CommandIs(c, NoCommand)
    /\ UNCHANGED <<files, head, history, net, asked>>

-----------------------------------------------------------------------------
mgInit ==
    /\ files = 0 /\ head = 0 /\ history = <<>>
    /\ command = [c \in Operators |-> NoCommand]
    /\ net = [r \in Revisions |-> 0]
    /\ asked = {} /\ cut = {}
    /\ spent = [commands |-> 0, cuts |-> 0]

mgNext ==
    \/ CreateRevision
    \/ \E c \in Operators :
         \/ \E known \in 0..files, target \in 0..MaxRevisions :
              UpgradeTo(c, known, target) \/ DowngradeTo(c, known, target)
         \/ MigrateRevision(c) \/ SetHead(c) \/ ReadHistory(c) \/ AddToHistory(c) \/ Cut(c)

mgSpec == mgInit /\ [][mgNext]_mgVars

-----------------------------------------------------------------------------
(* Properties. *)

HalfWay == {Current(c) : c \in {d \in Operators : command[d].at = "head"}}

\* The recorded head tells what was migrated.  As long as nobody downgrades, every
\* revision up to it has been applied, however many containers start at once and
\* wherever they die.  One command at a time, sent the right way, leaves exactly
\* those applied, each once, and a history that ends at the head, up to the
\* revision a command died or failed at.
SchemaMatches ==
    /\ "downgrade" \notin asked => \A r \in 1..head : net[r] > 0
    /\ asked \subseteq {"downgrade"} =>
         /\ \A r \in Revisions \ (cut \union HalfWay) : net[r] = IF r <= head THEN 1 ELSE 0
         /\ spent.cuts = 0 /\ (\A c \in Operators : command[c] = NoCommand) =>
              head = IF history = <<>> THEN 0
                     ELSE Last(history).revision - IF Last(history).action = "upgrade" THEN 0 ELSE 1
=============================================================================
