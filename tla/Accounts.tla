-------------------------------- MODULE Accounts --------------------------------
(***************************************************************************)
(* The users of an agent in Redis: a key per user, found by name through a *)
(* scan of the keys.  The creation of a user is serialised per name by a   *)
(* distributed lock that expires; updates and deletions take no lock.      *)
(* Requests of several replicas interleave at every call to Redis, and a   *)
(* replica may die in the middle of one.                                   *)
(***************************************************************************)
EXTENDS Naturals, FiniteSets

CONSTANTS Unset,
          Uids,         \* the keys of users
          UserNames,
          Requests,     \* requests under way at a time
          MaxRequests,  \* bound: requests
          MaxMishaps    \* bound: crashes, and locks that expire under their owner

ASSUME AccountAssumption == Unset \notin UserNames \union Requests

VARIABLES
    users,     \* per key: the name of the stored user
    mutex,     \* per name: the request that holds the lock
    ask,       \* per request: what it does
    taken,     \* history: the keys drawn so far
    excused,   \* history: names an update brought in, or whose lock expired in use
    deeds      \* requests, mishaps

acVars == <<users, mutex, ask, taken, excused, deeds>>

Waiting == [op |-> "none", at |-> "idle", uid |-> Unset, name |-> Unset, keys |-> {}]
Has(u) == users[u] # Unset
Asks(q, r) == ask' = [ask EXCEPT ![q] = r]
GoesTo(q, at) == Asks(q, [ask[q] EXCEPT !.at = at])
Ends(q) == Asks(q, Waiting)
AtStep(q, op, at) == ask[q].op = op /\ ask[q].at = at

Starts(q, r) ==
    /\ ask[q] = Waiting /\ deeds.requests < MaxRequests
    /\ deeds' = [deeds EXCEPT !.requests = @ + 1]
    /\ Asks(q, r)
    /\ UNCHANGED <<users, mutex, taken, excused>>

-----------------------------------------------------------------------------
(* create_user *)

AskCreate(q, n) ==
    Starts(q, [Waiting EXCEPT !.op = "create", !.at = "lock", !.name = n])

\* Mutant of TakeLock: the lock is taken whoever holds it.
TakeAnyway(q) ==
    /\ AtStep(q, "create", "lock")
    /\ mutex' = [mutex EXCEPT ![ask[q].name] = q]
    /\ GoesTo(q, "scan")
    /\ UNCHANGED <<users, taken, excused, deeds>>

TakeLock(q) ==
    /\ AtStep(q, "create", "lock")
    /\ mutex[ask[q].name] = Unset
    /\ mutex' = [mutex EXCEPT ![ask[q].name] = q]
    /\ GoesTo(q, "scan")
    /\ UNCHANGED <<users, taken, excused, deeds>>

\* A lock that stays taken for the blocking timeout fails the request.
GiveUp(q) ==
    /\ AtStep(q, "create", "lock") /\ mutex[ask[q].name] # Unset
    /\ Ends(q)
    /\ UNCHANGED <<users, mutex, taken, excused, deeds>>

\* get_user_by_username: the keys first, then their values; a user that is gone
\* by then is skipped.
ScanUsers(q) ==
    /\ AtStep(q, "create", "scan")
    /\ Asks(q, [ask[q] EXCEPT !.at = "match", !.keys = {u \in Uids : Has(u)}])
    /\ UNCHANGED <<users, mutex, taken, excused, deeds>>

MatchUsers(q) ==
    /\ AtStep(q, "create", "match")
    /\ GoesTo(q, IF \E u \in ask[q].keys : users[u] = ask[q].name THEN "release" ELSE "put")
    /\ UNCHANGED <<users, mutex, taken, excused, deeds>>

\* The id is a fresh one.
PutUser(q, u) ==
    /\ AtStep(q, "create", "put") /\ u \notin taken
    /\ users' = [users EXCEPT ![u] = ask[q].name]
    /\ taken' = taken \union {u}
    /\ GoesTo(q, "release")
    /\ UNCHANGED <<mutex, excused, deeds>>

\* A lock that is no longer one's own is left alone.
ReleaseLock(q) ==
    /\ AtStep(q, "create", "release")
    /\ mutex' = IF mutex[ask[q].name] = q THEN [mutex EXCEPT ![ask[q].name] = Unset] ELSE mutex
    /\ Ends(q)
    /\ UNCHANGED <<users, taken, excused, deeds>>

\* A lock expires: at leisure when its owner is dead, else a mishap.
ExpireLock(n) ==
    /\ mutex[n] # Unset
    /\ IF ask[mutex[n]].op = "create" /\ ask[mutex[n]].name = n
       THEN /\ deeds.mishaps < MaxMishaps /\ deeds' = [deeds EXCEPT !.mishaps = @ + 1]
            /\ excused' = excused \union {n}
       ELSE UNCHANGED <<deeds, excused>>
    /\ mutex' = [mutex EXCEPT ![n] = Unset]
    /\ UNCHANGED <<users, ask, taken>>

-----------------------------------------------------------------------------
(* update_user, the route and the CRUD *)

\* Passwords and permissions are left out, and the name may stay as it is.
AskUpdate(q, u, n) ==
    Starts(q, [Waiting EXCEPT !.op = "update", !.at = "read", !.uid = u, !.name = n])

\* The route reads the user that it merges with the request.
ReadUser(q) ==
    /\ AtStep(q, "update", "read")
    /\ LET u == ask[q].uid IN
       IF Has(u) THEN GoesTo(q, "again") ELSE Ends(q)
    /\ UNCHANGED <<users, mutex, taken, excused, deeds>>

\* The CRUD reads it again, to see that it is still there.
ReadAgain(q) ==
    /\ AtStep(q, "update", "again")
    /\ IF Has(ask[q].uid) THEN GoesTo(q, "put") ELSE Ends(q)
    /\ UNCHANGED <<users, mutex, taken, excused, deeds>>

\* A user that was deleted meanwhile is stored again.
StoreUpdate(q) ==
    /\ AtStep(q, "update", "put")
    /\ users' = [users EXCEPT ![ask[q].uid] = ask[q].name]
    /\ excused' = IF users[ask[q].uid] = ask[q].name THEN excused
                  ELSE excused \union {ask[q].name}
    /\ Ends(q)
    /\ UNCHANGED <<mutex, taken, deeds>>

-----------------------------------------------------------------------------
(* delete_user *)

AskDelete(q, u) ==
    Starts(q, [Waiting EXCEPT !.op = "delete", !.at = "read", !.uid = u])

ReadDoomed(q) ==
    /\ AtStep(q, "delete", "read")
    /\ IF Has(ask[q].uid) THEN GoesTo(q, "drop") ELSE Ends(q)
    /\ UNCHANGED <<users, mutex, taken, excused, deeds>>

\* The conversations stay: the deletion that follows names a key with a wildcard
\* in it, and no such key exists.
DropUser(q) ==
    /\ AtStep(q, "delete", "drop")
    /\ users' = [users EXCEPT ![ask[q].uid] = Unset]
    /\ Ends(q)
    /\ UNCHANGED <<mutex, taken, excused, deeds>>

\* destroy_all, when the agent goes.
DropAllUsers ==
    /\ deeds.requests < MaxRequests /\ deeds' = [deeds EXCEPT !.requests = @ + 1]
    /\ users' = [u \in Uids |-> Unset]
    /\ UNCHANGED <<mutex, ask, taken, excused>>

AskerDies(q) ==
    /\ ask[q] # Waiting /\ deeds.mishaps < MaxMishaps
    /\ deeds' = [deeds EXCEPT !.mishaps = @ + 1]
    /\ Ends(q)
    /\ UNCHANGED <<users, mutex, taken, excused>>

-----------------------------------------------------------------------------
acInit ==
    /\ users = [u \in Uids |-> Unset]
    /\ mutex = [n \in UserNames |-> Unset]
    /\ ask = [q \in Requests |-> Waiting]
    /\ taken = {}
    /\ excused = {}
    /\ deeds = [requests |-> 0, mishaps |-> 0]

acStep(q) ==
    \/ \E n \in UserNames : AskCreate(q, n) \/ \E u \in Uids : AskUpdate(q, u, n)
    \/ \E u \in Uids : AskDelete(q, u) \/ PutUser(q, u)
    \/ TakeLock(q) \/ GiveUp(q) \/ ScanUsers(q) \/ MatchUsers(q) \/ ReleaseLock(q)
    \/ ReadUser(q) \/ ReadAgain(q) \/ StoreUpdate(q) \/ ReadDoomed(q) \/ DropUser(q)
    \/ AskerDies(q)

acNext ==
    \/ \E q \in Requests : acStep(q)
    \/ \E n \in UserNames : ExpireLock(n)
    \/ DropAllUsers

acSpec == acInit /\ [][acNext]_acVars

-----------------------------------------------------------------------------
(* Properties. *)

\* Two users of an agent never share a name, unless an update changed the name
\* that is stored, or a lock expired under a request that was creating a user.
UniqueNames ==
    \A u, v \in Uids : u # v /\ Has(u) /\ users[u] = users[v] => users[u] \in excused
=============================================================================
