-------------------------- MODULE Services_proofs --------------------------
(***************************************************************************)
(* What is proved of the services: they share no state, and each section   *)
(* is about one of them, for every value of its constants.                 *)
(***************************************************************************)
EXTENDS Accounts, Requirements, Migrations, PluginSettings, FileStore, Scheduler, ChatSessions,
        FiniteSetTheorems, SequenceTheorems, TLAPS

(***************************************************************************)
(* The names of the users of an agent are unique, for any number of keys,  *)
(* names, requests, crashes and expired locks.                             *)
(***************************************************************************)
-----------------------------------------------------------------------------
(* The inductive invariant. *)

acOps == {"none", "create", "update", "delete"}
acPlaces == {"idle", "lock", "scan", "match", "put", "release", "read", "again", "drop"}
Asked == [op : acOps, at : acPlaces, uid : Uids \union {Unset},
          name : UserNames \union {Unset}, keys : SUBSET Uids]

\* The shapes of the variables; a creation and an update have a name.
acShapes ==
    /\ users \in [Uids -> UserNames \union {Unset}]
    /\ mutex \in [UserNames -> Requests \union {Unset}]
    /\ ask \in [Requests -> Asked]
    /\ \A q \in Requests : ask[q].op \in {"create", "update"} => ask[q].name \in UserNames

\* Past its lock, a creation still holds it, or its name is excused.
Locked(q) ==
    ask[q].op = "create" /\ ask[q].at \in {"scan", "match", "put", "release"} =>
      mutex[ask[q].name] = q \/ ask[q].name \in excused

\* The keys it has scanned are those of all users of the name.
Scanned(q) ==
    AtStep(q, "create", "match") =>
      \/ ask[q].name \in excused
      \/ \A u \in Uids : users[u] = ask[q].name => u \in ask[q].keys

\* It goes on to store its user when there is none of the name.
Unmatched(q) ==
    AtStep(q, "create", "put") =>
      ask[q].name \in excused \/ \A u \in Uids : users[u] # ask[q].name

Creates(q) == Locked(q) /\ Scanned(q) /\ Unmatched(q)

NamesInv == acShapes /\ UniqueNames /\ \A q \in Requests : Creates(q)

-----------------------------------------------------------------------------
(* Steps that change nothing but what a request is at. *)

LEMMA OnlyAsks ==
  ASSUME NamesInv, NEW q \in Requests, NEW r \in Asked,
         ask' = [ask EXCEPT ![q] = r],
         r.op \in {"create", "update"} => r.name \in UserNames,
         UNCHANGED <<users, mutex, excused>>,
         Creates(q)'
  PROVE  NamesInv'
  <1>1. ask'[q] = r /\ \A p \in Requests \ {q} : ask'[p] = ask[p]
    BY DEF NamesInv, acShapes
  <1>2. acShapes'
    BY <1>1 DEF NamesInv, acShapes
  <1>3. UniqueNames'
    BY DEF NamesInv, UniqueNames, Has
  <1>4. ASSUME NEW p \in Requests PROVE Creates(p)'
    <2>1. CASE p = q BY <2>1
    <2>2. CASE p # q
      BY <1>1, <2>2 DEF NamesInv, Creates, Locked, Scanned, Unmatched, AtStep
    <2>3. QED BY <2>1, <2>2
  <1>5. QED BY <1>2, <1>3, <1>4 DEF NamesInv

\* Where a request is not past the lock of a creation, nothing is asked of it.
LEMMA NotCreating ==
  ASSUME NEW q \in Requests,
         ask[q].op # "create" \/ ask[q].at \notin {"scan", "match", "put", "release"}
  PROVE  Creates(q)
  BY DEF Creates, Locked, Scanned, Unmatched, AtStep

\* A step that brings a request to such a place.
LEMMA AsksElse ==
  ASSUME NamesInv, NEW q \in Requests, NEW r \in Asked,
         ask' = [ask EXCEPT ![q] = r],
         r.op \in {"create", "update"} => r.name \in UserNames,
         r.op # "create" \/ r.at \notin {"scan", "match", "put", "release"},
         UNCHANGED <<users, mutex, excused>>
  PROVE  NamesInv'
  <1>1. ask'[q] = r
    BY DEF NamesInv, acShapes
  <1>2. Creates(q)'
    BY <1>1 DEF Creates, Locked, Scanned, Unmatched, AtStep
  <1>3. QED BY <1>2, OnlyAsks

\* A request that ends.
LEMMA WaitingTyped == Waiting \in Asked /\ Waiting.op = "none"
  BY DEF Waiting, Asked, acOps, acPlaces

LEMMA PlaceTyped ==
  ASSUME acShapes, NEW q \in Requests, NEW at \in acPlaces
  PROVE  LET r == [ask[q] EXCEPT !.at = at]
         IN  r \in Asked /\ r.at = at /\ r.op = ask[q].op /\ r.name = ask[q].name
               /\ r.keys = ask[q].keys
  BY DEF acShapes, Asked

-----------------------------------------------------------------------------
(* The actions. *)

LEMMA CreatePreserves ==
  ASSUME NamesInv, NEW q \in Requests, NEW n \in UserNames, AskCreate(q, n)
  PROVE  NamesInv'
  <1> DEFINE r == [Waiting EXCEPT !.op = "create", !.at = "lock", !.name = n]
  <1>1. r \in Asked /\ r.at = "lock" /\ r.name = n
    BY DEF Waiting, Asked, acOps, acPlaces
  <1>2. ask' = [ask EXCEPT ![q] = r] /\ UNCHANGED <<users, mutex, excused>>
    BY DEF AskCreate, Starts, Asks
  <1> HIDE DEF r
  <1>3. QED BY <1>1, <1>2, AsksElse

LEMMA AskUpdatePreserves ==
  ASSUME NamesInv, NEW q \in Requests, NEW u \in Uids, NEW n \in UserNames,
         AskUpdate(q, u, n)
  PROVE  NamesInv'
  <1> DEFINE r == [Waiting EXCEPT !.op = "update", !.at = "read", !.uid = u, !.name = n]
  <1>1. r \in Asked /\ r.at = "read" /\ r.name = n
    BY DEF Waiting, Asked, acOps, acPlaces
  <1>2. ask' = [ask EXCEPT ![q] = r] /\ UNCHANGED <<users, mutex, excused>>
    BY DEF AskUpdate, Starts, Asks
  <1> HIDE DEF r
  <1>3. QED BY <1>1, <1>2, AsksElse

LEMMA AskDeletePreserves ==
  ASSUME NamesInv, NEW q \in Requests, NEW u \in Uids, AskDelete(q, u)
  PROVE  NamesInv'
  <1> DEFINE r == [Waiting EXCEPT !.op = "delete", !.at = "read", !.uid = u]
  <1>1. r \in Asked /\ r.op = "delete"
    BY DEF Waiting, Asked, acOps, acPlaces
  <1>2. ask' = [ask EXCEPT ![q] = r] /\ UNCHANGED <<users, mutex, excused>>
    BY DEF AskDelete, Starts, Asks
  <1> HIDE DEF r
  <1>3. QED BY <1>1, <1>2, AsksElse

LEMMA TakeLockPreserves ==
  ASSUME NamesInv, NEW q \in Requests, TakeLock(q)
  PROVE  NamesInv'
  <1> DEFINE n == ask[q].name
             r == [ask[q] EXCEPT !.at = "scan"]
  <1>1. r \in Asked /\ r.at = "scan" /\ r.op = "create" /\ r.name = n /\ n \in UserNames
    BY PlaceTyped DEF NamesInv, acShapes, acPlaces, TakeLock, AtStep
  <1>2. /\ ask' = [ask EXCEPT ![q] = r] /\ UNCHANGED <<users, excused>>
        /\ mutex[n] = Unset /\ mutex' = [mutex EXCEPT ![n] = q]
    BY DEF TakeLock, GoesTo, Asks
  <1> HIDE DEF r
  <1>3. ask'[q] = r /\ \A p \in Requests \ {q} : ask'[p] = ask[p]
    BY <1>2 DEF NamesInv, acShapes
  <1>4. acShapes'
    BY <1>1, <1>2, <1>3 DEF NamesInv, acShapes
  <1>5. UniqueNames'
    BY <1>2 DEF NamesInv, UniqueNames, Has
  <1>6. Creates(q)'
    BY <1>1, <1>2, <1>3 DEF NamesInv, acShapes, Creates, Locked, Scanned, Unmatched, AtStep
  \* Nobody else holds the lock: it was free.
  <1>7. ASSUME NEW p \in Requests \ {q} PROVE Creates(p)'
    <2>1. p # Unset
      BY AccountAssumption
    <2>2. QED BY <1>1, <1>2, <1>3, <2>1
            DEF NamesInv, acShapes, Creates, Locked, Scanned, Unmatched, AtStep
  <1>8. QED BY <1>4, <1>5, <1>6, <1>7 DEF NamesInv

LEMMA ScanPreserves ==
  ASSUME NamesInv, NEW q \in Requests, ScanUsers(q)
  PROVE  NamesInv'
  <1> DEFINE K == {u \in Uids : Has(u)}
             r == [ask[q] EXCEPT !.at = "match", !.keys = K]
  <1>1. /\ r \in Asked /\ r.at = "match" /\ r.op = "create"
        /\ r.name = ask[q].name /\ r.keys = K /\ r.name \in UserNames
    BY DEF NamesInv, acShapes, Asked, acPlaces, ScanUsers, AtStep
  <1>2. ask' = [ask EXCEPT ![q] = r] /\ UNCHANGED <<users, mutex, excused>>
    BY DEF ScanUsers, Asks
  <1>3. \A u \in Uids : users[u] = r.name => u \in K
    BY <1>1, AccountAssumption DEF Has
  <1>4. Locked(q)
    BY DEF NamesInv, Creates
  <1> HIDE DEF r, K
  <1>5. ask'[q] = r
    BY <1>2 DEF NamesInv, acShapes
  <1>6. Creates(q)'
    BY <1>1, <1>2, <1>3, <1>4, <1>5
       DEF Creates, Locked, Scanned, Unmatched, AtStep, ScanUsers
  <1>7. QED BY <1>1, <1>2, <1>6, OnlyAsks

LEMMA MatchPreserves ==
  ASSUME NamesInv, NEW q \in Requests, MatchUsers(q)
  PROVE  NamesInv'
  <1> DEFINE at == IF \E u \in ask[q].keys : users[u] = ask[q].name THEN "release" ELSE "put"
             r == [ask[q] EXCEPT !.at = at]
  <1>1. at \in acPlaces /\ at \in {"release", "put"}
    BY DEF acPlaces
  <1>2. at = "put" => \A u \in ask[q].keys : users[u] # ask[q].name
    OBVIOUS
  <1>3. ask' = [ask EXCEPT ![q] = r] /\ UNCHANGED <<users, mutex, excused>>
    BY DEF MatchUsers, GoesTo, Asks
  <1> HIDE DEF at
  <1>4. r \in Asked /\ r.at = at /\ r.op = "create" /\ r.name = ask[q].name
        /\ r.name \in UserNames
    BY <1>1, PlaceTyped DEF NamesInv, acShapes, MatchUsers, AtStep
  <1> HIDE DEF r
  <1>5. ask'[q] = r
    BY <1>3 DEF NamesInv, acShapes
  <1>6. Locked(q) /\ Scanned(q)
    BY DEF NamesInv, Creates
  <1>7. Creates(q)'
    BY <1>1, <1>2, <1>3, <1>4, <1>5, <1>6
       DEF Creates, Locked, Scanned, Unmatched, AtStep, MatchUsers
  <1>8. QED BY <1>3, <1>4, <1>7, OnlyAsks

\* The user that is stored is the only one of its name, and the others that
\* create one of the name are excused.
LEMMA PutPreserves ==
  ASSUME NamesInv, NEW q \in Requests, NEW u \in Uids, PutUser(q, u)
  PROVE  NamesInv'
  <1> DEFINE n == ask[q].name
             r == [ask[q] EXCEPT !.at = "release"]
  <1>1. r \in Asked /\ r.at = "release" /\ r.op = "create" /\ r.name = n /\ n \in UserNames
    BY PlaceTyped DEF NamesInv, acShapes, acPlaces, PutUser, AtStep
  <1>2. /\ ask' = [ask EXCEPT ![q] = r] /\ UNCHANGED <<mutex, excused>>
        /\ users' = [users EXCEPT ![u] = n]
    BY DEF PutUser, GoesTo, Asks
  <1> HIDE DEF r
  <1>3. ask'[q] = r /\ \A p \in Requests \ {q} : ask'[p] = ask[p]
    BY <1>2 DEF NamesInv, acShapes
  <1>4. acShapes'
    BY <1>1, <1>2, <1>3 DEF NamesInv, acShapes
  <1>5. n \in excused \/ (mutex[n] = q /\ \A v \in Uids : users[v] # n)
    BY DEF NamesInv, Creates, Locked, Unmatched, PutUser, AtStep
  <1>6. users'[u] = n /\ \A v \in Uids \ {u} : users'[v] = users[v]
    BY <1>2 DEF NamesInv, acShapes
  <1>7. UniqueNames'
    BY <1>2, <1>5, <1>6 DEF NamesInv, UniqueNames, Has
  <1>8. Creates(q)'
    BY <1>1, <1>2, <1>3, <1>5 DEF Creates, Locked, Scanned, Unmatched, AtStep
  <1>9. ASSUME NEW p \in Requests \ {q} PROVE Creates(p)'
    <2>1. Creates(p) /\ ask'[p] = ask[p]
      BY <1>3 DEF NamesInv
    <2>2. CASE ask[p].name = n
      BY <1>2, <1>5, <2>1, <2>2 DEF Creates, Locked, Scanned, Unmatched, AtStep
    <2>3. CASE ask[p].name # n
      BY <1>2, <1>6, <2>1, <2>3 DEF Creates, Locked, Scanned, Unmatched, AtStep
    <2>4. QED BY <2>2, <2>3
  <1>10. QED BY <1>4, <1>7, <1>8, <1>9 DEF NamesInv

LEMMA ReleasePreserves ==
  ASSUME NamesInv, NEW q \in Requests, ReleaseLock(q)
  PROVE  NamesInv'
  <1> DEFINE n == ask[q].name
  <1>1. /\ ask' = [ask EXCEPT ![q] = Waiting] /\ UNCHANGED <<users, excused>>
        /\ mutex' = IF mutex[n] = q THEN [mutex EXCEPT ![n] = Unset] ELSE mutex
    BY DEF ReleaseLock, Ends, Asks
  <1>2. ask'[q] = Waiting /\ \A p \in Requests \ {q} : ask'[p] = ask[p]
    BY <1>1 DEF NamesInv, acShapes
  <1>3. acShapes'
    BY <1>1, <1>2, WaitingTyped DEF NamesInv, acShapes
  <1>4. UniqueNames'
    BY <1>1 DEF NamesInv, UniqueNames, Has
  <1>5. Creates(q)'
    BY <1>2, WaitingTyped DEF Creates, Locked, Scanned, Unmatched, AtStep
  \* What is released is q's lock only.
  <1>6. ASSUME NEW p \in Requests \ {q} PROVE Creates(p)'
    BY <1>1, <1>2 DEF NamesInv, acShapes, Creates, Locked, Scanned, Unmatched, AtStep
  <1>7. QED BY <1>3, <1>4, <1>5, <1>6 DEF NamesInv

LEMMA ExpirePreserves ==
  ASSUME NamesInv, NEW n \in UserNames, ExpireLock(n)
  PROVE  NamesInv'
  <1>1. UNCHANGED <<users, ask>> /\ mutex' = [mutex EXCEPT ![n] = Unset]
    BY DEF ExpireLock
  <1>2. excused \subseteq excused'
    BY DEF ExpireLock
  <1>3. \A q \in Requests : mutex[n] = q /\ ask[q].op = "create" /\ ask[q].name = n
                            => n \in excused'
    BY DEF ExpireLock
  <1>4. acShapes'
    BY <1>1 DEF NamesInv, acShapes
  <1>5. UniqueNames'
    BY <1>1, <1>2 DEF NamesInv, UniqueNames, Has
  <1>6. ASSUME NEW q \in Requests PROVE Creates(q)'
    BY <1>1, <1>2, <1>3 DEF NamesInv, acShapes, Creates, Locked, Scanned, Unmatched, AtStep
  <1>7. QED BY <1>4, <1>5, <1>6 DEF NamesInv

\* A name an update brings in is excused from then on.
LEMMA UpdatePreserves ==
  ASSUME NamesInv, NEW q \in Requests, StoreUpdate(q)
  PROVE  NamesInv'
  <1> DEFINE n == ask[q].name
             u == ask[q].uid
  <1>1. /\ ask' = [ask EXCEPT ![q] = Waiting] /\ UNCHANGED mutex
        /\ users' = [users EXCEPT ![u] = n] /\ n \in UserNames
    BY DEF StoreUpdate, Ends, Asks, AtStep, NamesInv, acShapes
  <1>2. excused \subseteq excused' /\ (users[u] # n => n \in excused')
    BY DEF StoreUpdate
  <1>3. ask'[q] = Waiting /\ \A p \in Requests \ {q} : ask'[p] = ask[p]
    BY <1>1 DEF NamesInv, acShapes
  <1>4. acShapes'
    BY <1>1, <1>3, WaitingTyped DEF NamesInv, acShapes
  <1>5. \A v \in Uids : users'[v] = users[v] \/ (users'[v] = n /\ n \in excused')
    BY <1>1, <1>2 DEF NamesInv, acShapes
  <1>6. UniqueNames'
    BY <1>2, <1>5 DEF NamesInv, UniqueNames, Has
  <1>7. Creates(q)'
    BY <1>3, WaitingTyped DEF Creates, Locked, Scanned, Unmatched, AtStep
  <1>8. ASSUME NEW p \in Requests \ {q} PROVE Creates(p)'
    BY <1>1, <1>2, <1>3, <1>5 DEF NamesInv, Creates, Locked, Scanned, Unmatched, AtStep
  <1>9. QED BY <1>4, <1>6, <1>7, <1>8 DEF NamesInv

\* Fewer users are no problem for anybody.
LEMMA FewerUsers ==
  ASSUME NamesInv, acShapes', UNCHANGED <<mutex, excused>>,
         \A q \in Requests : ask'[q] = ask[q] \/ ask'[q] = Waiting,
         \A u \in Uids : users'[u] = users[u] \/ users'[u] = Unset
  PROVE  NamesInv'
  <1>1. UniqueNames'
    BY DEF NamesInv, UniqueNames, Has
  <1>2. ASSUME NEW q \in Requests PROVE Creates(q)'
    <2>1. CASE ask'[q] = Waiting
      BY <2>1, WaitingTyped DEF Creates, Locked, Scanned, Unmatched, AtStep
    <2>2. CASE ask'[q] = ask[q] /\ ask[q].op = "create"
      <3>1. Creates(q) /\ ask[q].name # Unset
        BY <2>2, AccountAssumption DEF NamesInv, acShapes
      <3>2. QED BY <2>2, <3>1 DEF Creates, Locked, Scanned, Unmatched, AtStep
    <2>3. CASE ask'[q] = ask[q] /\ ask[q].op # "create"
      BY <2>3 DEF Creates, Locked, Scanned, Unmatched, AtStep
    <2>4. QED BY <2>1, <2>2, <2>3
  <1>3. QED BY <1>1, <1>2 DEF NamesInv

LEMMA DropPreserves ==
  ASSUME NamesInv, NEW q \in Requests, DropUser(q)
  PROVE  NamesInv'
  <1>1. /\ ask' = [ask EXCEPT ![q] = Waiting] /\ UNCHANGED <<mutex, excused>>
        /\ users' = [users EXCEPT ![ask[q].uid] = Unset]
    BY DEF DropUser, Ends, Asks
  <1>2. \A p \in Requests : ask'[p] = ask[p] \/ ask'[p] = Waiting
    BY <1>1 DEF NamesInv, acShapes
  <1>3. \A u \in Uids : users'[u] = users[u] \/ users'[u] = Unset
    BY <1>1 DEF NamesInv, acShapes
  <1>4. acShapes'
    BY <1>1, <1>2, WaitingTyped DEF NamesInv, acShapes
  <1>5. QED BY <1>1, <1>2, <1>3, <1>4, FewerUsers

LEMMA DropAllPreserves ==
  ASSUME NamesInv, DropAllUsers
  PROVE  NamesInv'
  <1>1. UNCHANGED <<mutex, ask, excused>> /\ users' = [u \in Uids |-> Unset]
    BY DEF DropAllUsers
  <1>2. acShapes'
    BY <1>1 DEF NamesInv, acShapes
  <1>3. QED BY <1>1, <1>2, FewerUsers

\* The steps that only bring a request to its next place, or end it.
LEMMA MovePreserves ==
  ASSUME NamesInv, NEW q \in Requests,
         \/ GiveUp(q) \/ ReadUser(q) \/ ReadAgain(q) \/ ReadDoomed(q) \/ AskerDies(q)
  PROVE  NamesInv'
  <1>1. UNCHANGED <<users, mutex, excused>>
    BY DEF GiveUp, ReadUser, ReadAgain, ReadDoomed, AskerDies
  <1>2. CASE Ends(q)
    BY <1>1, <1>2, WaitingTyped, AsksElse DEF Ends, Asks
  <1>3. ASSUME NEW at \in acPlaces, GoesTo(q, at), ask[q].op # "create" PROVE NamesInv'
    <2> DEFINE r == [ask[q] EXCEPT !.at = at]
    <2>1. r \in Asked /\ r.op = ask[q].op /\ r.name = ask[q].name
      BY PlaceTyped DEF NamesInv
    <2>2. r.op \in {"create", "update"} => r.name \in UserNames
      BY <2>1 DEF NamesInv, acShapes
    <2>3. ask' = [ask EXCEPT ![q] = r]
      BY <1>3 DEF GoesTo, Asks
    <2> HIDE DEF r
    <2>4. QED BY <1>1, <1>3, <2>1, <2>2, <2>3, AsksElse
  <1>4. \/ Ends(q)
        \/ ask[q].op # "create" /\ (GoesTo(q, "again") \/ GoesTo(q, "put") \/ GoesTo(q, "drop"))
    BY DEF GiveUp, ReadUser, ReadAgain, ReadDoomed, AskerDies, AtStep
  <1>5. {"again", "put", "drop"} \subseteq acPlaces
    BY DEF acPlaces
  <1>6. QED BY <1>2, <1>3, <1>4, <1>5

-----------------------------------------------------------------------------
LEMMA NamesStart == acInit => NamesInv
  <1> SUFFICES ASSUME acInit PROVE NamesInv
    OBVIOUS
  <1>1. acShapes
    BY WaitingTyped DEF acInit, acShapes
  <1>2. UniqueNames
    BY DEF acInit, UniqueNames, Has
  <1>3. \A q \in Requests : Creates(q)
    BY WaitingTyped DEF acInit, Creates, Locked, Scanned, Unmatched, AtStep
  <1>4. QED BY <1>1, <1>2, <1>3 DEF NamesInv

LEMMA NamesStep == NamesInv /\ [acNext]_acVars => NamesInv'
  <1> SUFFICES ASSUME NamesInv, [acNext]_acVars PROVE NamesInv'
    OBVIOUS
  <1>1. CASE UNCHANGED acVars
    BY <1>1 DEF acVars, NamesInv, acShapes, UniqueNames, Has, Creates, Locked, Scanned,
                Unmatched, AtStep
  <1>2. ASSUME NEW q \in Requests, acStep(q) PROVE NamesInv'
    <2>1. CASE \E n \in UserNames : AskCreate(q, n) \/ \E u \in Uids : AskUpdate(q, u, n)
      BY <2>1, CreatePreserves, AskUpdatePreserves
    <2>2. CASE \E u \in Uids : AskDelete(q, u) \/ PutUser(q, u)
      BY <2>2, AskDeletePreserves, PutPreserves
    <2>3. CASE TakeLock(q) \/ ScanUsers(q) \/ MatchUsers(q) \/ ReleaseLock(q)
      BY <2>3, TakeLockPreserves, ScanPreserves, MatchPreserves, ReleasePreserves
    <2>4. CASE StoreUpdate(q) \/ DropUser(q)
      BY <2>4, UpdatePreserves, DropPreserves
    <2>5. QED BY <1>2, <2>1, <2>2, <2>3, <2>4, MovePreserves DEF acStep
  <1>3. QED BY <1>1, <1>2, ExpirePreserves, DropAllPreserves DEF acNext

\* No two users of an agent share a name, unless an update brought it in or a
\* lock expired under a creation: create_user scans and stores under a lock of
\* the name, and whoever meets a lock that is not its own leaves it alone.
THEOREM NamesUnique == acSpec => []UniqueNames
  <1>1. acSpec => []NamesInv
    BY NamesStart, NamesStep, PTL DEF acSpec
  <1>2. NamesInv => UniqueNames
    BY DEF NamesInv
  <1>3. QED BY <1>1, <1>2, PTL

(***************************************************************************)
(* The requirements of a plugin are in the environment where its hash or   *)
(* an active plugin says so, for any number of processes, versions and     *)
(* packages, whatever installations fail and processes die.                *)
(***************************************************************************)
-----------------------------------------------------------------------------
(* The inductive invariant. *)

Installing == {"install", "record", "clean"}
Locking == Installing \union {"check"}
rqPlaces == Locking \union {"idle", "try", "poll", "wait", "load"}
Hashes == Releases \union {0}
Task == [at : rqPlaces, hash : Hashes, lock : FolderNumbers \union {0}]
LockPlaces == Locking \union {"wait"}

\* The shapes of the variables; a plugin is loaded from a folder that was there.
rqShapes ==
    /\ folder \in [version : Releases, number : FolderNumbers, hash : Hashes]
    /\ flocks \in [FolderNumbers -> Servers \union {Nobody}]
    /\ env \in SUBSET Packages
    /\ task \in [Servers -> Task]
    /\ active \in [Servers -> 0..folder.number]
    /\ replaced \in BOOLEAN
    /\ \A w \in Servers :
         /\ task[w].at = "idle" => task[w] = NoTask
         /\ task[w].at \in LockPlaces => task[w].lock \in FolderNumbers

\* An activation has hashed the version that is there; with a lock, it has the
\* one of the folder; while it installs, nothing is recorded; it loads, and
\* stays active, from a folder whose hash is recorded.
FollowsTask(w) ==
    /\ task[w].at # "idle" => task[w].hash = folder.version
    /\ task[w].at = "wait" => task[w].lock = folder.number
    /\ task[w].at \in Locking => task[w].lock = folder.number /\ flocks[folder.number] = w
    /\ task[w].at \in Installing => folder.hash # folder.version
    /\ task[w].at = "record" => Wants \subseteq env
    /\ task[w].at = "load" => folder.hash = folder.version
    /\ active[w] = folder.number => folder.hash = folder.version

Sound ==
    /\ folder.hash \in {0, folder.version}
    /\ folder.hash = folder.version => Wants \subseteq env
    /\ \A w \in Servers : FollowsTask(w)

InstalledInv == rqShapes /\ (~replaced => Sound)

-----------------------------------------------------------------------------
(* What follows from it. *)

LEMMA OneInstalls ==
  ASSUME InstalledInv
  PROVE  RequirementsMet
  <1> SUFFICES ASSUME ~replaced PROVE RequirementsMet
    BY DEF RequirementsMet
  <1> DEFINE S == {w \in Servers : task[w].at \in Installing}
  <1>1. Sound /\ rqShapes
    BY DEF InstalledInv
  <1>2. \A v, w \in S : v = w
    BY <1>1 DEF Sound, FollowsTask, Locking
  <1>3. Cardinality(S) <= 1
    <2>1. CASE S = {}
      BY <2>1, FS_EmptySet
    <2>2. CASE S # {}
      <3>1. PICK v \in S : TRUE
        BY <2>2
      <3>2. S = {v}
        BY <1>2, <3>1
      <3>3. Cardinality({v}) = 1
        BY FS_Singleton
      <3>4. QED BY <3>2, <3>3
    <2>3. QED BY <2>1, <2>2
  <1>4. S = {w \in Servers : task[w].at \in {"install", "record", "clean"}}
    BY DEF Installing
  <1>5. \A w \in Servers : active[w] = folder.number => Wants \subseteq env
    BY <1>1 DEF Sound, FollowsTask
  <1>6. folder.hash = folder.version => Wants \subseteq env
    BY <1>1 DEF Sound
  <1> HIDE DEF S
  <1>7. QED BY <1>3, <1>4, <1>5, <1>6 DEF RequirementsMet

-----------------------------------------------------------------------------
(* Steps that change only the task of one process. *)

\* The task that a step leaves keeps its shape.
Shaped(t) ==
    /\ t \in Task
    /\ t.at = "idle" => t = NoTask
    /\ t.at \in LockPlaces => t.lock \in FolderNumbers

LEMMA TaskMoves ==
  ASSUME rqShapes, NEW w \in Servers, NEW t, Shaped(t), task' = [task EXCEPT ![w] = t]
  PROVE  /\ task' \in [Servers -> Task]
         /\ task'[w] = t
         /\ \A v \in Servers \ {w} : task'[v] = task[v]
         /\ \A v \in Servers :
              /\ task'[v].at = "idle" => task'[v] = NoTask
              /\ task'[v].at \in LockPlaces => task'[v].lock \in FolderNumbers
  <1>1. task' \in [Servers -> Task] /\ task'[w] = t
           /\ \A v \in Servers \ {w} : task'[v] = task[v]
    BY DEF rqShapes, Shaped
  <1>2. ASSUME NEW v \in Servers
        PROVE  /\ task'[v].at = "idle" => task'[v] = NoTask
               /\ task'[v].at \in LockPlaces => task'[v].lock \in FolderNumbers
    <2>1. CASE v = w BY <1>1, <2>1 DEF Shaped
    <2>2. CASE v # w BY <1>1, <2>2 DEF rqShapes
    <2>3. QED BY <2>1, <2>2
  <1>3. QED BY <1>1, <1>2

LEMMA OnlyTask ==
  ASSUME InstalledInv, NEW w \in Servers, NEW t, Shaped(t), task' = [task EXCEPT ![w] = t],
         UNCHANGED <<folder, flocks, env, active, replaced>>,
         ~replaced => FollowsTask(w)'
  PROVE  InstalledInv'
  <1>1. rqShapes'
    BY TaskMoves DEF InstalledInv, rqShapes
  <1>2. ASSUME ~replaced PROVE Sound'
    <2>1. ASSUME NEW v \in Servers \ {w} PROVE FollowsTask(v)'
      <3>1. task'[v] = task[v] /\ FollowsTask(v)
        BY <1>2, TaskMoves DEF InstalledInv, Sound
      <3>2. QED BY <3>1 DEF FollowsTask, Wants
    <2>2. QED BY <1>2, <2>1 DEF InstalledInv, Sound, Wants
  <1>3. QED BY <1>1, <1>2 DEF InstalledInv

LEMMA StepShaped ==
  ASSUME rqShapes, NEW w \in Servers, NEW at \in rqPlaces,
         at # "idle", at \in LockPlaces => task[w].lock \in FolderNumbers
  PROVE  LET t == [task[w] EXCEPT !.at = at]
         IN  Shaped(t) /\ t.at = at /\ t.hash = task[w].hash /\ t.lock = task[w].lock
  BY DEF rqShapes, Shaped, Task

\* The versions are numbers other than 0.
LEMMA VersionIsNumber ==
  ASSUME rqShapes
  PROVE  folder.version \in Releases /\ folder.version # 0
  BY RequirementsAssumption DEF rqShapes

LEMMA ActivatePreserves ==
  ASSUME InstalledInv, NEW w \in Servers, Activate(w)
  PROVE  InstalledInv'
  <1> DEFINE t == [at |-> IF folder.hash = folder.version THEN "load" ELSE "try",
                   hash |-> folder.version, lock |-> 0]
  <1>1. /\ t.at = IF folder.hash = folder.version THEN "load" ELSE "try"
        /\ t.hash = folder.version
    OBVIOUS
  <1>2. Shaped(t)
    BY VersionIsNumber DEF InstalledInv, Shaped, Task, rqPlaces, Hashes, LockPlaces, Locking, Installing
  <1>3. task' = [task EXCEPT ![w] = t] /\ UNCHANGED <<folder, flocks, env, active, replaced>>
    BY DEF Activate, TaskIs
  <1> HIDE DEF t
  <1>4. ASSUME ~replaced PROVE FollowsTask(w)'
    <2>1. task'[w] = t
      BY <1>2, <1>3, TaskMoves DEF InstalledInv
    <2>2. FollowsTask(w)
      BY <1>4 DEF InstalledInv, Sound
    <2>3. QED BY <1>1, <1>3, <2>1, <2>2 DEF FollowsTask, Wants, Locking, Installing
  <1>5. QED BY <1>2, <1>3, <1>4, OnlyTask

LEMMA PollPreserves ==
  ASSUME InstalledInv, NEW w \in Servers, Poll(w)
  PROVE  InstalledInv'
  <1>0. /\ rqShapes /\ task[w].at = "poll"
        /\ UNCHANGED <<folder, flocks, env, active, replaced>>
    BY DEF InstalledInv, Poll
  <1>1. CASE Recorded(w)
    <2> DEFINE t == [task[w] EXCEPT !.at = "load"]
    <2>1. Shaped(t) /\ t.at = "load" /\ t.hash = task[w].hash
      BY <1>0, StepShaped DEF rqPlaces, LockPlaces, Locking, Installing
    <2>2. task' = [task EXCEPT ![w] = t]
      BY <1>1 DEF Poll, Steps, TaskIs
    <2> HIDE DEF t
    <2>3. ASSUME ~replaced PROVE FollowsTask(w)'
      <3>1. task'[w] = t /\ FollowsTask(w)
        BY <2>1, <2>2, <2>3, TaskMoves DEF InstalledInv, Sound
      <3>2. QED BY <1>0, <1>1, <2>1, <3>1 DEF FollowsTask, Recorded, Locking, Installing
    <2>4. QED BY <1>0, <2>1, <2>2, <2>3, OnlyTask
  <1>2. CASE ~Recorded(w)
    <2> DEFINE t == [task[w] EXCEPT !.at = "wait", !.lock = folder.number]
    <2>1. /\ Shaped(t) /\ t.at = "wait" /\ t.hash = task[w].hash
          /\ t.lock = folder.number
      <3>1. task[w] \in Task /\ folder.number \in FolderNumbers /\ "wait" \in rqPlaces
        BY <1>0 DEF rqShapes, rqPlaces
      <3>2. t \in Task /\ t.at = "wait" /\ t.hash = task[w].hash /\ t.lock = folder.number
        BY <3>1 DEF Task
      <3> HIDE DEF t
      <3>3. QED BY <3>1, <3>2 DEF Shaped
    <2>2. task' = [task EXCEPT ![w] = t]
      BY <1>2 DEF Poll, TaskIs
    <2> HIDE DEF t
    <2>3. ASSUME ~replaced PROVE FollowsTask(w)'
      <3>1. task'[w] = t /\ FollowsTask(w)
        BY <2>1, <2>2, <2>3, TaskMoves DEF InstalledInv, Sound
      <3>2. QED BY <1>0, <2>1, <3>1 DEF FollowsTask, Locking, Installing
    <2>4. QED BY <1>0, <2>1, <2>2, <2>3, OnlyTask
  <1>3. QED BY <1>1, <1>2

-----------------------------------------------------------------------------
(* Steps that take or leave a lock. *)

LEMMA LocksPreserves ==
  ASSUME InstalledInv, NEW w \in Servers, NEW f \in FolderNumbers, Locks(w, f),
         flocks[f] = Nobody, task[w].at # "idle", ~replaced => f = folder.number,
         UNCHANGED <<folder, env, active, replaced>>
  PROVE  InstalledInv'
  <1> DEFINE t == [task[w] EXCEPT !.at = "check", !.lock = f]
  <1>1. /\ Shaped(t) /\ t.at = "check" /\ t.hash = task[w].hash /\ t.lock = f
    BY DEF InstalledInv, rqShapes, Shaped, Task, rqPlaces, Locking
  <1>2. task' = [task EXCEPT ![w] = t] /\ flocks' = [flocks EXCEPT ![f] = w]
    BY DEF Locks, TaskIs
  <1> HIDE DEF t
  <1>3. rqShapes'
    BY <1>1, <1>2, TaskMoves DEF InstalledInv, rqShapes
  <1>4. task'[w] = t /\ (\A v \in Servers \ {w} : task'[v] = task[v]) /\ flocks'[f] = w
    BY <1>1, <1>2, TaskMoves DEF InstalledInv, rqShapes
  <1>5. ASSUME ~replaced PROVE Sound'
    <2>1. Sound /\ f = folder.number
      BY <1>5 DEF InstalledInv
    <2>2. FollowsTask(w)'
      BY <1>1, <1>4, <2>1 DEF Sound, FollowsTask, Locking, Installing
    <2>3. ASSUME NEW v \in Servers \ {w} PROVE FollowsTask(v)'
      <3>1. FollowsTask(v) /\ task'[v] = task[v] /\ v # Nobody
        BY <1>4, <2>1, RequirementsAssumption DEF Sound
      <3>2. task[v].at \notin Locking
        BY <2>1, <3>1 DEF FollowsTask
      <3>3. QED BY <3>1, <3>2 DEF FollowsTask, Wants, Locking
    <2>4. QED BY <2>1, <2>2, <2>3 DEF Sound, Wants
  <1>6. QED BY <1>3, <1>5 DEF InstalledInv

LEMMA TryLockPreserves ==
  ASSUME InstalledInv, NEW w \in Servers, TryLock(w)
  PROVE  InstalledInv'
  <1>0. /\ rqShapes /\ task[w].at = "try" /\ folder.number \in FolderNumbers
        /\ UNCHANGED <<folder, env, active, replaced>>
    BY DEF InstalledInv, TryLock, rqShapes
  <1>1. CASE flocks[folder.number] = Nobody
    BY <1>0, <1>1, LocksPreserves DEF TryLock
  <1>2. CASE flocks[folder.number] # Nobody
    <2> DEFINE t == [task[w] EXCEPT !.at = "poll"]
    <2>1. Shaped(t) /\ t.at = "poll" /\ t.hash = task[w].hash
      BY <1>0, StepShaped DEF rqPlaces, LockPlaces, Locking, Installing
    <2>2. task' = [task EXCEPT ![w] = t] /\ UNCHANGED flocks
      BY <1>2 DEF TryLock, Steps, TaskIs
    <2> HIDE DEF t
    <2>3. ASSUME ~replaced PROVE FollowsTask(w)'
      <3>1. task'[w] = t /\ FollowsTask(w)
        BY <2>1, <2>2, <2>3, TaskMoves DEF InstalledInv, Sound
      <3>2. QED BY <1>0, <2>1, <3>1 DEF FollowsTask, Locking, Installing
    <2>4. QED BY <1>0, <2>1, <2>2, <2>3, OnlyTask
  <1>3. QED BY <1>1, <1>2

LEMMA WaitLockPreserves ==
  ASSUME InstalledInv, NEW w \in Servers, WaitLock(w)
  PROVE  InstalledInv'
  <1>1. task[w].lock \in FolderNumbers
    BY DEF InstalledInv, WaitLock, rqShapes, LockPlaces
  <1>2. ~replaced => task[w].lock = folder.number
    BY DEF InstalledInv, WaitLock, Sound, FollowsTask
  <1>3. QED BY <1>1, <1>2, LocksPreserves DEF WaitLock

\* Whoever leaves its lock goes on without one; the recorded hash and the
\* environment change as its step says.
LEMMA UnlocksPreserves ==
  ASSUME InstalledInv, NEW w \in Servers, NEW t, Shaped(t), t.at \in {"idle", "load"},
         task[w].at \in Locking,
         t.at = "load" => t.hash = task[w].hash,
         Unlocks(w, t), UNCHANGED <<active, replaced>>,
         folder' \in [version : {folder.version}, number : {folder.number}, hash : Hashes],
         env' \subseteq Packages,
         ~replaced => /\ folder.hash = folder.version => folder'.hash = folder.version
                      /\ folder'.hash \in {0, folder.version}
                      /\ folder'.hash = folder.version => Needs[folder.version] \subseteq env'
                      /\ t.at = "load" => folder'.hash = folder.version
  PROVE  InstalledInv'
  <1>1. task' = [task EXCEPT ![w] = t] /\ flocks' = [flocks EXCEPT ![task[w].lock] = Nobody]
    BY DEF Unlocks, TaskIs
  <1>2. folder'.version = folder.version /\ folder'.number = folder.number
           /\ folder'.hash \in Hashes
    OBVIOUS
  <1>3. folder' \in [version : Releases, number : FolderNumbers, hash : Hashes]
    BY DEF InstalledInv, rqShapes
  <1>4. rqShapes'
    BY <1>1, <1>2, <1>3, TaskMoves DEF InstalledInv, rqShapes
  <1>5. task'[w] = t /\ (\A v \in Servers \ {w} : task'[v] = task[v])
    BY <1>1, TaskMoves DEF InstalledInv
  <1>6. ASSUME ~replaced PROVE Sound'
    <2>1. Sound
      BY <1>6 DEF InstalledInv
    <2>2. Wants' = Needs[folder.version]
      BY <1>2 DEF Wants
    <2>3. FollowsTask(w)'
      BY <1>2, <1>5, <1>6, <2>1 DEF Sound, FollowsTask, Locking, Installing
    <2>4. ASSUME NEW v \in Servers \ {w} PROVE FollowsTask(v)'
      <3>1. FollowsTask(v) /\ FollowsTask(w) /\ task'[v] = task[v] /\ v # w
        BY <1>5, <2>1 DEF Sound
      <3>2. task[v].at \notin Locking
        BY <3>1 DEF FollowsTask
      <3>3. folder.hash = folder.version => folder'.hash = folder.version
        BY <1>6
      <3>4. QED BY <1>2, <3>1, <3>2, <3>3 DEF FollowsTask, Locking, Installing
    <2>5. QED BY <1>2, <1>6, <2>2, <2>3, <2>4 DEF Sound
  <1>7. QED BY <1>4, <1>6 DEF InstalledInv

LEMMA UnlockedShaped ==
  ASSUME rqShapes, NEW w \in Servers
  PROVE  LET t == [task[w] EXCEPT !.at = "load", !.lock = 0]
         IN  Shaped(t) /\ t.at = "load" /\ t.hash = task[w].hash
  <1> DEFINE t == [task[w] EXCEPT !.at = "load", !.lock = 0]
  <1>1. task[w] \in Task /\ "load" \in rqPlaces
    BY DEF rqShapes, rqPlaces, Locking, Installing
  <1>2. t \in Task /\ t.at = "load" /\ t.hash = task[w].hash
    BY <1>1 DEF Task
  <1>3. t.at \notin LockPlaces
    BY <1>2 DEF LockPlaces, Locking, Installing
  <1> HIDE DEF t
  <1>4. QED BY <1>2, <1>3 DEF Shaped, t

LEMMA CheckPreserves ==
  ASSUME InstalledInv, NEW w \in Servers, Check(w)
  PROVE  InstalledInv'
  <1>0. /\ rqShapes /\ task[w].at = "check" /\ task[w].lock \in FolderNumbers
        /\ UNCHANGED <<folder, env, active, replaced>>
    BY DEF InstalledInv, Check, rqShapes, LockPlaces, Locking
  <1>1. CASE Recorded(w)
    <2> DEFINE t == [task[w] EXCEPT !.at = "load", !.lock = 0]
    <2>1. Shaped(t) /\ t.at = "load" /\ t.hash = task[w].hash
      BY <1>0, UnlockedShaped
    <2>2. Unlocks(w, t)
      BY <1>1 DEF Check
    <2> HIDE DEF t
    <2>3. folder' \in [version : {folder.version}, number : {folder.number}, hash : Hashes]
      BY <1>0 DEF rqShapes
    <2>4. env' \subseteq Packages
      BY <1>0 DEF rqShapes
    <2>5. ASSUME ~replaced
          PROVE  /\ folder.hash = folder.version
                 /\ folder'.hash \in {0, folder.version}
                 /\ Needs[folder.version] \subseteq env'
      BY <1>0, <1>1, <2>5 DEF InstalledInv, Sound, FollowsTask, Recorded, Wants
    <2>6. QED BY <1>0, <2>1, <2>2, <2>3, <2>4, <2>5, UnlocksPreserves DEF Locking
  <1>2. CASE ~Recorded(w)
    <2> DEFINE t == [task[w] EXCEPT !.at = "install"]
    <2>1. /\ Shaped(t) /\ t.at = "install" /\ t.hash = task[w].hash
          /\ t.lock = task[w].lock
      BY <1>0, StepShaped DEF rqPlaces, LockPlaces, Locking, Installing
    <2>2. task' = [task EXCEPT ![w] = t] /\ UNCHANGED flocks
      BY <1>2 DEF Check, Steps, TaskIs
    <2> HIDE DEF t
    <2>3. ASSUME ~replaced PROVE FollowsTask(w)'
      <3>1. task'[w] = t /\ FollowsTask(w)
        BY <2>1, <2>2, <2>3, TaskMoves DEF InstalledInv, Sound
      <3>2. QED BY <1>0, <1>2, <2>1, <2>2, <3>1 DEF FollowsTask, Recorded, Locking, Installing
    <2>4. QED BY <1>0, <2>1, <2>2, <2>3, OnlyTask
  <1>3. QED BY <1>1, <1>2

LEMMA RecordPreserves ==
  ASSUME InstalledInv, NEW w \in Servers, Record(w)
  PROVE  InstalledInv'
  <1>0. /\ rqShapes /\ task[w].at = "record" /\ folder' = [folder EXCEPT !.hash = task[w].hash]
        /\ UNCHANGED <<env, active, replaced>>
    BY DEF InstalledInv, Record
  <1> DEFINE t == [task[w] EXCEPT !.at = "load", !.lock = 0]
  <1>1. Shaped(t) /\ t.at = "load" /\ t.hash = task[w].hash
    BY <1>0, UnlockedShaped
  <1>2. Unlocks(w, t)
    BY DEF Record
  <1> HIDE DEF t
  <1>3. /\ folder' \in [version : {folder.version}, number : {folder.number}, hash : Hashes]
        /\ folder'.hash = task[w].hash
    BY <1>0 DEF rqShapes, Task
  <1>4. env' \subseteq Packages
    BY <1>0 DEF rqShapes
  <1>5. ASSUME ~replaced
        PROVE  folder'.hash = folder.version /\ Needs[folder.version] \subseteq env'
    <2>1. FollowsTask(w)
      BY <1>5 DEF InstalledInv, Sound
    <2>2. QED BY <1>0, <1>3, <2>1 DEF FollowsTask, Wants
  <1>6. QED
    BY <1>0, <1>1, <1>2, <1>3, <1>4, <1>5, UnlocksPreserves DEF Locking, Installing

LEMMA CleanPreserves ==
  ASSUME InstalledInv, NEW w \in Servers, Clean(w)
  PROVE  InstalledInv'
  <1>0. /\ rqShapes /\ task[w].at = "clean" /\ Unlocks(w, NoTask)
        /\ UNCHANGED <<folder, active, replaced>>
    BY DEF InstalledInv, Clean
  <1>1. Shaped(NoTask) /\ NoTask.at = "idle"
    BY DEF Shaped, NoTask, Task, rqPlaces, Hashes, LockPlaces, Locking, Installing
  <1>2. folder' \in [version : {folder.version}, number : {folder.number}, hash : Hashes]
    BY <1>0 DEF rqShapes
  <1>3. env' \subseteq Packages
    BY DEF InstalledInv, rqShapes, Clean
  <1>4. ASSUME ~replaced
        PROVE  folder'.hash \in {0, folder.version} /\ folder'.hash # folder.version
    BY <1>0, <1>4 DEF InstalledInv, Sound, FollowsTask, Installing
  <1>5. QED
    BY <1>0, <1>1, <1>2, <1>3, <1>4, UnlocksPreserves DEF Locking, Installing

-----------------------------------------------------------------------------
(* The installation, the plugin that is loaded, a new folder, a death. *)

LEMMA InstallPreserves ==
  ASSUME InstalledInv, NEW w \in Servers, Install(w)
  PROVE  InstalledInv'
  <1>0. /\ rqShapes /\ task[w].at = "install" /\ task[w].lock \in FolderNumbers
        /\ UNCHANGED <<folder, flocks, active, replaced>>
    BY DEF InstalledInv, Install, rqShapes, LockPlaces, Locking, Installing
  <1>1. CASE env' = env \union Wants /\ Steps(w, "record")
    <2> DEFINE t == [task[w] EXCEPT !.at = "record"]
    <2>1. /\ Shaped(t) /\ t.at = "record" /\ t.hash = task[w].hash
          /\ t.lock = task[w].lock
      BY <1>0, StepShaped DEF rqPlaces, LockPlaces, Locking, Installing
    <2>2. task' = [task EXCEPT ![w] = t]
      BY <1>1 DEF Steps, TaskIs
    <2> HIDE DEF t
    <2>3. Wants \subseteq Packages /\ Wants' = Wants
      BY <1>0, RequirementsAssumption DEF rqShapes, Wants
    <2>4. rqShapes'
      BY <1>0, <1>1, <2>1, <2>2, <2>3, TaskMoves DEF rqShapes
    <2>5. ASSUME ~replaced PROVE Sound'
      <3>1. Sound
        BY <2>5 DEF InstalledInv
      <3>2. ASSUME NEW v \in Servers PROVE FollowsTask(v)'
        <4>1. CASE v = w
          BY <1>0, <1>1, <2>1, <2>2, <2>3, <3>1, <4>1, TaskMoves
          DEF Sound, FollowsTask, Locking, Installing
        <4>2. CASE v # w
          BY <1>0, <1>1, <2>1, <2>2, <2>3, <3>1, <4>2, TaskMoves
          DEF Sound, FollowsTask, Locking, Installing
        <4>3. QED BY <4>1, <4>2
      <3>3. QED BY <1>0, <1>1, <2>3, <3>1, <3>2 DEF Sound
    <2>6. QED BY <1>0, <2>4, <2>5 DEF InstalledInv
  <1>2. CASE Trouble /\ Steps(w, "clean") /\ UNCHANGED env
    <2> DEFINE t == [task[w] EXCEPT !.at = "clean"]
    <2>1. /\ Shaped(t) /\ t.at = "clean" /\ t.hash = task[w].hash
          /\ t.lock = task[w].lock
      BY <1>0, StepShaped DEF rqPlaces, LockPlaces, Locking, Installing
    <2>2. task' = [task EXCEPT ![w] = t]
      BY <1>2 DEF Steps, TaskIs
    <2> HIDE DEF t
    <2>3. ASSUME ~replaced PROVE FollowsTask(w)'
      <3>1. task'[w] = t /\ FollowsTask(w)
        BY <1>0, <2>1, <2>2, <2>3, TaskMoves DEF InstalledInv, Sound
      <3>2. QED BY <1>0, <2>1, <3>1 DEF FollowsTask, Locking, Installing
    <2>4. QED BY <1>0, <1>2, <2>1, <2>2, <2>3, OnlyTask
  <1>3. QED BY <1>1, <1>2 DEF Install

LEMMA LoadModulesPreserves ==
  ASSUME InstalledInv, NEW w \in Servers, LoadModules(w)
  PROVE  InstalledInv'
  <1>0. /\ rqShapes /\ task[w].at = "load" /\ task' = [task EXCEPT ![w] = NoTask]
        /\ UNCHANGED <<folder, flocks, env, replaced>>
        /\ \/ active' = [active EXCEPT ![w] = folder.number]
           \/ active' = active
    BY DEF InstalledInv, LoadModules, TaskIs
  <1>1. Shaped(NoTask) /\ NoTask.at = "idle"
    BY DEF Shaped, NoTask, Task, rqPlaces, Hashes, LockPlaces, Locking, Installing
  <1>2. /\ active' \in [Servers -> 0..folder.number]
        /\ \A v \in Servers \ {w} : active'[v] = active[v]
    <2>1. folder.number \in 0..folder.number
      BY <1>0, RequirementsAssumption DEF rqShapes, FolderNumbers
    <2>2. QED BY <1>0, <2>1 DEF rqShapes
  <1>3. rqShapes'
    BY <1>0, <1>1, <1>2, TaskMoves DEF rqShapes
  <1>4. ASSUME ~replaced PROVE Sound'
    <2>1. Sound /\ folder.hash = folder.version
      BY <1>0, <1>4 DEF InstalledInv, Sound, FollowsTask
    <2>2. ASSUME NEW v \in Servers PROVE FollowsTask(v)'
      <3>1. CASE v = w
        BY <1>0, <1>1, <2>1, <3>1, TaskMoves DEF FollowsTask, Locking, Installing
      <3>2. CASE v # w
        BY <1>0, <1>1, <1>2, <2>1, <3>2, TaskMoves DEF Sound, FollowsTask, Wants
      <3>3. QED BY <3>1, <3>2
    <2>3. QED BY <1>0, <2>1, <2>2 DEF Sound, Wants
  <1>5. QED BY <1>0, <1>3, <1>4 DEF InstalledInv

LEMMA DeactivatePreserves ==
  ASSUME InstalledInv, NEW w \in Servers, Deactivate(w)
  PROVE  InstalledInv'
  <1>0. /\ rqShapes /\ active' = [active EXCEPT ![w] = 0]
        /\ UNCHANGED <<folder, flocks, env, task, replaced>>
    BY DEF InstalledInv, Deactivate
  <1>1. 0 \in 0..folder.number /\ folder.number # 0
    BY <1>0, RequirementsAssumption DEF rqShapes, FolderNumbers
  <1>2. rqShapes'
    BY <1>0, <1>1 DEF rqShapes
  <1>3. \A v \in Servers : active'[v] = active[v] \/ active'[v] # folder.number
    BY <1>0, <1>1 DEF rqShapes
  <1>4. QED BY <1>0, <1>2, <1>3 DEF InstalledInv, Sound, FollowsTask, Wants

\* A folder that is replaced while nothing is activated has no hash, and no
\* process was loaded from it.
LEMMA ReplacePreserves ==
  ASSUME InstalledInv, NEW v \in Releases, Replace(v)
  PROVE  InstalledInv'
  <1>0. /\ rqShapes /\ folder.number <= MaxReplaces
        /\ folder' = [version |-> v, number |-> folder.number + 1, hash |-> 0]
        /\ UNCHANGED <<flocks, env, task, active>>
    BY DEF InstalledInv, Replace
  <1>1. folder.number \in FolderNumbers /\ folder.number + 1 \in FolderNumbers
    BY <1>0, RequirementsAssumption DEF rqShapes, FolderNumbers
  <1>2. folder' \in [version : Releases, number : FolderNumbers, hash : Hashes]
    BY <1>0, <1>1 DEF Hashes
  <1>3. folder'.number = folder.number + 1 /\ folder'.hash = 0 /\ folder'.version = v
    BY <1>0
  <1>4. \A w \in Servers : active'[w] \in 0..folder'.number /\ active'[w] # folder'.number
    BY <1>0, <1>1, <1>3 DEF rqShapes, FolderNumbers
  <1>5. replaced' \in BOOLEAN
    BY DEF Replace
  <1>6. rqShapes'
    BY <1>0, <1>2, <1>4, <1>5 DEF rqShapes
  <1>7. ASSUME ~replaced' PROVE Sound'
    <2>1. \A w \in Servers : task[w] = NoTask
      BY <1>7 DEF Replace
    <2>2. \A w \in Servers : task'[w].at = "idle"
      BY <1>0, <2>1 DEF NoTask
    <2>3. v # 0
      BY RequirementsAssumption
    <2>4. \A w \in Servers : FollowsTask(w)'
      BY <1>4, <2>2 DEF FollowsTask, Locking, Installing
    <2>5. QED BY <1>3, <2>3, <2>4 DEF Sound
  <1>8. QED BY <1>6, <1>7 DEF InstalledInv

LEMMA ServerDiesPreserves ==
  ASSUME InstalledInv, NEW w \in Servers, ServerDies(w)
  PROVE  InstalledInv'
  <1>0. /\ rqShapes /\ task' = [task EXCEPT ![w] = NoTask]
        /\ flocks' = [f \in FolderNumbers |-> IF flocks[f] = w THEN Nobody ELSE flocks[f]]
        /\ active' = [active EXCEPT ![w] = 0]
        /\ UNCHANGED <<folder, env, replaced>>
    BY DEF InstalledInv, ServerDies, TaskIs
  <1>1. Shaped(NoTask) /\ NoTask.at = "idle"
    BY DEF Shaped, NoTask, Task, rqPlaces, Hashes, LockPlaces, Locking, Installing
  <1>2. 0 \in 0..folder.number /\ folder.number # 0
    BY <1>0, RequirementsAssumption DEF rqShapes, FolderNumbers
  <1>3. /\ active' \in [Servers -> 0..folder.number] /\ active'[w] = 0
        /\ \A v \in Servers \ {w} : active'[v] = active[v]
    BY <1>0, <1>2 DEF rqShapes
  <1>4. flocks' \in [FolderNumbers -> Servers \union {Nobody}]
    BY <1>0 DEF rqShapes
  <1>5. rqShapes'
    BY <1>0, <1>1, <1>3, <1>4, TaskMoves DEF rqShapes
  <1>6. ASSUME ~replaced PROVE Sound'
    <2>1. Sound
      BY <1>6 DEF InstalledInv
    <2>2. FollowsTask(w)'
      BY <1>0, <1>1, <1>2, <1>3, TaskMoves DEF FollowsTask, Locking, Installing
    <2>3. ASSUME NEW v \in Servers \ {w} PROVE FollowsTask(v)'
      <3>1. task'[v] = task[v] /\ FollowsTask(v) /\ v # w
        BY <1>0, <1>1, <2>1, TaskMoves DEF Sound
      <3>2. flocks[folder.number] = v => flocks'[folder.number] = v
        BY <1>0, <3>1 DEF rqShapes
      <3>3. QED BY <1>0, <1>3, <3>1, <3>2 DEF FollowsTask, Wants
    <2>4. QED BY <1>0, <2>1, <2>2, <2>3 DEF Sound, Wants
  <1>7. QED BY <1>0, <1>5, <1>6 DEF InstalledInv

-----------------------------------------------------------------------------
LEMMA InitInstalled == rqInit => InstalledInv
  <1> SUFFICES ASSUME rqInit PROVE InstalledInv
    OBVIOUS
  <1>1. /\ folder \in [version : Releases, number : {1}, hash : {0}]
        /\ 1 \in FolderNumbers /\ folder.hash = 0 /\ folder.number = 1
    BY RequirementsAssumption DEF rqInit, FolderNumbers
  <1>2. NoTask \in Task /\ NoTask.at = "idle"
    BY DEF NoTask, Task, rqPlaces, Hashes
  <1>3. folder.version # 0 /\ folder \in [version : Releases, number : FolderNumbers, hash : Hashes]
    BY <1>1, RequirementsAssumption DEF Hashes
  <1>4. \A w \in Servers : task[w] = NoTask /\ active[w] = 0
    BY DEF rqInit
  <1>5. active \in [Servers -> 0..folder.number]
    BY <1>1 DEF rqInit
  <1>6. rqShapes
    <2>1. /\ flocks \in [FolderNumbers -> Servers \union {Nobody}]
          /\ env \in SUBSET Packages /\ task \in [Servers -> Task] /\ replaced \in BOOLEAN
      BY <1>2 DEF rqInit
    <2>2. "idle" \notin LockPlaces
      BY DEF LockPlaces, Locking, Installing
    <2>3. QED BY <1>2, <1>3, <1>4, <1>5, <2>1, <2>2 DEF rqShapes
  <1>7. Sound
    BY <1>1, <1>2, <1>3 DEF rqInit, Sound, FollowsTask, Locking, Installing
  <1>8. QED BY <1>6, <1>7 DEF InstalledInv

LEMMA NextInstalled == InstalledInv /\ [rqNext]_rqVars => InstalledInv'
  <1> SUFFICES ASSUME InstalledInv, [rqNext]_rqVars PROVE InstalledInv'
    OBVIOUS
  <1>1. ASSUME NEW w \in Servers, Activate(w) PROVE InstalledInv'
    BY <1>1, ActivatePreserves
  <1>2. ASSUME NEW w \in Servers, TryLock(w) PROVE InstalledInv'
    BY <1>2, TryLockPreserves
  <1>3. ASSUME NEW w \in Servers, Poll(w) PROVE InstalledInv'
    BY <1>3, PollPreserves
  <1>4. ASSUME NEW w \in Servers, WaitLock(w) PROVE InstalledInv'
    BY <1>4, WaitLockPreserves
  <1>5. ASSUME NEW w \in Servers, Check(w) PROVE InstalledInv'
    BY <1>5, CheckPreserves
  <1>6. ASSUME NEW w \in Servers, Install(w) PROVE InstalledInv'
    BY <1>6, InstallPreserves
  <1>7. ASSUME NEW w \in Servers, Record(w) PROVE InstalledInv'
    BY <1>7, RecordPreserves
  <1>8. ASSUME NEW w \in Servers, Clean(w) PROVE InstalledInv'
    BY <1>8, CleanPreserves
  <1>9. ASSUME NEW w \in Servers, LoadModules(w) PROVE InstalledInv'
    BY <1>9, LoadModulesPreserves
  <1>10. ASSUME NEW w \in Servers, Deactivate(w) PROVE InstalledInv'
    BY <1>10, DeactivatePreserves
  <1>11. ASSUME NEW w \in Servers, ServerDies(w) PROVE InstalledInv'
    BY <1>11, ServerDiesPreserves
  <1>12. ASSUME NEW v \in Releases, Replace(v) PROVE InstalledInv'
    BY <1>12, ReplacePreserves
  <1>13. CASE UNCHANGED rqVars
    BY <1>13 DEF rqVars, InstalledInv, rqShapes, Sound, FollowsTask, Wants
  <1>14. QED
    BY <1>1, <1>2, <1>3, <1>4, <1>5, <1>6, <1>7, <1>8, <1>9, <1>10, <1>11, <1>12, <1>13
    DEF rqNext

\* At most one process installs at a time, and a recorded hash and a plugin that
\* is active from the present folder have their packages, whatever installations
\* fail and processes die (plugin.py, installation under the file lock).
THEOREM PackagesThere == rqSpec => []RequirementsMet
  <1>1. rqSpec => []InstalledInv
    BY InitInstalled, NextInstalled, PTL DEF rqSpec
  <1>2. InstalledInv => RequirementsMet
    BY OneInstalls
  <1>3. QED BY <1>1, <1>2, PTL

(***************************************************************************)
(* The recorded head of the schema tells which revisions were applied, for *)
(* any number of containers, operators and revisions, wherever commands    *)
(* die or fail.                                                            *)
(***************************************************************************)
-----------------------------------------------------------------------------
(* The inductive invariant. *)

Ways == {"upgrade", "downgrade"}
Entry == [revision : Revisions, action : Ways]

\* What a command goes through is a stretch of the chain.
Chains == {a..b : a, b \in Revisions} \ {{}}
mgOrders == [op : Ways, at : {"migrate", "head", "read", "history"}, todo : Chains, read : Seq(Entry)]

mgShapes ==
    /\ files \in 0..MaxRevisions /\ head \in 0..MaxRevisions
    /\ history \in Seq(Entry)
    /\ command \in [Operators -> mgOrders \union {NoCommand}]
    /\ net \in [Revisions -> Int]
    /\ asked \subseteq {"downgrade", "wrong way", "overlap"}
    /\ cut \subseteq Revisions
    /\ spent \in [commands : Nat, cuts : Nat]

\* An upgrade under way has applied whatever is below the revision it is at.
Applied(c) ==
    command[c] # NoCommand =>
      /\ command[c].op = "upgrade"
      /\ \A r \in 1..Current(c) : r < Current(c) \/ command[c].at # "migrate" => net[r] > 0

Grown ==
    "downgrade" \notin asked =>
      /\ \A r \in Revisions : net[r] >= 0
      /\ \A r \in 1..head : net[r] > 0
      /\ \A c \in Operators : Applied(c)

Upwards(c) == command[c].op = "upgrade"

\* The only command is at the revision next to the head, ...
AtHead(c) ==
    command[c] # NoCommand =>
      /\ command[c].at \in {"migrate", "head"} => Current(c) = IF Upwards(c) THEN head + 1 ELSE head
      /\ command[c].at \in {"read", "history"} => Current(c) = IF Upwards(c) THEN head ELSE head + 1
      /\ command[c].at = "head" /\ Current(c) \notin cut =>
           net[Current(c)] = IF Upwards(c) THEN 1 ELSE 0

\* ... the head tells what is applied, ...
Exact == \A r \in Revisions \ (cut \union HalfWay) : net[r] = IF r <= head THEN 1 ELSE 0

\* ... and the last entry of the history what the head was set to.
mgEnds(h) ==
    IF h = <<>> THEN 0 ELSE Last(h).revision - IF Last(h).action = "upgrade" THEN 0 ELSE 1

mgRecorded ==
    spent.cuts = 0 /\ (\A c \in Operators : command[c].at \notin {"read", "history"}) =>
      head = mgEnds(history)

Alone(c) == \A d \in Operators \ {c} : command[d] = NoCommand

mgInTurn ==
    asked \subseteq {"downgrade"} =>
      /\ \A c \in Operators : command[c] # NoCommand => Alone(c)
      /\ \A c \in Operators : AtHead(c)
      /\ Exact
      /\ mgRecorded

SchemaInv == mgShapes /\ Grown /\ mgInTurn

LEMMA SchemaInvIsStronger == SchemaInv => SchemaMatches
  <1> SUFFICES ASSUME SchemaInv PROVE SchemaMatches
    OBVIOUS
  <1>1. "downgrade" \notin asked => \A r \in 1..head : net[r] > 0
    BY DEF SchemaInv, Grown
  <1>2. ASSUME asked \subseteq {"downgrade"}, spent.cuts = 0,
               \A c \in Operators : command[c] = NoCommand
        PROVE  head = mgEnds(history)
    BY <1>2 DEF SchemaInv, mgInTurn, mgRecorded, NoCommand
  <1>3. asked \subseteq {"downgrade"} => Exact
    BY DEF SchemaInv, mgInTurn
  <1>4. QED BY <1>1, <1>2, <1>3 DEF SchemaMatches, Exact, mgEnds

-----------------------------------------------------------------------------
(* Stretches of the chain. *)

LEMMA LowEnd ==
  ASSUME NEW a \in Int, NEW b \in Int, a <= b
  PROVE  Min(a..b) = a
  BY DEF Min

LEMMA HighEnd ==
  ASSUME NEW a \in Int, NEW b \in Int, a <= b
  PROVE  Max(a..b) = b
  BY DEF Max

LEMMA IsChain ==
  ASSUME NEW a \in Revisions, NEW b \in Revisions, a <= b
  PROVE  a..b \in Chains
  <1>1. a \in a..b
    BY MigrationAssumption DEF Revisions
  <1>2. QED BY <1>1 DEF Chains

LEMMA ChainEnds ==
  ASSUME NEW S \in Chains
  PROVE  \E a, b \in Revisions : a <= b /\ S = a..b /\ Min(S) = a /\ Max(S) = b
  <1>1. PICK a, b \in Revisions : S = a..b /\ S # {}
    BY DEF Chains
  <1>2. a \in Int /\ b \in Int
    BY MigrationAssumption DEF Revisions
  <1>3. a <= b
    BY <1>1, <1>2
  <1>4. QED BY <1>1, <1>2, <1>3, LowEnd, HighEnd

\* A step of a command takes the lowest revision of an upgrade.
LEMMA TakeLow ==
  ASSUME NEW S \in Chains, S \ {Min(S)} # {}
  PROVE  S \ {Min(S)} \in Chains /\ Min(S \ {Min(S)}) = Min(S) + 1
  <1>1. PICK a, b \in Revisions : a <= b /\ S = a..b /\ Min(S) = a
    BY ChainEnds
  <1>2. a \in Int /\ b \in Int
    BY MigrationAssumption DEF Revisions
  <1>3. a + 1 <= b
    BY <1>1, <1>2
  <1>4. S \ {Min(S)} = (a + 1)..b /\ a + 1 \in Revisions
    BY <1>1, <1>2, <1>3, MigrationAssumption DEF Revisions
  <1>5. Min((a + 1)..b) = a + 1
    <2>1. a + 1 \in Int
      BY <1>2
    <2>2. QED BY <2>1, <1>2, <1>3, LowEnd
  <1>6. (a + 1)..b \in Chains
    BY <1>1, <1>2, <1>3, <1>4, IsChain
  <1>7. QED BY <1>1, <1>4, <1>5, <1>6

\* And the highest one of a downgrade.
LEMMA TakeHigh ==
  ASSUME NEW S \in Chains, S \ {Max(S)} # {}
  PROVE  S \ {Max(S)} \in Chains /\ Max(S \ {Max(S)}) = Max(S) - 1
  <1>1. PICK a, b \in Revisions : a <= b /\ S = a..b /\ Max(S) = b
    BY ChainEnds
  <1>2. a \in Int /\ b \in Int
    BY MigrationAssumption DEF Revisions
  <1>3. a <= b - 1
    BY <1>1, <1>2
  <1>4. S \ {Max(S)} = a..(b - 1) /\ b - 1 \in Revisions
    BY <1>1, <1>2, <1>3, MigrationAssumption DEF Revisions
  <1>5. Max(a..(b - 1)) = b - 1
    <2>1. b - 1 \in Int
      BY <1>2
    <2>2. QED BY <2>1, <1>2, <1>3, HighEnd
  <1>6. a..(b - 1) \in Chains
    BY <1>1, <1>2, <1>3, <1>4, IsChain
  <1>7. QED BY <1>1, <1>4, <1>5, <1>6

LEMMA BetweenIs ==
  ASSUME NEW start \in 0..MaxRevisions, NEW end \in 0..MaxRevisions, Between(start, end) # {}
  PROVE  /\ Between(start, end) \in Chains
         /\ Min(Between(start, end)) = IF start \in 1..end THEN start + 1 ELSE 1
         /\ Max(Between(start, end)) = end
  <1> DEFINE a == IF start \in 1..end THEN start + 1 ELSE 1
  <1>1. Between(start, end) = a..end /\ a \in Int /\ end \in Int
    BY MigrationAssumption DEF Between
  <1>2. a <= end /\ a \in Revisions /\ end \in Revisions
    BY <1>1, MigrationAssumption DEF Revisions
  <1>3. Min(a..end) = a /\ Max(a..end) = end
    BY <1>1, <1>2, LowEnd, HighEnd
  <1>4. a..end \in Chains
    BY <1>2, IsChain
  <1>5. QED BY <1>1, <1>3, <1>4

\* The revision that a command is at.
LEMMA CurrentIs ==
  ASSUME NEW c \in Operators, command[c] \in mgOrders
  PROVE  Current(c) \in Revisions /\ Current(c) \in Int /\ Current(c) > 0
  <1>1. command[c].todo \in Chains
    BY DEF mgOrders
  <1>2. PICK a, b \in Revisions : Min(command[c].todo) = a /\ Max(command[c].todo) = b
    BY <1>1, ChainEnds
  <1>3. QED BY <1>2, MigrationAssumption DEF Current, Revisions

LEMMA mgIdle == NoCommand \notin mgOrders
  BY DEF NoCommand, mgOrders

-----------------------------------------------------------------------------
(* A step of one command. *)

At(j) == IF j.op = "upgrade" THEN Min(j.todo) ELSE Max(j.todo)

LEMMA mgMoves ==
  ASSUME mgShapes, NEW c \in Operators, NEW j \in mgOrders \union {NoCommand}, CommandIs(c, j)
  PROVE  /\ command' \in [Operators -> mgOrders \union {NoCommand}]
         /\ command'[c] = j /\ Current(c)' = At(j)
         /\ \A d \in Operators \ {c} : command'[d] = command[d] /\ Current(d)' = Current(d)
  <1>1. command' = [command EXCEPT ![c] = j]
    BY DEF CommandIs
  <1>2. command' \in [Operators -> mgOrders \union {NoCommand}] /\ command'[c] = j
    BY <1>1 DEF mgShapes
  <1>3. \A d \in Operators \ {c} : command'[d] = command[d]
    BY <1>1 DEF mgShapes
  <1>4. QED BY <1>2, <1>3 DEF Current, At

\* The only command is the only one half-way.
LEMMA OnlyOne ==
  ASSUME mgShapes, NEW c \in Operators, NEW j \in mgOrders \union {NoCommand}, CommandIs(c, j), Alone(c)
  PROVE  /\ Alone(c)'
         /\ HalfWay = (IF command[c].at = "head" THEN {Current(c)} ELSE {})
         /\ HalfWay' = (IF j.at = "head" THEN {At(j)} ELSE {})
  <1>1. Alone(c)'
    BY mgMoves DEF Alone
  <1>2. NoCommand.at # "head"
    BY DEF NoCommand
  <1>3. {d \in Operators : command[d].at = "head"} = IF command[c].at = "head" THEN {c} ELSE {}
    BY <1>2 DEF Alone
  <1>4. {d \in Operators : command'[d].at = "head"} = IF j.at = "head" THEN {c} ELSE {}
    BY <1>1, <1>2, mgMoves DEF Alone
  <1>5. HalfWay' = {Current(d)' : d \in {e \in Operators : command'[e].at = "head"}}
    BY DEF HalfWay
  <1>6. HalfWay' = IF j.at = "head" THEN {Current(c)'} ELSE {}
    BY <1>4, <1>5
  <1>7. Current(c)' = At(j)
    BY mgMoves
  <1>8. HalfWay = IF command[c].at = "head" THEN {Current(c)} ELSE {}
    BY <1>3 DEF HalfWay
  <1>9. QED BY <1>1, <1>6, <1>7, <1>8

\* In turn, the others rest, so that only the command that moves is to be looked at.
LEMMA InTurnStays ==
  ASSUME mgShapes, NEW c \in Operators, NEW j \in mgOrders \union {NoCommand}, CommandIs(c, j), Alone(c),
         AtHead(c)', Exact', mgRecorded'
  PROVE  mgInTurn'
  <1>1. Alone(c)'
    BY OnlyOne
  <1>2. \A d \in Operators \ {c} : command'[d] = NoCommand
    BY <1>1 DEF Alone
  <1>3. \A d \in Operators : AtHead(d)'
    BY <1>2 DEF AtHead
  <1>4. \A d \in Operators : command'[d] # NoCommand => Alone(d)'
    BY <1>1, <1>2 DEF Alone
  <1>5. QED BY <1>3, <1>4 DEF mgInTurn

\* Out of turn, nothing is said but of what was applied.
LEMMA AppliedStays ==
  ASSUME mgShapes, NEW c \in Operators, NEW j \in mgOrders \union {NoCommand}, CommandIs(c, j),
         NEW d \in Operators \ {c}, Applied(d), \A r \in Revisions : net[r] > 0 => net'[r] > 0,
         command[d] # NoCommand => command[d] \in mgOrders
  PROVE  Applied(d)'
  <1>1. command'[d] = command[d] /\ Current(d)' = Current(d)
    BY mgMoves
  <1>2. SUFFICES ASSUME command[d] # NoCommand PROVE Applied(d)'
    BY <1>1 DEF Applied
  <1>3. Current(d) \in Revisions
    BY <1>2, CurrentIs
  <1>4. 1..Current(d) \subseteq Revisions
    BY <1>3, MigrationAssumption DEF Revisions
  <1>5. QED BY <1>1, <1>2, <1>4 DEF Applied

LEMMA BeginKeeps ==
  ASSUME SchemaInv, NEW c \in Operators, NEW op \in Ways, NEW chain \in Chains,
         NEW backwards \in BOOLEAN, Begins(c, op, chain, backwards),
         op = "upgrade" => Min(chain) <= head + 1,
         ~backwards => IF op = "upgrade" THEN Min(chain) = head + 1 ELSE Max(chain) = head
  PROVE  SchemaInv'
  <1> DEFINE j == [op |-> op, at |-> "migrate", todo |-> chain, read |-> <<>>]
  <1>1. /\ command[c] = NoCommand /\ CommandIs(c, j)
        /\ UNCHANGED <<files, head, history, net, cut>>
        /\ spent' = [spent EXCEPT !.commands = @ + 1]
    BY DEF Begins
  <1>2. /\ asked \subseteq asked'
        /\ op = "downgrade" => "downgrade" \in asked'
        /\ backwards => "wrong way" \in asked'
        /\ (\E d \in Operators : command[d] # NoCommand) => "overlap" \in asked'
        /\ asked' \subseteq asked \union {"downgrade", "wrong way", "overlap"}
    BY DEF Begins
  <1>3. mgShapes
    BY DEF SchemaInv
  <1>4. j \in mgOrders
    BY DEF mgOrders
  <1>5. j.op = op /\ j.at = "migrate" /\ At(j) = IF op = "upgrade" THEN Min(chain) ELSE Max(chain)
    BY DEF At
  <1> HIDE DEF j
  <1>6. command'[c] = j /\ Current(c)' = At(j) /\ command' \in [Operators -> mgOrders \union {NoCommand}]
    BY <1>1, <1>3, <1>4, mgMoves
  <1>7. mgShapes'
    <2>1. spent' \in [commands : Nat, cuts : Nat]
      <3>1. spent \in [commands : Nat, cuts : Nat]
        BY <1>3 DEF mgShapes
      <3>2. QED BY <1>1, <3>1
    <2>2. asked' \subseteq {"downgrade", "wrong way", "overlap"}
      BY <1>2, <1>3 DEF mgShapes
    <2>3. QED BY <1>1, <1>3, <1>6, <2>1, <2>2 DEF mgShapes
  <1>8. At(j) \in Revisions /\ At(j) \in Int /\ At(j) > 0
    BY <1>5, ChainEnds, MigrationAssumption DEF Revisions
  <1>9. head \in Nat
    <2>1. head \in 0..MaxRevisions
      BY <1>3 DEF mgShapes
    <2>2. QED BY <2>1, MigrationAssumption
  <1>10. ASSUME "downgrade" \notin asked' PROVE Grown'
    <2>1. Grown /\ "downgrade" \notin asked /\ op = "upgrade"
      BY <1>2, <1>10 DEF SchemaInv, Ways
    <2>2. Applied(c)'
      BY <1>1, <1>5, <1>6, <1>8, <1>9, <2>1 DEF Applied, Grown
    <2>3. ASSUME NEW d \in Operators \ {c} PROVE Applied(d)'
      <3>1. command[d] # NoCommand => command[d] \in mgOrders
        BY <1>3 DEF mgShapes
      <3>2. Applied(d)
        BY <2>1 DEF Grown
      <3>3. QED BY <1>1, <1>3, <1>4, <3>1, <3>2, AppliedStays
    <2>4. QED BY <1>1, <2>1, <2>2, <2>3 DEF Grown
  <1>11. ASSUME asked' \subseteq {"downgrade"} PROVE mgInTurn'
    <2>1. asked \subseteq {"downgrade"} /\ ~backwards /\ Alone(c)
      BY <1>2, <1>11 DEF Alone
    <2>2. AtHead(c)'
      BY <1>1, <1>5, <1>6, <2>1 DEF AtHead, Upwards
    <2>3. HalfWay' = {} /\ HalfWay = {}
      BY <1>1, <1>3, <1>4, <1>5, <2>1, OnlyOne DEF NoCommand
    <2>4. Exact'
      BY <1>1, <2>1, <2>3 DEF SchemaInv, mgInTurn, Exact
    <2>5. mgRecorded'
      <3>1. \A d \in Operators : command[d] = NoCommand
        BY <1>1, <2>1 DEF Alone
      <3>2. spent.cuts = 0 => head = mgEnds(history)
        BY <2>1, <3>1 DEF SchemaInv, mgInTurn, mgRecorded, NoCommand
      <3>3. spent'.cuts = spent.cuts
        BY <1>1, <1>3 DEF mgShapes
      <3>4. QED BY <1>1, <3>2, <3>3 DEF mgRecorded, mgEnds
    <2>6. QED BY <1>1, <1>3, <1>4, <2>1, <2>2, <2>4, <2>5, InTurnStays
  <1>12. QED BY <1>7, <1>10, <1>11 DEF SchemaInv, Grown, mgInTurn

LEMMA UpgradeKeeps ==
  ASSUME SchemaInv, NEW c \in Operators, NEW known \in 0..files, NEW target \in 0..MaxRevisions,
         UpgradeTo(c, known, target)
  PROVE  SchemaInv'
  <1>1. head \in 0..MaxRevisions /\ files \in 0..MaxRevisions
    BY DEF SchemaInv, mgShapes
  <1>2. /\ target \in 1..known /\ head # target
        /\ Begins(c, "upgrade", Between(head, target), head > target)
    BY DEF UpgradeTo
  <1>3. Between(head, target) # {}
    BY <1>2 DEF Begins
  <1>4. /\ Between(head, target) \in Chains
        /\ Min(Between(head, target)) = IF head \in 1..target THEN head + 1 ELSE 1
    BY <1>1, <1>3, BetweenIs
  <1>5. Min(Between(head, target)) <= head + 1
    BY <1>1, <1>4, MigrationAssumption
  <1>6. ~(head > target) => Min(Between(head, target)) = head + 1
    BY <1>1, <1>2, <1>4, MigrationAssumption
  <1> DEFINE chain == Between(head, target)  backwards == head > target
  <1>7. chain \in Chains /\ backwards \in BOOLEAN /\ "upgrade" \in Ways
    BY <1>4 DEF Ways
  <1>8. Begins(c, "upgrade", chain, backwards)
    BY <1>2
  <1>9. Min(chain) <= head + 1 /\ (~backwards => Min(chain) = head + 1)
    BY <1>5, <1>6
  <1> HIDE DEF chain, backwards
  <1>10. QED BY <1>7, <1>8, <1>9, BeginKeeps

LEMMA DowngradeKeeps ==
  ASSUME SchemaInv, NEW c \in Operators, NEW known \in 0..files, NEW target \in 0..MaxRevisions,
         DowngradeTo(c, known, target)
  PROVE  SchemaInv'
  <1>1. head \in 0..MaxRevisions
    BY DEF SchemaInv, mgShapes
  <1>2. Begins(c, "downgrade", Between(target, head), target > head)
    BY DEF DowngradeTo
  <1>3. Between(target, head) # {}
    BY <1>2 DEF Begins
  <1>4. Between(target, head) \in Chains /\ Max(Between(target, head)) = head
    BY <1>1, <1>3, BetweenIs
  <1> DEFINE chain == Between(target, head)  backwards == target > head
  <1>5. chain \in Chains /\ backwards \in BOOLEAN /\ "downgrade" \in Ways
    BY <1>4 DEF Ways
  <1>6. Begins(c, "downgrade", chain, backwards) /\ Max(chain) = head
    BY <1>2, <1>4
  <1> HIDE DEF chain, backwards
  <1>7. QED BY <1>5, <1>6, BeginKeeps

-----------------------------------------------------------------------------
(* The steps of a command under way. *)

LEMMA Goes ==
  ASSUME mgShapes, NEW c \in Operators, command[c].at # "idle"
  PROVE  /\ command[c] \in mgOrders /\ command[c] # NoCommand
         /\ Current(c) \in Revisions /\ Current(c) \in Int /\ Current(c) > 0
         /\ \A at \in {"migrate", "head", "read", "history"} :
              LET j == [command[c] EXCEPT !.at = at] IN
              j \in mgOrders /\ j.at = at /\ j.op = command[c].op /\ At(j) = Current(c)
  <1>1. command[c] \in mgOrders /\ command[c] # NoCommand
    <2>1. command[c] \in mgOrders \union {NoCommand}
      BY DEF mgShapes
    <2>2. NoCommand.at = "idle"
      BY DEF NoCommand
    <2>3. QED BY <2>1, <2>2, mgIdle
  <1>2. ASSUME NEW at \in {"migrate", "head", "read", "history"}, NEW j, j = [command[c] EXCEPT !.at = at]
        PROVE  j \in mgOrders /\ j.at = at /\ j.op = command[c].op /\ At(j) = Current(c)
    <2>1. j \in mgOrders /\ j.at = at /\ j.op = command[c].op /\ j.todo = command[c].todo
      BY <1>1, <1>2 DEF mgOrders
    <2>2. QED BY <2>1 DEF At, Current
  <1>3. QED BY <1>1, <1>2, CurrentIs

\* In turn, nobody else has a command.
LEMMA TurnOf ==
  ASSUME SchemaInv, NEW c \in Operators, command[c] # NoCommand, asked \subseteq {"downgrade"}
  PROVE  Alone(c) /\ AtHead(c) /\ Exact /\ mgRecorded
  BY DEF SchemaInv, mgInTurn

LEMMA GrownStays ==
  ASSUME SchemaInv, NEW c \in Operators, NEW j \in mgOrders \union {NoCommand}, CommandIs(c, j),
         "downgrade" \notin asked, \A r \in Revisions : net'[r] >= 0 /\ (net[r] > 0 => net'[r] > 0),
         \A r \in 1..head' : net'[r] > 0, Applied(c)'
  PROVE  Grown'
  <1>1. mgShapes /\ Grown
    BY DEF SchemaInv
  <1>2. ASSUME NEW d \in Operators \ {c} PROVE Applied(d)'
    <2>1. command[d] # NoCommand => command[d] \in mgOrders
      BY <1>1 DEF mgShapes
    <2>2. Applied(d)
      BY <1>1 DEF Grown
    <2>3. QED BY <1>1, <2>1, <2>2, AppliedStays
  <1>3. QED BY <1>2 DEF Grown

LEMMA MigrateKeeps ==
  ASSUME SchemaInv, NEW c \in Operators, MigrateRevision(c)
  PROVE  SchemaInv'
  <1> DEFINE j == [command[c] EXCEPT !.at = "head"]
             cur == Current(c)
  <1>1. mgShapes /\ command[c].at = "migrate" /\ UNCHANGED <<files, head, history, asked, cut, spent>>
    BY DEF SchemaInv, MigrateRevision
  <1>2. net' = [net EXCEPT ![cur] = @ + IF Upwards(c) THEN 1 ELSE -1] /\ CommandIs(c, j)
    BY DEF MigrateRevision, Upwards, CommandGoes
  <1>3. /\ command[c] \in mgOrders /\ command[c] # NoCommand
        /\ cur \in Revisions /\ cur \in Int /\ cur > 0
        /\ j \in mgOrders /\ j.at = "head" /\ j.op = command[c].op /\ At(j) = cur
    BY <1>1, Goes
  <1> HIDE DEF j, cur
  <1>4. command'[c] = j /\ Current(c)' = cur /\ command' \in [Operators -> mgOrders \union {NoCommand}]
    BY <1>1, <1>2, <1>3, mgMoves
  <1>5. net \in [Revisions -> Int] /\ head \in Int
    <2>1. net \in [Revisions -> Int] /\ head \in 0..MaxRevisions
      BY <1>1 DEF mgShapes
    <2>2. QED BY <2>1
  <1>6. /\ net' \in [Revisions -> Int]
        /\ net'[cur] = net[cur] + IF Upwards(c) THEN 1 ELSE -1
        /\ \A r \in Revisions \ {cur} : net'[r] = net[r]
    BY <1>2, <1>3, <1>5
  <1>7. mgShapes'
    BY <1>1, <1>4, <1>6 DEF mgShapes
  <1>8. ASSUME "downgrade" \notin asked PROVE Grown'
    <2>1. Grown /\ Applied(c)
      BY <1>8 DEF SchemaInv, Grown
    <2>2. Upwards(c)
      BY <1>3, <2>1 DEF Applied, Upwards
    <2>3. \A r \in Revisions : net[r] >= 0 /\ net[r] \in Int
      BY <1>5, <1>8, <2>1 DEF Grown
    <2>4. \A r \in Revisions : net'[r] >= 0 /\ (net[r] > 0 => net'[r] > 0)
      BY <1>3, <1>6, <2>2, <2>3
    <2>5. net'[cur] > 0
      BY <1>3, <1>6, <2>2, <2>3
    <2>6. Applied(c)'
      <3>1. SUFFICES ASSUME NEW r \in 1..cur PROVE net'[r] > 0
        BY <1>3, <1>4, <2>2 DEF Applied, Upwards
      <3>2. r \in Revisions
        BY <1>3, MigrationAssumption DEF Revisions
      <3>3. CASE r = cur
        BY <2>5, <3>3
      <3>4. CASE r < cur
        <4>1. net[r] > 0
          BY <1>1, <1>3, <2>1, <3>4 DEF Applied, cur
        <4>2. QED BY <2>4, <3>2, <4>1
      <3>5. QED BY <1>3, <3>3, <3>4
    <2>7. \A r \in 1..head' : net'[r] > 0
      <3>1. \A r \in 1..head : r \in Revisions
        <4>1. head \in 0..MaxRevisions
          BY <1>1 DEF mgShapes
        <4>2. QED BY <4>1, MigrationAssumption DEF Revisions
      <3>2. QED BY <1>1, <1>8, <2>1, <2>4, <3>1 DEF Grown
    <2>8. QED BY <1>2, <1>3, <1>8, <2>4, <2>6, <2>7, GrownStays
  <1>9. ASSUME asked \subseteq {"downgrade"} PROVE mgInTurn'
    <2>1. Alone(c) /\ AtHead(c) /\ Exact /\ mgRecorded
      BY <1>3, <1>9, TurnOf
    <2>2. HalfWay = {} /\ HalfWay' = {cur}
      BY <1>1, <1>2, <1>3, <2>1, OnlyOne
    <2>3. cur = IF Upwards(c) THEN head + 1 ELSE head
      BY <1>1, <1>3, <2>1 DEF AtHead, cur
    <2>4. cur \notin cut => net[cur] = IF cur <= head THEN 1 ELSE 0
      BY <1>3, <2>1, <2>2 DEF Exact
    <2>5. cur \notin cut => net'[cur] = IF Upwards(c) THEN 1 ELSE 0
      BY <1>3, <1>5, <1>6, <2>3, <2>4
    <2>6. Upwards(c)' <=> Upwards(c)
      BY <1>3, <1>4 DEF Upwards
    <2>7. AtHead(c)'
      BY <1>1, <1>3, <1>4, <2>3, <2>5, <2>6 DEF AtHead
    <2>8. Exact'
      BY <1>1, <1>6, <2>1, <2>2 DEF Exact
    <2>9. mgRecorded'
      <3>1. \A d \in Operators : command[d].at \notin {"read", "history"}
        BY <1>1, <2>1 DEF Alone, NoCommand
      <3>2. QED BY <1>1, <2>1, <3>1 DEF mgRecorded, mgEnds
    <2>10. QED BY <1>1, <1>2, <1>3, <2>1, <2>7, <2>8, <2>9, InTurnStays
  <1>10. QED BY <1>1, <1>7, <1>8, <1>9 DEF SchemaInv, Grown, mgInTurn

LEMMA HeadKeeps ==
  ASSUME SchemaInv, NEW c \in Operators, SetHead(c)
  PROVE  SchemaInv'
  <1> DEFINE j == [command[c] EXCEPT !.at = "read"]
             cur == Current(c)
  <1>1. mgShapes /\ command[c].at = "head" /\ UNCHANGED <<files, history, net, asked, cut, spent>>
    BY DEF SchemaInv, SetHead
  <1>2. head' = (IF Upwards(c) THEN cur ELSE cur - 1) /\ CommandIs(c, j)
    BY DEF SetHead, Upwards, CommandGoes
  <1>3. /\ command[c] \in mgOrders /\ command[c] # NoCommand
        /\ cur \in Revisions /\ cur \in Int /\ cur > 0
        /\ j \in mgOrders /\ j.at = "read" /\ j.op = command[c].op /\ At(j) = cur
    BY <1>1, Goes
  <1> HIDE DEF j, cur
  <1>4. command'[c] = j /\ Current(c)' = cur /\ command' \in [Operators -> mgOrders \union {NoCommand}]
    BY <1>1, <1>2, <1>3, mgMoves
  <1>5. head' \in 0..MaxRevisions /\ head' \in Int
    BY <1>2, <1>3, MigrationAssumption DEF Revisions
  <1>6. mgShapes'
    BY <1>1, <1>4, <1>5 DEF mgShapes
  <1>7. ASSUME "downgrade" \notin asked PROVE Grown'
    <2>1. Grown /\ Applied(c)
      BY <1>7 DEF SchemaInv, Grown
    <2>2. Upwards(c) /\ \A r \in 1..cur : net[r] > 0
      BY <1>1, <1>3, <2>1 DEF Applied, Upwards, cur
    <2>3. Applied(c)'
      BY <1>1, <1>3, <1>4, <2>2 DEF Applied, Upwards
    <2>4. \A r \in 1..head' : net'[r] > 0
      BY <1>1, <1>2, <2>2
    <2>5. \A r \in Revisions : net'[r] >= 0
      BY <1>1, <1>7, <2>1 DEF Grown
    <2>6. QED BY <1>1, <1>2, <1>3, <1>7, <2>3, <2>4, <2>5, GrownStays
  <1>8. ASSUME asked \subseteq {"downgrade"} PROVE mgInTurn'
    <2>1. Alone(c) /\ AtHead(c) /\ Exact
      BY <1>3, <1>8, TurnOf
    <2>2. HalfWay = {cur} /\ HalfWay' = {}
      BY <1>1, <1>2, <1>3, <2>1, OnlyOne DEF cur
    <2>3. /\ cur = IF Upwards(c) THEN head + 1 ELSE head
          /\ cur \notin cut => net[cur] = IF Upwards(c) THEN 1 ELSE 0
      BY <1>1, <1>3, <2>1 DEF AtHead, cur
    <2>4. Upwards(c)' <=> Upwards(c)
      BY <1>3, <1>4 DEF Upwards
    <2>5. AtHead(c)'
      <3>1. cur = IF Upwards(c) THEN head' ELSE head' + 1
        BY <1>2, <1>3
      <3>2. QED BY <1>3, <1>4, <2>4, <3>1 DEF AtHead
    <2>6. Exact'
      <3>1. SUFFICES ASSUME NEW r \in Revisions \ cut PROVE net[r] = IF r <= head' THEN 1 ELSE 0
        BY <1>1, <2>2 DEF Exact
      <3>2. r \in Int /\ head \in Int
        <4>1. head \in 0..MaxRevisions
          BY <1>1 DEF mgShapes
        <4>2. QED BY <4>1, MigrationAssumption DEF Revisions
      <3>3. CASE r = cur
        BY <1>2, <1>3, <2>3, <3>1, <3>3
      <3>4. CASE r # cur
        <4>1. net[r] = IF r <= head THEN 1 ELSE 0
          BY <2>1, <2>2, <3>1, <3>4 DEF Exact
        <4>2. r <= head <=> r <= head'
          BY <1>2, <1>3, <2>3, <3>2, <3>4
        <4>3. QED BY <4>1, <4>2
      <3>5. QED BY <3>3, <3>4
    <2>7. mgRecorded'
      BY <1>3, <1>4 DEF mgRecorded
    <2>8. QED BY <1>1, <1>2, <1>3, <2>1, <2>5, <2>6, <2>7, InTurnStays
  <1>9. QED BY <1>1, <1>6, <1>7, <1>8 DEF SchemaInv, Grown, mgInTurn

LEMMA ReadKeeps ==
  ASSUME SchemaInv, NEW c \in Operators, ReadHistory(c)
  PROVE  SchemaInv'
  <1> DEFINE j == [command[c] EXCEPT !.at = "history", !.read = history]
             cur == Current(c)
  <1>1. mgShapes /\ command[c].at = "read" /\ UNCHANGED <<files, head, history, net, asked, cut, spent>>
    BY DEF SchemaInv, ReadHistory
  <1>2. CommandIs(c, j)
    BY DEF ReadHistory
  <1>3. /\ command[c] \in mgOrders /\ command[c] # NoCommand
        /\ cur \in Revisions /\ cur \in Int /\ cur > 0
        /\ j \in mgOrders /\ j.at = "history" /\ j.op = command[c].op /\ At(j) = cur
    <2>1. /\ command[c] \in mgOrders /\ command[c] # NoCommand
          /\ cur \in Revisions /\ cur \in Int /\ cur > 0
      BY <1>1, Goes
    <2>2. history \in Seq(Entry)
      BY <1>1 DEF mgShapes
    <2>3. j \in mgOrders /\ j.at = "history" /\ j.op = command[c].op /\ j.todo = command[c].todo
      BY <2>1, <2>2 DEF mgOrders
    <2>4. At(j) = cur
      BY <2>3 DEF At, Current
    <2>5. QED BY <2>1, <2>3, <2>4
  <1> HIDE DEF j, cur
  <1>4. command'[c] = j /\ Current(c)' = cur /\ command' \in [Operators -> mgOrders \union {NoCommand}]
    BY <1>1, <1>2, <1>3, mgMoves
  <1>5. mgShapes'
    BY <1>1, <1>4 DEF mgShapes
  <1>6. ASSUME "downgrade" \notin asked PROVE Grown'
    <2>1. Grown /\ Applied(c)
      BY <1>6 DEF SchemaInv, Grown
    <2>2. Applied(c)'
      BY <1>1, <1>3, <1>4, <2>1 DEF Applied, cur
    <2>3. (\A r \in Revisions : net'[r] >= 0) /\ \A r \in 1..head' : net'[r] > 0
      BY <1>1, <1>6, <2>1 DEF Grown
    <2>4. QED BY <1>1, <1>2, <1>3, <1>6, <2>2, <2>3, GrownStays
  <1>7. ASSUME asked \subseteq {"downgrade"} PROVE mgInTurn'
    <2>1. Alone(c) /\ AtHead(c) /\ Exact
      BY <1>3, <1>7, TurnOf
    <2>2. HalfWay = {} /\ HalfWay' = {}
      BY <1>1, <1>2, <1>3, <2>1, OnlyOne
    <2>3. AtHead(c)'
      BY <1>1, <1>3, <1>4, <2>1 DEF AtHead, Upwards, cur
    <2>4. Exact' /\ mgRecorded'
      BY <1>1, <1>3, <1>4, <2>1, <2>2 DEF Exact, mgRecorded
    <2>5. QED BY <1>1, <1>2, <1>3, <2>1, <2>3, <2>4, InTurnStays
  <1>8. QED BY <1>1, <1>5, <1>6, <1>7 DEF SchemaInv, Grown, mgInTurn

LEMMA RecordKeeps ==
  ASSUME SchemaInv, NEW c \in Operators, AddToHistory(c)
  PROVE  SchemaInv'
  <1> DEFINE cur == Current(c)
             left == command[c].todo \ {cur}
             next == [command[c] EXCEPT !.at = "migrate", !.todo = left, !.read = <<>>]
             j == IF left = {} THEN NoCommand ELSE next
             entry == [revision |-> cur, action |-> command[c].op]
  <1>1. mgShapes /\ command[c].at = "history" /\ UNCHANGED <<files, head, net, asked, cut, spent>>
    BY DEF SchemaInv, AddToHistory
  <1>2. CommandIs(c, j) /\ history' = Append(command[c].read, entry)
    BY DEF AddToHistory
  <1>3. /\ command[c] \in mgOrders /\ command[c] # NoCommand
        /\ cur \in Revisions /\ cur \in Int /\ cur > 0
    BY <1>1, Goes
  <1>4. command[c].todo \in Chains /\ command[c].op \in Ways /\ command[c].read \in Seq(Entry)
    BY <1>3 DEF mgOrders
  <1>5. left # {} =>
          /\ left \in Chains
          /\ Upwards(c) => Min(left) = cur + 1
          /\ ~Upwards(c) => Max(left) = cur - 1
    <2>1. CASE Upwards(c)
      BY <1>4, <2>1, TakeLow DEF Upwards, Current
    <2>2. CASE ~Upwards(c)
      BY <1>4, <2>2, TakeHigh DEF Upwards, Current
    <2>3. QED BY <2>1, <2>2
  <1>6. ASSUME left # {}
        PROVE  /\ next \in mgOrders /\ next # NoCommand /\ next.at = "migrate" /\ next.op = command[c].op
               /\ At(next) = IF Upwards(c) THEN cur + 1 ELSE cur - 1
    <2> HIDE DEF left
    <2>1. next \in mgOrders /\ next.at = "migrate" /\ next.op = command[c].op /\ next.todo = left
      <3>1. command[c] \in mgOrders /\ left \in Chains /\ <<>> \in Seq(Entry)
        BY <1>3, <1>5, <1>6
      <3>2. QED BY <3>1 DEF mgOrders
    <2>2. QED BY <1>5, <1>6, <2>1, mgIdle DEF At, Upwards
  <1>7. entry \in Entry /\ entry.revision = cur /\ entry.action = command[c].op
    BY <1>3, <1>4 DEF Entry
  <1> HIDE DEF entry, next, left, cur
  <1>8. /\ j \in mgOrders \union {NoCommand} /\ j.at \in {"idle", "migrate"}
        /\ j # NoCommand => /\ j.op = command[c].op /\ j.at = "migrate"
                            /\ At(j) = IF Upwards(c) THEN cur + 1 ELSE cur - 1
    BY <1>6 DEF NoCommand
  <1> HIDE DEF j
  <1>9. command'[c] = j /\ Current(c)' = At(j) /\ command' \in [Operators -> mgOrders \union {NoCommand}]
    BY <1>1, <1>2, <1>8, mgMoves
  <1>10. history' \in Seq(Entry) /\ history' # <<>> /\ Last(history') = entry
    BY <1>2, <1>4, <1>7 DEF Last
  <1>11. mgShapes'
    BY <1>1, <1>9, <1>10 DEF mgShapes
  <1>12. ASSUME "downgrade" \notin asked PROVE Grown'
    <2>1. Grown /\ Applied(c)
      BY <1>12 DEF SchemaInv, Grown
    <2>2. Upwards(c) /\ \A r \in 1..cur : net[r] > 0
      BY <1>1, <1>3, <2>1 DEF Applied, Upwards, cur
    <2>3. Applied(c)'
      <3>1. SUFFICES ASSUME j # NoCommand PROVE Applied(c)'
        BY <1>9 DEF Applied
      <3>2. At(j) = cur + 1 /\ j.op = "upgrade" /\ j.at = "migrate"
        BY <1>8, <2>2, <3>1 DEF Upwards
      <3>3. QED BY <1>1, <1>3, <1>9, <2>2, <3>2 DEF Applied
    <2>4. (\A r \in Revisions : net'[r] >= 0) /\ \A r \in 1..head' : net'[r] > 0
      BY <1>1, <1>12, <2>1 DEF Grown
    <2>5. QED BY <1>1, <1>2, <1>8, <1>12, <2>3, <2>4, GrownStays
  <1>13. ASSUME asked \subseteq {"downgrade"} PROVE mgInTurn'
    <2>1. Alone(c) /\ AtHead(c) /\ Exact
      BY <1>3, <1>13, TurnOf
    <2>2. HalfWay = {} /\ HalfWay' = {}
      BY <1>1, <1>2, <1>8, <2>1, OnlyOne
    <2>3. cur = IF Upwards(c) THEN head ELSE head + 1
      BY <1>1, <1>3, <2>1 DEF AtHead, cur
    <2>4. head \in Int
      <3>1. head \in 0..MaxRevisions
        BY <1>1 DEF mgShapes
      <3>2. QED BY <3>1
    <2>5. AtHead(c)'
      <3>1. SUFFICES ASSUME j # NoCommand PROVE AtHead(c)'
        BY <1>9 DEF AtHead
      <3>2. At(j) = IF Upwards(c) THEN head + 1 ELSE head
        BY <1>8, <2>3, <2>4, <3>1
      <3>3. Upwards(c)' <=> Upwards(c)
        BY <1>8, <1>9, <3>1 DEF Upwards
      <3>4. QED BY <1>1, <1>8, <1>9, <3>1, <3>2, <3>3 DEF AtHead
    <2>6. Exact'
      BY <1>1, <2>1, <2>2 DEF Exact
    <2>7. mgRecorded'
      <3>1. mgEnds(history)' = cur - IF Upwards(c) THEN 0 ELSE 1
        BY <1>7, <1>10 DEF mgEnds, Upwards
      <3>2. QED BY <1>1, <1>3, <2>3, <2>4, <3>1 DEF mgRecorded
    <2>8. QED BY <1>1, <1>2, <1>8, <2>1, <2>5, <2>6, <2>7, InTurnStays
  <1>14. QED BY <1>1, <1>11, <1>12, <1>13 DEF SchemaInv, Grown, mgInTurn

LEMMA CutKeeps ==
  ASSUME SchemaInv, NEW c \in Operators, Cut(c)
  PROVE  SchemaInv'
  <1> DEFINE cur == Current(c)
  <1>1. mgShapes /\ command[c] # NoCommand /\ UNCHANGED <<files, head, history, net, asked>>
    BY DEF SchemaInv, Cut
  <1>2. /\ CommandIs(c, NoCommand) /\ spent' = [spent EXCEPT !.cuts = @ + 1]
        /\ cut' = IF command[c].at \in {"migrate", "head"} THEN cut \union {cur} ELSE cut
    BY DEF Cut
  <1>3. cur \in Revisions
    <2>1. command[c] \in mgOrders
      BY <1>1 DEF mgShapes
    <2>2. QED BY <2>1, CurrentIs
  <1> HIDE DEF cur
  <1>4. command'[c] = NoCommand /\ command' \in [Operators -> mgOrders \union {NoCommand}]
    BY <1>1, <1>2, mgMoves
  <1>5. spent' \in [commands : Nat, cuts : Nat] /\ spent'.cuts # 0
    <2>1. spent \in [commands : Nat, cuts : Nat]
      BY <1>1 DEF mgShapes
    <2>2. QED BY <1>2, <2>1
  <1>6. mgShapes'
    <2>1. cut' \subseteq Revisions
      BY <1>1, <1>2, <1>3 DEF mgShapes
    <2>2. QED BY <1>1, <1>4, <1>5, <2>1 DEF mgShapes
  <1>7. ASSUME "downgrade" \notin asked PROVE Grown'
    <2>1. (\A r \in Revisions : net'[r] >= 0) /\ \A r \in 1..head' : net'[r] > 0
      BY <1>1, <1>7 DEF SchemaInv, Grown
    <2>2. Applied(c)'
      BY <1>4 DEF Applied
    <2>3. QED BY <1>1, <1>2, <1>7, <2>1, <2>2, GrownStays
  <1>8. ASSUME asked \subseteq {"downgrade"} PROVE mgInTurn'
    <2>1. Alone(c) /\ Exact
      BY <1>1, <1>8, TurnOf
    <2>2. HalfWay \subseteq cut' /\ HalfWay' = {}
      <3>1. NoCommand.at # "head"
        BY DEF NoCommand
      <3>2. QED BY <1>1, <1>2, <2>1, <3>1, OnlyOne DEF cur
    <2>3. AtHead(c)'
      BY <1>4 DEF AtHead
    <2>4. Exact'
      BY <1>1, <1>2, <2>1, <2>2 DEF Exact
    <2>5. mgRecorded'
      BY <1>5 DEF mgRecorded
    <2>6. QED BY <1>1, <1>2, <2>1, <2>3, <2>4, <2>5, InTurnStays
  <1>9. QED BY <1>1, <1>6, <1>7, <1>8 DEF SchemaInv, Grown, mgInTurn

-----------------------------------------------------------------------------
(* The theorem. *)

LEMMA SchemaHoldsAtFirst == mgInit => SchemaInv
  <1> SUFFICES ASSUME mgInit PROVE SchemaInv
    OBVIOUS
  <1>1. \A c \in Operators : command[c] = NoCommand
    BY DEF mgInit
  <1>2. mgShapes
    BY MigrationAssumption DEF mgInit, mgShapes
  <1>3. Grown
    BY <1>1 DEF mgInit, Grown, Applied
  <1>4. mgInTurn
    <2>1. Exact
      BY MigrationAssumption DEF mgInit, Exact, Revisions
    <2>2. mgRecorded
      BY DEF mgInit, mgRecorded, mgEnds
    <2>3. QED BY <1>1, <2>1, <2>2 DEF mgInTurn, AtHead
  <1>5. QED BY <1>2, <1>3, <1>4 DEF SchemaInv

LEMMA CreateKeeps ==
  ASSUME SchemaInv, CreateRevision
  PROVE  SchemaInv'
  <1>1. UNCHANGED <<head, history, command, net, asked, cut, spent>> /\ files' \in 0..MaxRevisions
    <2>1. files \in 0..MaxRevisions /\ files < MaxRevisions /\ files' = files + 1
      BY DEF CreateRevision, SchemaInv, mgShapes
    <2>2. files' \in 0..MaxRevisions
      BY <2>1, MigrationAssumption
    <2>3. QED BY <2>2 DEF CreateRevision
  <1>2. mgShapes'
    BY <1>1 DEF SchemaInv, mgShapes
  <1>3. Grown'
    BY <1>1 DEF SchemaInv, Grown, Applied, Current
  <1>4. mgInTurn'
    BY <1>1 DEF SchemaInv, mgInTurn, Alone, AtHead, Upwards, Current, Exact, HalfWay, mgRecorded, mgEnds
  <1>5. QED BY <1>2, <1>3, <1>4 DEF SchemaInv

LEMMA RestKeeps ==
  ASSUME SchemaInv, UNCHANGED mgVars
  PROVE  SchemaInv'
  <1>1. UNCHANGED <<files, head, history, command, net, asked, cut, spent>>
    BY DEF mgVars
  <1>2. mgShapes'
    BY <1>1 DEF SchemaInv, mgShapes
  <1>3. Grown'
    BY <1>1 DEF SchemaInv, Grown, Applied, Current
  <1>4. mgInTurn'
    BY <1>1 DEF SchemaInv, mgInTurn, Alone, AtHead, Upwards, Current, Exact, HalfWay, mgRecorded, mgEnds
  <1>5. QED BY <1>2, <1>3, <1>4 DEF SchemaInv

\* The recorded head tells what was migrated, as SchemaMatches says: whatever starts
\* at once and dies half-way, upgrades have applied each revision up to the head, and
\* commands one at a time and the right way leave exactly those applied, each once.
THEOREM HeadIsTrue == mgSpec => []SchemaMatches
  <1>1. mgInit => SchemaInv
    BY SchemaHoldsAtFirst
  <1>2. SchemaInv /\ [mgNext]_mgVars => SchemaInv'
    <2> SUFFICES ASSUME SchemaInv, [mgNext]_mgVars PROVE SchemaInv'
      OBVIOUS
    <2>1. CASE CreateRevision
      BY <2>1, CreateKeeps
    <2>2. ASSUME NEW c \in Operators, NEW known \in 0..files, NEW target \in 0..MaxRevisions,
                 UpgradeTo(c, known, target) \/ DowngradeTo(c, known, target)
          PROVE  SchemaInv'
      BY <2>2, UpgradeKeeps, DowngradeKeeps
    <2>3. ASSUME NEW c \in Operators,
                 \/ MigrateRevision(c) \/ SetHead(c) \/ ReadHistory(c)
                 \/ AddToHistory(c) \/ Cut(c)
          PROVE  SchemaInv'
      BY <2>3, MigrateKeeps, HeadKeeps, ReadKeeps, RecordKeeps, CutKeeps
    <2>4. CASE UNCHANGED mgVars
      BY <2>4, RestKeeps
    <2>5. QED BY <2>1, <2>2, <2>3, <2>4 DEF mgNext
  <1>3. SchemaInv => SchemaMatches
    BY SchemaInvIsStronger
  <1>4. QED BY <1>1, <1>2, <1>3, PTL DEF mgSpec

(***************************************************************************)
(* The settings of a plugin come through upgrades.                         *)
(***************************************************************************)
psValues == Values \union {NoValue, Default}
psDocs == [SettingKeys -> psValues]
psChores == [op : {"none", "migrate", "save", "reset"}, read : psDocs,
             key : SettingKeys \union {NoValue}, value : psValues]
psShapes ==
    /\ prefs \in psDocs /\ wish \in psDocs /\ version \in Versions
    /\ chore \in [Chores -> psChores]
    /\ \A t \in Chores : chore[t].op = "save" => chore[t].key \in SettingKeys

\* Requests that come one after the other: there is one at most, what it has
\* read is what is stored, and what was saved is in there.
InOrder ==
    /\ \A t, u \in Chores : chore[t] # Rest /\ chore[u] # Rest => t = u
    /\ \A t \in Chores : chore[t].op \in {"migrate", "save"} => chore[t].read = prefs
    /\ \A k \in SettingKeys : wish[k] # NoValue => prefs[k] = wish[k]

SavedInv == psShapes /\ (~muddled => InOrder)

LEMMA psBlank == Blank \in psDocs /\ Rest \in psChores /\ Rest.op = "none"
  BY DEF Blank, psDocs, psValues, Rest, psChores

LEMMA psDefaults == \A v \in Versions : Defaults(v) \in psDocs
  BY DEF Defaults, psDocs, psValues

LEMMA psTakes ==
  ASSUME SavedInv, NEW t \in Chores, NEW c \in psChores, Takes(t, c),
         c.op \in {"migrate", "save"} => c.read = prefs,
         c.op = "save" => c.key \in SettingKeys
  PROVE  SavedInv'
  <1>1. psShapes'
    BY DEF SavedInv, psShapes, Takes
  <1>2. ASSUME ~muddled' PROVE InOrder'
    <2>1. ~muddled /\ \A u \in Chores : chore[u] = Rest
      BY <1>2 DEF Takes, Resting
    <2>2. chore'[t] = c /\ \A u \in Chores \ {t} : chore'[u] = Rest
      BY <2>1 DEF Takes, SavedInv, psShapes
    <2>3. QED BY <2>1, <2>2, psBlank DEF SavedInv, InOrder, Takes
  <1>3. QED BY <1>1, <1>2 DEF SavedInv

LEMMA psEnds ==
  ASSUME SavedInv, NEW t \in Chores, chore' = [chore EXCEPT ![t] = Rest], chore[t] # Rest,
         UNCHANGED <<version, muddled>>, prefs' \in psDocs, wish' \in psDocs,
         ~muddled => \A k \in SettingKeys : wish'[k] # NoValue => prefs'[k] = wish'[k]
  PROVE  SavedInv'
  <1>1. chore'[t] = Rest /\ \A u \in Chores \ {t} : chore'[u] = chore[u]
    BY DEF SavedInv, psShapes
  <1>2. psShapes'
    BY <1>1, psBlank DEF SavedInv, psShapes
  <1>3. ASSUME ~muddled PROVE \A u \in Chores : chore'[u] = Rest
    BY <1>1, <1>3 DEF SavedInv, InOrder
  <1>4. QED BY <1>2, <1>3, psBlank DEF SavedInv, InOrder

LEMMA psSupported ==
  ASSUME SettingsAssumption
  PROVE  \A doc \in psDocs, v \in Versions :
           /\ Supported(doc, v) \in psDocs /\ Migrated(doc, v) \in psDocs
  BY psDefaults DEF psDocs, psValues, Supported, Migrated

LEMMA psMigrate ==
  ASSUME Required = {}, SavedInv, NEW t \in Chores, Migrate(t)
  PROVE  SavedInv'
  <1> DEFINE r == chore[t].read
  <1>1. r \in psDocs /\ prefs \in psDocs /\ wish \in psDocs /\ version \in Versions
    BY DEF SavedInv, psShapes, psChores
  <1>2. chore[t] # Rest
    BY psBlank DEF Migrate
  <1>3. \/ prefs' = prefs /\ Migrated(r, version) = r
        \/ prefs' = Migrated(r, version)
    BY DEF Migrate
  <1>4. prefs' \in psDocs
    BY <1>1, <1>3, psSupported, SettingsAssumption
  <1>5. wish' \in psDocs
    BY <1>1 DEF Migrate, psDocs, psValues
  <1>6. ASSUME ~muddled, NEW k \in SettingKeys, wish'[k] # NoValue
        PROVE  prefs'[k] = wish'[k]
    <2>1. r = prefs /\ (wish[k] # NoValue => prefs[k] = wish[k])
      BY <1>6 DEF SavedInv, InOrder, Migrate
    <2>2. k \in KeysOf[version] /\ Valid(Supported(r, version), version) /\ wish'[k] = wish[k]
      BY <1>6 DEF Migrate
    <2>3. r # Blank /\ r[k] # NoValue /\ r[k] = wish[k]
      BY <1>6, <2>1, <2>2 DEF Blank
    <2>4. Migrated(r, version) = Supported(r, version)
      BY <2>2, <2>3 DEF Migrated
    <2>5. Supported(r, version)[k] = r[k]
      BY <2>2, <2>3 DEF Supported
    <2>6. QED BY <1>3, <2>1, <2>2, <2>3, <2>4, <2>5
  <1>7. QED BY <1>2, <1>4, <1>5, <1>6, psEnds DEF Migrate

LEMMA psStores ==
  ASSUME SavedInv, NEW t \in Chores, StoreSaved(t) \/ StoreReset(t) \/ ChoreDies(t)
  PROVE  SavedInv'
  <1>1. chore[t] # Rest /\ chore[t] \in psChores
    BY psBlank DEF StoreSaved, StoreReset, ChoreDies, SavedInv, psShapes
  <1>2. CASE StoreSaved(t)
    <2> DEFINE c == chore[t]
    <2>1. c.read \in psDocs /\ c.key \in SettingKeys /\ c.value \in psValues
      BY <1>1, <1>2 DEF StoreSaved, SavedInv, psShapes, psChores
    <2>2. prefs' \in psDocs /\ wish' \in psDocs
      BY <1>2, <2>1 DEF StoreSaved, SavedInv, psShapes, psDocs
    <2>3. ASSUME ~muddled, NEW k \in SettingKeys, wish'[k] # NoValue
          PROVE  prefs'[k] = wish'[k]
      <3>1. c.read = prefs /\ (wish[k] # NoValue => prefs[k] = wish[k])
        BY <1>2, <2>3 DEF StoreSaved, SavedInv, InOrder
      <3>2. QED BY <1>2, <2>1, <2>3, <3>1 DEF StoreSaved, SavedInv, psShapes, psDocs
    <2>4. QED BY <1>1, <1>2, <2>2, <2>3, psEnds DEF StoreSaved
  <1>3. CASE StoreReset(t)
    <2>1. prefs' \in psDocs /\ wish' = Blank
      BY <1>1, <1>3 DEF StoreReset, psChores
    <2>2. \A k \in SettingKeys : wish'[k] = NoValue
      BY <2>1 DEF Blank
    <2>3. QED BY <1>1, <1>3, <2>1, <2>2, psBlank, psEnds DEF StoreReset
  <1>4. CASE ChoreDies(t)
    <2>1. UNCHANGED <<prefs, wish, version, muddled>> /\ chore' = [chore EXCEPT ![t] = Rest]
      BY <1>4 DEF ChoreDies
    <2>2. prefs' \in psDocs /\ wish' \in psDocs
      BY <2>1 DEF SavedInv, psShapes
    <2>3. ~muddled => \A k \in SettingKeys : wish'[k] # NoValue => prefs'[k] = wish'[k]
      BY <2>1 DEF SavedInv, InOrder
    <2>4. QED BY <1>1, <2>1, <2>2, <2>3, psEnds
  <1>5. QED BY <1>2, <1>3, <1>4

\* Switching off and upgrades, in the middle of a request or not.
LEMMA psAround ==
  ASSUME SavedInv, DeactivateSettings \/ \E v \in Versions : Upgrade(v)
  PROVE  SavedInv'
  <1>1. psShapes'
    BY psBlank DEF DeactivateSettings, Upgrade, SavedInv, psShapes
  <1>2. ASSUME ~muddled' PROVE InOrder'
    <2>1. ~muddled /\ (\A u \in Chores : chore[u] = Rest) /\ chore' = chore
      BY <1>2 DEF DeactivateSettings, Upgrade, Resting
    <2>2. \A k \in SettingKeys : wish'[k] # NoValue => prefs'[k] = wish'[k]
      BY <2>1 DEF SavedInv, InOrder, DeactivateSettings, Upgrade, Blank
    <2>3. QED BY <2>1, <2>2, psBlank DEF InOrder
  <1>3. QED BY <1>1, <1>2 DEF SavedInv

LEMMA psStart == psInit => SavedInv
  <1> SUFFICES ASSUME psInit PROVE SavedInv
    OBVIOUS
  <1>1. version \in Versions /\ prefs = Defaults(version) /\ wish = Blank
        /\ chore = [t \in Chores |-> Rest]
    BY DEF psInit
  <1>2. psShapes
    BY <1>1, psBlank, psDefaults DEF psShapes
  <1>3. InOrder
    BY <1>1, psBlank DEF InOrder, Blank
  <1>4. QED BY <1>2, <1>3 DEF SavedInv

LEMMA psStep ==
  ASSUME Required = {}, SavedInv, [psNext]_psVars
  PROVE  SavedInv'
  <1>1. ASSUME NEW t \in Chores, Visit(t) PROVE SavedInv'
    <2> DEFINE c == [Rest EXCEPT !.op = "migrate", !.read = prefs]
    <2>1. c \in psChores /\ c.op = "migrate" /\ c.read = prefs
      BY psBlank DEF psChores, Rest, SavedInv, psShapes
    <2>2. Takes(t, c)
      BY <1>1 DEF Visit
    <2> HIDE DEF c
    <2>3. QED BY <2>1, <2>2, psTakes
  <1>2. ASSUME NEW t \in Chores, Reset(t) PROVE SavedInv'
    <2> DEFINE c == [Rest EXCEPT !.op = "reset", !.read = Defaults(version)]
    <2>1. c \in psChores /\ c.op = "reset"
      BY psBlank, psDefaults DEF psChores, Rest, SavedInv, psShapes
    <2>2. Takes(t, c)
      BY <1>2 DEF Reset
    <2> HIDE DEF c
    <2>3. QED BY <2>1, <2>2, psTakes
  <1>3. ASSUME NEW t \in Chores, NEW k \in SettingKeys, NEW x \in Values, Save(t, k, x)
        PROVE  SavedInv'
    <2> DEFINE c == [op |-> "save", read |-> prefs, key |-> k, value |-> x]
    <2>1. c \in psChores /\ c.op = "save" /\ c.read = prefs /\ c.key = k
      BY DEF psChores, psValues, SavedInv, psShapes
    <2>2. Takes(t, c)
      BY <1>3 DEF Save
    <2> HIDE DEF c
    <2>3. QED BY <2>1, <2>2, psTakes
  <1>4. CASE UNCHANGED psVars
    BY <1>4 DEF psVars, SavedInv, psShapes, InOrder
  <1>5. QED BY <1>1, <1>2, <1>3, <1>4, psMigrate, psStores, psAround DEF psNext

\* A value of a setting that was saved comes through resets of others, migrations
\* and upgrades (SavedKept), as long as no version has a setting without a
\* default, whatever the versions, the settings and the values they refuse.
THEOREM SettingsComeThrough ==
  ASSUME Required = {}
  PROVE  psSpec => []SavedKept
  <1>1. SavedInv => SavedKept
    <2> SUFFICES ASSUME SavedInv, ~muddled, NEW k \in SettingKeys, wish[k] # NoValue
                 PROVE  Loaded[k] = wish[k]
      BY DEF SavedKept
    <2>1. prefs[k] = wish[k]
      BY DEF SavedInv, InOrder
    <2>2. QED BY <2>1 DEF Loaded, Blank
  <1>2. SavedInv /\ [psNext]_psVars => SavedInv'
    BY psStep
  <1>3. QED BY <1>1, <1>2, psStart, PTL DEF psSpec

(***************************************************************************)
(* The files of an agent survive a transfer.                               *)
(***************************************************************************)
\* The transfer of client k has still to take file e along.
TakenBy(k, e) ==
    LET c == client[k] IN
      \/ c.op \in {"selected", "list"} /\ e \in stored[c.with]
      \/ c.op = "download" /\ e \in c.todo /\ e \in stored[c.with]
      \/ /\ c.op \in {"download", "upload"} /\ e \in c.tmp
         /\ c.with \in Moving \/ e \in stored[c.with]

\* A file lies where no transfer will remove it, or the only transfer takes it along.
Lies(e) == \E m \in Managers : e \in stored[m] /\ Lasting(m)
Remains(e) == Lies(e) \/ \E k \in Switches : Switches = {k} /\ TakenBy(k, e)

fsRequests == [op : {"none", "loaded", "embed", "forget", "unlink"} \union Switching,
               with : Managers \union {Nothing}, to : Managers \union {Nothing},
               todo : SUBSET Entries, tmp : SUBSET Entries]
\* Every request works with a manager; a transfer has two.
fsGoes(r) ==
    /\ r.op # "none" => r.with \in Managers
    /\ r.op \in {"list", "download", "upload"} => r.to \in Managers /\ r.with # r.to
fsShapes ==
    /\ manager \in Managers /\ stored \in [Managers -> SUBSET Entries]
    /\ client \in [Clients -> fsRequests] /\ kept \subseteq Entries
    /\ \A k \in Clients : fsGoes(client[k])

FilesInv == fsShapes /\ \A e \in InFolder(kept, Agent) : Remains(e)

\* What a request becomes does not disturb the shapes.
LEMMA fsShaped ==
  ASSUME fsShapes, NEW k \in Clients, NEW r \in fsRequests, Becomes(k, r), fsGoes(r),
         manager' \in Managers, stored' \in [Managers -> SUBSET Entries], kept' \subseteq Entries
  PROVE  /\ fsShapes' /\ client'[k] = r
         /\ \A j \in Clients : j # k => client'[j] = client[j]
  <1>1. /\ client'[k] = r /\ client' \in [Clients -> fsRequests]
        /\ \A j \in Clients : j # k => client'[j] = client[j]
    BY DEF Becomes, fsShapes
  <1>2. \A j \in Clients : fsGoes(client'[j])
    BY <1>1 DEF fsShapes
  <1>3. QED BY <1>1, <1>2 DEF fsShapes, fsGoes

\* Steps of the requests of clients: what they take away is no longer kept.
LEMMA fsClient ==
  ASSUME FilesInv, NEW k \in Clients, NEW r \in fsRequests, Becomes(k, r), fsGoes(r),
         k \notin Switches, r.op \notin Switching,
         UNCHANGED manager, stored' \in [Managers -> SUBSET Entries], kept' \subseteq Entries,
         \A e \in InFolder(kept', Agent) :
           \/ \E m \in Managers : e \in stored'[m] /\ Lasting(m)
           \/ e \in kept /\ \A m \in Managers : e \in stored[m] => e \in stored'[m]
  PROVE  FilesInv'
  <1>1. /\ fsShapes' /\ client'[k] = r
        /\ \A j \in Clients : j # k => client'[j] = client[j]
    BY fsShaped DEF FilesInv, fsShapes
  <1>2. Switches' = Switches /\ \A j \in Switches : j \in Clients /\ client'[j] = client[j]
    BY <1>1 DEF Switches
  <1>3. \A m \in Managers : Lasting(m) => Lasting(m)'
    BY <1>2 DEF Lasting
  <1>4. ASSUME NEW e \in InFolder(kept', Agent) PROVE Remains(e)'
    <2>1. CASE \E m \in Managers : e \in stored'[m] /\ Lasting(m)
      BY <1>3, <2>1 DEF Remains, Lies
    <2>2. CASE e \in kept /\ \A m \in Managers : e \in stored[m] => e \in stored'[m]
      <3>1. Remains(e)
        BY <1>4, <2>2 DEF FilesInv, InFolder
      <3>2. CASE Lies(e)
        BY <1>3, <2>2, <3>2 DEF Remains, Lies
      <3>3. ASSUME NEW j \in Switches, Switches = {j}, TakenBy(j, e) PROVE Remains(e)'
        <4>1. client'[j] = client[j] /\ client[j].with \in Managers
          BY <1>2 DEF Switches, Switching, FilesInv, fsShapes, fsGoes
        <4>2. TakenBy(j, e)'
          BY <2>2, <3>3, <4>1 DEF TakenBy
        <4>3. QED BY <1>2, <3>3, <4>2 DEF Remains
      <3>4. QED BY <3>1, <3>2, <3>3 DEF Remains
    <2>3. QED BY <1>4, <2>1, <2>2
  <1>5. QED BY <1>1, <1>4 DEF FilesInv

\* A request that is not switching.
LEMMA fsPlain ==
  ASSUME FilesInv, NEW k \in Clients, client[k].op \in {"loaded", "embed", "forget", "unlink"}
  PROVE  /\ k \notin Switches /\ client[k].with \in Managers /\ client[k] \in fsRequests
         /\ manager \in Managers /\ stored \in [Managers -> SUBSET Entries]
         /\ kept \subseteq Entries
  BY DEF FilesInv, fsShapes, fsGoes, Switches, Switching

LEMMA fsSave ==
  ASSUME FilesInv, NEW k \in Clients, NEW e \in Entries, SaveFile(k, e)
  PROVE  FilesInv'
  <1> DEFINE r == [client[k] EXCEPT !.op = "embed", !.todo = {e}]
  <1>1. /\ k \notin Switches /\ client[k].with \in Managers /\ client[k] \in fsRequests
        /\ stored \in [Managers -> SUBSET Entries] /\ kept \subseteq Entries
    BY fsPlain DEF SaveFile
  <1>2. Becomes(k, r) /\ r \in fsRequests /\ r.op \notin Switching /\ fsGoes(r)
    BY <1>1 DEF SaveFile, fsRequests, Switching, fsGoes
  <1>3. /\ \A m \in Managers : stored[m] \subseteq stored'[m]
        /\ stored' \in [Managers -> SUBSET Entries] /\ e \in stored'[client[k].with]
    BY <1>1 DEF SaveFile
  <1>4. /\ kept' \subseteq Entries /\ UNCHANGED manager
        /\ \A x \in kept' : x \in kept \/ (x = e /\ Lasting(client[k].with))
    BY <1>1 DEF SaveFile
  <1> HIDE DEF r
  <1>5. QED BY <1>1, <1>2, <1>3, <1>4, fsClient DEF InFolder

LEMMA fsRemove ==
  ASSUME FilesInv, NEW k \in Clients,
         \/ \E e \in Entries : DeleteFile(k, e)
         \/ \E d \in Folders : DeleteFiles(k, d)
         \/ Unlink(k)
  PROVE  FilesInv'
  <1>1. /\ k \notin Switches /\ client[k].with \in Managers /\ client[k] \in fsRequests
        /\ stored \in [Managers -> SUBSET Entries] /\ kept \subseteq Entries
    BY fsPlain DEF DeleteFile, DeleteFiles, Unlink
  <1>2. ASSUME NEW r \in fsRequests, Becomes(k, r), fsGoes(r), r.op \notin Switching,
               NEW S \in SUBSET Entries, kept' \subseteq kept \ InFolder(S, Agent),
               UNCHANGED manager, stored' = [stored EXCEPT ![client[k].with] = @ \ S]
        PROVE  FilesInv'
    <2>1. /\ stored' \in [Managers -> SUBSET Entries]
          /\ \A m \in Managers : \A x \in stored[m] : x \notin S => x \in stored'[m]
      BY <1>1, <1>2
    <2>2. \A x \in InFolder(kept', Agent) : x \in kept /\ x \notin S
      BY <1>2 DEF InFolder
    <2>3. kept' \subseteq Entries
      BY <1>1, <1>2
    <2>4. QED BY <1>1, <1>2, <2>1, <2>2, <2>3, fsClient
  <1>3. ASSUME NEW S \in SUBSET Entries
        PROVE  LET r == [client[k] EXCEPT !.op = "forget", !.todo = S] IN
                 r \in fsRequests /\ fsGoes(r) /\ r.op \notin Switching
    BY <1>1 DEF fsRequests, fsGoes, Switching
  <1>4. ASSUME NEW e \in Entries, DeleteFile(k, e) PROVE FilesInv'
    <2> DEFINE r == [client[k] EXCEPT !.op = "forget", !.todo = {e}]
    <2>1. r \in fsRequests /\ fsGoes(r) /\ r.op \notin Switching
      BY <1>3
    <2>2. /\ Becomes(k, r) /\ kept' \subseteq kept \ InFolder({e}, Agent) /\ UNCHANGED manager
          /\ stored' = [stored EXCEPT ![client[k].with] = @ \ {e}]
      BY <1>4 DEF DeleteFile, InFolder
    <2> HIDE DEF r
    <2>3. QED BY <1>2, <2>1, <2>2
  <1>5. ASSUME NEW d \in Folders, DeleteFiles(k, d) PROVE FilesInv'
    <2> DEFINE held == stored[client[k].with]
               r == [client[k] EXCEPT !.op = "forget", !.todo = InFolder(held, d)]
    <2>1. InFolder(held, d) \in SUBSET Entries /\ InTree(held, d) \in SUBSET Entries
      BY <1>1 DEF InFolder, InTree
    <2>2. r \in fsRequests /\ fsGoes(r) /\ r.op \notin Switching
      BY <1>3, <2>1
    <2>3. kept \ InTree(kept, d) \subseteq kept \ InFolder(InTree(held, d), Agent)
      BY DEF InTree, InFolder
    <2>4. /\ Becomes(k, r) /\ kept' = kept \ InTree(kept, d) /\ UNCHANGED manager
          /\ stored' = [stored EXCEPT ![client[k].with] = @ \ InTree(held, d)]
      BY <1>5 DEF DeleteFiles
    <2> HIDE DEF r, held
    <2>5. QED BY <1>2, <2>1, <2>2, <2>3, <2>4
  <1>6. CASE Unlink(k)
    <2>1. Free \in fsRequests /\ fsGoes(Free) /\ Free.op \notin Switching
      BY DEF Free, fsRequests, fsGoes, Switching
    <2>2. client[k].todo \in SUBSET Entries
      BY <1>1 DEF fsRequests
    <2>3. /\ Becomes(k, Free) /\ kept' \subseteq kept \ InFolder(client[k].todo, Agent)
          /\ UNCHANGED manager /\ stored' = [stored EXCEPT ![client[k].with] = @ \ client[k].todo]
      BY <1>6 DEF Unlink, InFolder
    <2>4. QED BY <1>2, <2>1, <2>2, <2>3
  <1>7. QED BY <1>4, <1>5, <1>6

\* Steps that touch no file.
LEMMA fsElse ==
  ASSUME FilesInv, NEW k \in Clients,
         LoadAgent(k) \/ Embed(k) \/ Forget(k) \/ \E e \in Entries : DeleteSource(k, e)
  PROVE  FilesInv'
  <1>1. UNCHANGED <<manager, stored, kept>>
    BY DEF LoadAgent, Embed, Forget, DeleteSource
  <1>2. /\ k \notin Switches /\ client[k] \in fsRequests /\ manager \in Managers
        /\ client[k].op # "none" => client[k].with \in Managers
        /\ stored \in [Managers -> SUBSET Entries] /\ kept \subseteq Entries
    <2>1. CASE client[k].op = "none"
      BY <2>1 DEF FilesInv, fsShapes, Switches, Switching
    <2>2. CASE client[k].op \in {"loaded", "embed", "forget", "unlink"}
      BY <2>2, fsPlain
    <2>3. client[k].op \in {"none", "loaded", "embed", "forget"}
      <3>1. LoadAgent(k) => client[k].op = "none"
        BY DEF LoadAgent, Free
      <3>2. /\ Embed(k) => client[k].op = "embed"
            /\ Forget(k) => client[k].op = "forget"
            /\ (\E e \in Entries : DeleteSource(k, e)) => client[k].op = "loaded"
        BY DEF Embed, Forget, DeleteSource
      <3>3. QED BY <3>1, <3>2
    <2>4. QED BY <2>1, <2>2, <2>3
  <1>3. ASSUME NEW r \in fsRequests, Becomes(k, r), fsGoes(r), r.op \notin Switching
        PROVE  FilesInv'
    BY <1>1, <1>2, <1>3, fsClient DEF InFolder
  <1>4. CASE LoadAgent(k)
    <2> DEFINE r == [Free EXCEPT !.op = "loaded", !.with = manager]
    <2>1. r \in fsRequests /\ fsGoes(r) /\ r.op \notin Switching /\ Becomes(k, r)
      BY <1>2, <1>4 DEF LoadAgent, Free, fsRequests, fsGoes, Switching
    <2> HIDE DEF r
    <2>2. QED BY <1>3, <2>1
  <1>5. Free \in fsRequests /\ fsGoes(Free) /\ Free.op \notin Switching
    BY DEF Free, fsRequests, fsGoes, Switching
  <1>6. CASE Embed(k)
    BY <1>3, <1>5, <1>6 DEF Embed
  <1>7. CASE Forget(k)
    <2>1. CASE Becomes(k, Free)
      BY <1>3, <1>5, <2>1
    <2>2. ASSUME NEW S \in SUBSET Entries, Becomes(k, [client[k] EXCEPT !.todo = S])
          PROVE  FilesInv'
      <3> DEFINE r == [client[k] EXCEPT !.todo = S]
      <3>1. r \in fsRequests /\ fsGoes(r) /\ r.op \notin Switching
        BY <1>2, <1>7 DEF Forget, fsRequests, fsGoes, Switching
      <3>2. Becomes(k, r)
        BY <2>2
      <3> HIDE DEF r
      <3>3. QED BY <1>3, <3>1, <3>2
    <2>3. client[k].todo \in SUBSET Entries
      BY <1>2 DEF fsRequests
    <2>4. QED BY <1>7, <2>1, <2>2, <2>3 DEF Forget
  <1>8. ASSUME NEW e \in Entries, DeleteSource(k, e) PROVE FilesInv'
    <2> DEFINE r == [client[k] EXCEPT !.op = "unlink", !.todo = {e, <<Agent, e[2]>>}]
    <2>1. {e, <<Agent, e[2]>>} \in SUBSET Entries
      BY DEF Entries, Folders
    <2>2. r \in fsRequests /\ fsGoes(r) /\ r.op \notin Switching /\ Becomes(k, r)
      BY <1>2, <1>8, <2>1 DEF DeleteSource, fsRequests, fsGoes, Switching
    <2> HIDE DEF r
    <2>3. QED BY <1>3, <2>2
  <1>9. QED BY <1>4, <1>6, <1>7, <1>8

-----------------------------------------------------------------------------
(* Steps of the selection and the transfer. *)

\* The switches, after a client's step.
LEMMA fsTurns ==
  ASSUME FilesInv, NEW k \in Clients, NEW r \in fsRequests, Becomes(k, r)
  PROVE  /\ client'[k] = r /\ \A j \in Clients : j # k => client'[j] = client[j]
         /\ r.op \in Switching => Switches' = Switches \union {k}
         /\ r.op \notin Switching => Switches' = Switches \ {k}
  <1>1. client'[k] = r /\ \A j \in Clients : j # k => client'[j] = client[j]
    BY DEF Becomes, FilesInv, fsShapes
  <1>2. QED BY <1>1 DEF Switches

LEMMA fsSelect ==
  ASSUME FilesInv, NEW k \in Clients, NEW m \in Managers, SelectManager(k, m)
  PROVE  FilesInv'
  <1> DEFINE r == [client[k] EXCEPT !.op = "selected"]
  <1>1. /\ k \notin Switches /\ client[k].with \in Managers /\ client[k] \in fsRequests
        /\ stored \in [Managers -> SUBSET Entries] /\ kept \subseteq Entries
    BY fsPlain DEF SelectManager
  <1>2. /\ Becomes(k, r) /\ r \in fsRequests /\ r.op = "selected" /\ fsGoes(r)
        /\ r.with = client[k].with
    BY <1>1 DEF SelectManager, Enters, fsRequests, fsGoes, Switching
  <1>3. /\ manager' = m /\ UNCHANGED stored
        /\ kept' = IF Switches = {} THEN kept ELSE {}
    BY DEF SelectManager
  <1> HIDE DEF r
  <1>4. client'[k] = r /\ Switches' = Switches \union {k}
    BY <1>2, fsTurns DEF Switching
  <1>5. fsShapes'
    BY <1>1, <1>2, <1>3, fsShaped DEF FilesInv
  <1>6. ASSUME NEW e \in InFolder(kept', Agent) PROVE Remains(e)'
    <2>1. Switches = {} /\ e \in InFolder(kept, Agent)
      BY <1>3, <1>6 DEF InFolder
    <2>2. PICK n \in Managers : e \in stored[n]
      BY <2>1 DEF FilesInv, Remains, Lies
    <2>3. Switches' = {k}
      BY <1>4, <2>1
    <2>4. CASE n = client[k].with
      BY <1>2, <1>3, <1>4, <2>2, <2>3, <2>4 DEF Remains, TakenBy
    <2>5. CASE n # client[k].with
      BY <1>2, <1>3, <1>4, <2>2, <2>3, <2>5 DEF Remains, Lies, Lasting
    <2>6. QED BY <2>4, <2>5
  <1>7. QED BY <1>5, <1>6 DEF FilesInv

\* A step of a transfer that goes on: the same managers, and each file still remains.
LEMMA fsGoesOn ==
  ASSUME FilesInv, NEW k \in Switches, NEW r \in fsRequests, Becomes(k, r), fsGoes(r),
         r.op \in Switching, r.with = client[k].with, UNCHANGED <<manager, kept>>,
         stored' \in [Managers -> SUBSET Entries],
         \A n \in Managers : n # r.with => stored[n] \subseteq stored'[n],
         \A e \in InFolder(kept, Agent) :
           TakenBy(k, e) => \/ TakenBy(k, e)'
                            \/ \E n \in Managers : n # r.with /\ e \in stored'[n]
  PROVE  FilesInv'
  <1>1. k \in Clients
    BY DEF Switches
  <1>2. fsShapes'
    BY <1>1, fsShaped DEF FilesInv, fsShapes
  <1>3. /\ Switches' = Switches /\ client'[k] = r
        /\ \A j \in Switches : client'[j].with = client[j].with
    <2>1. /\ Switches' = Switches \union {k} /\ client'[k] = r
          /\ \A j \in Clients : j # k => client'[j] = client[j]
      BY <1>1, fsTurns
    <2>2. QED BY <2>1 DEF Switches
  <1>4. \A n \in Managers : Lasting(n) => Lasting(n)' /\ n # r.with
    BY <1>3 DEF Lasting
  <1>5. ASSUME NEW e \in InFolder(kept, Agent) PROVE Remains(e)'
    <2>1. CASE Lies(e)
      BY <1>4, <2>1 DEF Lies, Remains
    <2>2. CASE Switches = {k} /\ TakenBy(k, e)
      <3>1. \A n \in Managers : n # r.with => Lasting(n)'
        BY <1>3, <2>2 DEF Lasting
      <3>2. QED BY <1>3, <1>5, <2>2, <3>1 DEF Remains, Lies
    <2>3. QED BY <2>1, <2>2 DEF FilesInv, Remains
  <1>6. QED BY <1>2, <1>5 DEF FilesInv, InFolder

\* A step with which a transfer ends: what it holds is no longer kept, and its folder
\* is as it was or was done with.
LEMMA fsEnds ==
  ASSUME FilesInv, NEW k \in Switches, Becomes(k, Free), UNCHANGED manager, kept' \subseteq kept,
         stored' \in [Managers -> SUBSET Entries],
         \A n \in Managers : n # client[k].with => stored[n] \subseteq stored'[n],
         \A e \in InFolder(kept', Agent) : TakenBy(k, e) => e \in stored'[client[k].with]
  PROVE  FilesInv'
  <1>1. k \in Clients /\ Free \in fsRequests /\ fsGoes(Free) /\ Free.op \notin Switching
    BY DEF Switches, Free, fsRequests, fsGoes, Switching
  <1>2. fsShapes'
    BY <1>1, fsShaped DEF FilesInv, fsShapes
  <1>3. /\ Switches' = Switches \ {k}
        /\ \A j \in Switches' : client'[j].with = client[j].with
    <2>1. /\ Switches' = Switches \ {k}
          /\ \A j \in Clients : j # k => client'[j] = client[j]
      BY <1>1, fsTurns
    <2>2. QED BY <2>1 DEF Switches
  <1>4. \A n \in Managers : Lasting(n) => Lasting(n)' /\ n # client[k].with
    BY <1>3 DEF Lasting
  <1>5. client[k].with \in Managers
    BY <1>1 DEF FilesInv, fsShapes, fsGoes, Switches, Switching
  <1>6. ASSUME NEW e \in InFolder(kept', Agent) PROVE Remains(e)'
    <2>1. Remains(e)
      BY <1>6 DEF FilesInv, InFolder
    <2>2. CASE Lies(e)
      BY <1>4, <2>2 DEF Lies, Remains
    <2>3. CASE Switches = {k} /\ TakenBy(k, e)
      <3>1. PICK n \in Managers : n = client[k].with
        BY <1>5
      <3>2. Lasting(n)' /\ e \in stored'[n]
        BY <1>3, <1>6, <2>3, <3>1 DEF Lasting
      <3>3. QED BY <3>1, <3>2 DEF Remains, Lies
    <2>4. QED BY <2>1, <2>2, <2>3 DEF Remains
  <1>7. QED BY <1>2, <1>6 DEF FilesInv

\* A request in the middle of a transfer.
LEMMA fsMidway ==
  ASSUME FilesInv, NEW k \in Clients, client[k].op \in Switching
  PROVE  /\ k \in Switches /\ client[k].with \in Managers /\ client[k] \in fsRequests
         /\ client[k].op # "selected" => client[k].to \in Managers /\ client[k].with # client[k].to
         /\ manager \in Managers /\ stored \in [Managers -> SUBSET Entries]
         /\ client[k].todo \subseteq Entries /\ client[k].tmp \subseteq Entries
  BY DEF FilesInv, fsShapes, fsGoes, fsRequests, Switches, Switching

LEMMA fsBegin ==
  ASSUME FilesInv, NEW k \in Clients, StartTransfer(k) \/ ListFolder(k)
  PROVE  FilesInv'
  <1>1. /\ k \in Switches /\ client[k].with \in Managers /\ client[k] \in fsRequests
        /\ client[k].op # "selected" => client[k].to \in Managers /\ client[k].with # client[k].to
        /\ manager \in Managers /\ stored \in [Managers -> SUBSET Entries]
    BY fsMidway DEF StartTransfer, ListFolder, Switching
  <1>2. UNCHANGED <<stored, manager, kept>>
    BY DEF StartTransfer, ListFolder
  <1>3. CASE StartTransfer(k)
    <2> DEFINE r == [client[k] EXCEPT !.op = "list", !.to = manager]
    <2>1. client[k].op = "selected"
      BY <1>3 DEF StartTransfer
    <2>2. \A e : TakenBy(k, e) => e \in stored[client[k].with]
      BY <2>1 DEF TakenBy
    <2>3. CASE client[k].with = manager
      <3>1. Becomes(k, Free)
        BY <1>3, <2>3 DEF StartTransfer
      <3>2. QED BY <1>1, <1>2, <2>2, <3>1, fsEnds
    <2>4. CASE client[k].with # manager
      <3>1. Becomes(k, r) /\ r \in fsRequests /\ r.op = "list" /\ fsGoes(r) /\ r.with = client[k].with
        BY <1>1, <1>3, <2>4 DEF StartTransfer, fsRequests, fsGoes, Switching
      <3> HIDE DEF r
      <3>2. client'[k] = r
        BY <3>1, fsTurns
      <3>3. \A e : TakenBy(k, e) => TakenBy(k, e)'
        BY <1>2, <2>2, <3>1, <3>2 DEF TakenBy
      <3>4. QED BY <1>1, <1>2, <3>1, <3>3, fsGoesOn DEF Switching
    <2>5. QED BY <2>3, <2>4
  <1>4. CASE ListFolder(k)
    <2> DEFINE S == InFolder(stored[client[k].with], Agent)
               r == [client[k] EXCEPT !.op = "download", !.todo = S]
    <2>1. S \in SUBSET Entries /\ \A e \in InFolder(kept, Agent) : e \in stored[client[k].with] => e \in S
      BY <1>1 DEF InFolder
    <2> HIDE DEF S
    <2>2. /\ Becomes(k, r) /\ client[k].op = "list"
      BY <1>4 DEF ListFolder, S
    <2>3. /\ r \in fsRequests /\ r.op = "download" /\ fsGoes(r) /\ r.with = client[k].with
          /\ r.todo = S
      BY <1>1, <2>1, <2>2 DEF fsRequests, fsGoes, Switching
    <2> HIDE DEF r
    <2>4. client'[k] = r
      BY <2>2, <2>3, fsTurns
    <2>5. \A e \in InFolder(kept, Agent) : TakenBy(k, e) => TakenBy(k, e)'
      BY <1>2, <2>1, <2>2, <2>3, <2>4 DEF TakenBy
    <2>6. QED BY <1>1, <1>2, <2>2, <2>3, <2>5, fsGoesOn DEF Switching
  <1>5. QED BY <1>3, <1>4

LEMMA fsDownload ==
  ASSUME FilesInv, NEW k \in Clients, NEW d \in Entries, Download(k, d)
  PROVE  FilesInv'
  <1> DEFINE r == [client[k] EXCEPT !.todo = @ \ {d}, !.tmp = @ \union {d}]
  <1>1. /\ k \in Switches /\ client[k].with \in Managers /\ client[k] \in fsRequests
        /\ client[k].op # "selected" => client[k].to \in Managers /\ client[k].with # client[k].to
        /\ stored \in [Managers -> SUBSET Entries]
    BY fsMidway DEF Download, Switching
  <1>2. Becomes(k, r) /\ client[k].op = "download" /\ d \in client[k].todo /\ d \in stored[client[k].with]
    BY DEF Download
  <1>3. /\ r \in fsRequests /\ r.op = "download" /\ fsGoes(r) /\ r.with = client[k].with
        /\ r.todo = client[k].todo \ {d} /\ r.tmp = client[k].tmp \union {d}
    BY <1>1, <1>2 DEF fsRequests, fsGoes, Switching
  <1> HIDE DEF r
  <1>4. client'[k] = r
    BY <1>2, <1>3, fsTurns
  <1>5. /\ UNCHANGED <<manager, kept>> /\ stored' \in [Managers -> SUBSET Entries]
        /\ \A n \in Managers : n # r.with => stored[n] = stored'[n]
        /\ \A e \in stored[r.with] : e # d \/ r.with \notin Moving => e \in stored'[r.with]
    BY <1>1, <1>3 DEF Download
  <1>6. ASSUME NEW e, TakenBy(k, e) PROVE TakenBy(k, e)'
    <2>1. CASE e = d
      BY <1>2, <1>3, <1>4, <1>5, <2>1 DEF TakenBy
    <2>2. CASE e # d
      BY <1>2, <1>3, <1>4, <1>5, <1>6, <2>2 DEF TakenBy
    <2>3. QED BY <2>1, <2>2
  <1>7. QED BY <1>1, <1>2, <1>3, <1>5, <1>6, fsGoesOn DEF Switching

LEMMA fsUpload ==
  ASSUME FilesInv, NEW k \in Clients, UploadFiles(k) \/ \E u \in Entries : UploadNext(k, u)
  PROVE  FilesInv'
  <1>1. /\ k \in Switches /\ client[k].with \in Managers /\ client[k] \in fsRequests
        /\ client[k].op # "selected" => client[k].to \in Managers /\ client[k].with # client[k].to
        /\ stored \in [Managers -> SUBSET Entries]
    BY fsMidway DEF UploadFiles, UploadNext, Switching
  <1>2. CASE UploadFiles(k)
    <2> DEFINE r == [client[k] EXCEPT !.op = "upload"]
    <2>1. /\ Becomes(k, r) /\ client[k].op = "download" /\ client[k].todo = {}
          /\ UNCHANGED <<manager, kept, stored>>
      BY <1>2 DEF UploadFiles, Enters
    <2>2. /\ r \in fsRequests /\ r.op = "upload" /\ fsGoes(r) /\ r.with = client[k].with
          /\ r.tmp = client[k].tmp
      BY <1>1, <2>1 DEF fsRequests, fsGoes, Switching
    <2> HIDE DEF r
    <2>3. client'[k] = r
      BY <2>1, <2>2, fsTurns
    <2>4. \A e : TakenBy(k, e) => TakenBy(k, e)'
      BY <2>1, <2>2, <2>3 DEF TakenBy
    <2>5. QED BY <1>1, <2>1, <2>2, <2>4, fsGoesOn DEF Switching
  <1>3. ASSUME NEW u \in Entries, UploadNext(k, u) PROVE FilesInv'
    <2> DEFINE r == [client[k] EXCEPT !.tmp = @ \ {u}]
    <2>1. Becomes(k, r) /\ client[k].op = "upload" /\ UNCHANGED <<manager, kept>>
      BY <1>3 DEF UploadNext
    <2>2. /\ r \in fsRequests /\ r.op = "upload" /\ fsGoes(r) /\ r.with = client[k].with
          /\ r.tmp = client[k].tmp \ {u}
      BY <1>1, <2>1 DEF fsRequests, fsGoes, Switching
    <2> HIDE DEF r
    <2>3. client'[k] = r
      BY <2>1, <2>2, fsTurns
    <2>4. /\ stored' \in [Managers -> SUBSET Entries] /\ u \in stored'[client[k].to]
          /\ \A n \in Managers : stored[n] \subseteq stored'[n]
          /\ client[k].to \in Managers /\ client[k].to # r.with
      BY <1>1, <1>3, <2>1, <2>2 DEF UploadNext
    <2>5. ASSUME NEW e, TakenBy(k, e) PROVE TakenBy(k, e)' \/ e = u
      BY <1>1, <2>1, <2>2, <2>3, <2>4, <2>5 DEF TakenBy
    <2>6. QED BY <1>1, <2>1, <2>2, <2>4, <2>5, fsGoesOn DEF Switching
  <1>4. QED BY <1>2, <1>3

LEMMA fsDone ==
  ASSUME FilesInv, NEW k \in Clients, RemoveFolder(k) \/ Abort(k)
  PROVE  FilesInv'
  <1>1. CASE RemoveFolder(k)
    <2>1. /\ k \in Switches /\ client[k].with \in Managers
          /\ stored \in [Managers -> SUBSET Entries]
      BY <1>1, fsMidway DEF RemoveFolder, Switching
    <2>2. /\ Becomes(k, Free) /\ UNCHANGED <<manager, kept>>
          /\ stored' \in [Managers -> SUBSET Entries]
          /\ \A n \in Managers : n # client[k].with => stored[n] = stored'[n]
      BY <1>1, <2>1 DEF RemoveFolder
    <2>3. \A e : ~TakenBy(k, e)
      BY <1>1 DEF RemoveFolder, TakenBy
    <2>4. QED BY <2>1, <2>2, <2>3, fsEnds
  <1>2. CASE Abort(k)
    <2>1. k \in Switches /\ client[k].with \in Managers /\ stored \in [Managers -> SUBSET Entries]
      BY <1>2, fsMidway DEF Abort, Switches
    <2>2. /\ Becomes(k, Free) /\ UNCHANGED <<manager, stored>> /\ kept' \subseteq kept
          /\ client[k].with \in Moving => kept' = kept \ client[k].tmp
      BY <1>2 DEF Abort
    <2>3. \A e \in kept' : TakenBy(k, e) => e \in stored[client[k].with]
      BY <2>2 DEF TakenBy
    <2>4. QED BY <2>1, <2>2, <2>3, fsEnds DEF InFolder
  <1>3. QED BY <1>1, <1>2

LEMMA fsStart == fsInit => FilesInv
  <1> SUFFICES ASSUME fsInit PROVE FilesInv
    OBVIOUS
  <1>1. PICK S \in SUBSET Entries :
           stored = [m \in Managers |-> IF m = manager THEN S ELSE {}] /\ kept = S
    BY DEF fsInit
  <1>2. manager \in Managers /\ client = [k \in Clients |-> Free]
    BY DEF fsInit
  <1>3. fsShapes
    BY <1>1, <1>2 DEF fsShapes, fsGoes, fsRequests, Free
  <1>4. Switches = {} /\ stored[manager] = kept
    BY <1>1, <1>2 DEF Switches, Free, Switching
  <1>5. QED BY <1>2, <1>3, <1>4 DEF FilesInv, Remains, Lies, Lasting, InFolder

LEMMA fsStep ==
  ASSUME FilesInv, [fsNext]_fsVars
  PROVE  FilesInv'
  <1>1. CASE UNCHANGED fsVars
    BY <1>1 DEF fsVars, FilesInv, fsShapes, fsGoes, Remains, Lies, Lasting, Switches, TakenBy
  <1>2. QED
    BY <1>1, fsSave, fsRemove, fsElse, fsSelect, fsBegin, fsDownload, fsUpload, fsDone DEF fsNext

\* A file of the agent's own folder that was saved where no transfer was to empty
\* its manager, and not deleted, is in one of the managers, or on its way between two
\* (FilesKept), however many transfers run, whichever managers move or copy and
\* whatever fails: what a selection during another's transfer, or a failed transfer
\* of a manager that moves, puts at risk is left out.
THEOREM FilesStay == fsSpec => []FilesKept
  <1>1. FilesInv => FilesKept
    <2> SUFFICES ASSUME FilesInv, NEW e \in InFolder(kept, Agent)
                 PROVE  e \in Somewhere \union OnTheWay
      BY DEF FilesKept
    <2>1. CASE Lies(e)
      BY <2>1 DEF Lies, Somewhere
    <2>2. ASSUME NEW k \in Switches, TakenBy(k, e) PROVE e \in Somewhere \union OnTheWay
      <3>1. client[k].with \in Managers
        BY DEF FilesInv, fsShapes, fsGoes, Switches, Switching
      <3>2. e \in stored[client[k].with] \/ (client[k].with \in Moving /\ e \in client[k].tmp)
        BY <2>2 DEF TakenBy
      <3>3. QED BY <3>1, <3>2 DEF Somewhere, OnTheWay
    <2>3. QED BY <2>1, <2>2 DEF FilesInv, Remains
  <1>2. QED BY <1>1, fsStart, fsStep, PTL DEF fsSpec

(***************************************************************************)
(* The procedures of an agent are those it offers, once.                   *)
(***************************************************************************)
scRuns == [op : {"none", "job", "toggle", "embed"},
           at : {"idle", "lock", "next", "purge", "collect", "clear", "add"},
           on : Replicas \union {Nil}, agent : Cats \union {Nil}, todo : SUBSET Cats,
           tools : SUBSET Tools]
scBatches == [batch : Nat, tools : SUBSET Tools]
scCounts == [batches : Nat, dues : Nat, changes : Nat, halts : Nat]
scShapes ==
    /\ run \in [Runs -> scRuns] /\ offered \in [Cats -> SUBSET Tools]
    /\ shelf \in [Cats -> SUBSET scBatches]
    /\ counts \in scCounts /\ lock \in Runs \union {Nil}

\* What a run works on, and what a lock guards.
scPlaced(x) ==
    LET r == run[x] IN
    /\ r.op = "none" => r.at = "idle" /\ r.agent = Nil
    /\ r.op = "job" => /\ r.at \in {"lock", "next", "collect", "clear", "add"}
                       /\ r.agent = Nil <=> r.at \in {"lock", "next"}
    /\ r.op = "toggle" => r.at \in {"purge", "collect", "clear", "add"} /\ r.agent # Nil
    /\ r.op = "embed" => r.at \in {"collect", "clear", "add"} /\ r.agent # Nil
    /\ r.agent = Nil => x \notin met
    /\ Holds(x) /\ ~lapsed => lock = x

scOn(x, a) == run[x].agent = a
scMatch(a) == \/ shelf[a] = {} /\ offered[a] = {}
              \/ \E b \in shelf[a] : shelf[a] = {b} /\ b.tools = offered[a]
scSingle(a) == shelf[a] = {} \/ \E b \in shelf[a] : shelf[a] = {b}
\* What a run that is alone has taken away.
scBare(x, a) ==
    run[x].at = "add" \/ (run[x].op = "toggle" /\ run[x].at # "purge") => shelf[a] = {}
\* What is on the shelf while x works on an agent that is in step.
scStage(x, a) ==
    /\ run[x].at \in {"clear", "add"} => run[x].tools = offered[a]
    /\ run[x].op # "toggle" /\ run[x].at \in {"collect", "clear"} => scMatch(a)
    /\ scSingle(a)
scWell(a) ==
    /\ \A x \in Runs : scOn(x, a) /\ x \notin met =>
         scBare(x, a) /\ \A y \in Runs : scOn(y, a) => y = x
    /\ \A x \in Runs : scOn(x, a) /\ x \in met => a \in outOfStep
    /\ a \notin outOfStep => \A x \in Runs : scOn(x, a) => scStage(x, a)
    /\ a \notin outOfStep /\ (\A x \in Runs : ~scOn(x, a)) => scMatch(a)

ToolsInv == /\ scShapes /\ \A x \in Runs : scPlaced(x)
            /\ ~lapsed => \A a \in Cats : scWell(a)

\* Steps that store nothing: an agent they disturb is out of step.
LEMMA scQuiet ==
  ASSUME ToolsInv, scShapes', \A x \in Runs : scPlaced(x)', lapsed => lapsed',
         \A x \in Runs : \/ run'[x] = run[x] /\ (x \in met' <=> x \in met)
                         \/ run'[x].agent = Nil /\ run[x].agent \in outOfStep' \union {Nil},
         \A a \in Cats : a \in outOfStep => a \in outOfStep',
         \A a \in Cats : \/ shelf'[a] = shelf[a]
                         \/ shelf'[a] = {} /\ a \in outOfStep',
         \A a \in Cats : offered'[a] = offered[a] \/ a \in outOfStep'
  PROVE  ToolsInv'
  <1>1. ASSUME ~lapsed', NEW a \in Cats PROVE scWell(a)'
    <2>1. scWell(a) /\ a # Nil
      BY <1>1, SchedulerAssumption DEF ToolsInv
    <2>2. \A x \in Runs : scOn(x, a)' => scOn(x, a) /\ run'[x] = run[x] /\ (x \in met' <=> x \in met)
      BY <2>1 DEF scOn
    <2>3. \A x \in Runs : scOn(x, a)' /\ x \notin met' =>
            scBare(x, a)' /\ \A y \in Runs : scOn(y, a)' => y = x
      BY <2>1, <2>2 DEF scWell, scBare
    <2>4. \A x \in Runs : scOn(x, a)' /\ x \in met' => a \in outOfStep'
      BY <2>1, <2>2 DEF scWell
    <2>5. ASSUME a \notin outOfStep' PROVE scMatch(a)' <=> scMatch(a)
      BY <2>5 DEF scMatch
    <2>6. ASSUME a \notin outOfStep', NEW x \in Runs, scOn(x, a)' PROVE scStage(x, a)'
      <3>1. scStage(x, a) /\ run'[x] = run[x] /\ shelf'[a] = shelf[a] /\ offered'[a] = offered[a]
        BY <2>1, <2>2, <2>6 DEF scWell
      <3>2. QED BY <2>5, <2>6, <3>1 DEF scStage, scSingle
    <2>7. ASSUME a \notin outOfStep', \A x \in Runs : ~scOn(x, a)' PROVE scMatch(a)'
      <3>1. \A x \in Runs : ~scOn(x, a)
        BY <2>1, <2>7 DEF scOn
      <3>2. QED BY <2>1, <2>5, <2>7, <3>1 DEF scWell
    <2>8. QED BY <2>3, <2>4, <2>6, <2>7 DEF scWell
  <1>2. QED BY <1>1 DEF ToolsInv

\* What one run becomes.
LEMMA scSets ==
  ASSUME ToolsInv, NEW x \in Runs, NEW r \in scRuns, Sets(x, r)
  PROVE  /\ run'[x] = r /\ run' \in [Runs -> scRuns]
         /\ \A y \in Runs : y # x => run'[y] = run[y]
  BY DEF ToolsInv, scShapes, Sets

LEMMA scTyped ==
  ASSUME ToolsInv, NEW x \in Runs
  PROVE  run[x] \in scRuns /\ scPlaced(x)
  BY DEF ToolsInv, scShapes

LEMMA scEnded == /\ Ended \in scRuns /\ Ended.op = "none" /\ Ended.at = "idle"
                 /\ Ended.agent = Nil
  BY DEF Ended, scRuns

-----------------------------------------------------------------------------
(* Replicas, the job store, and what changes the procedures. *)

LEMMA scAround ==
  ASSUME ToolsInv,
         \/ \E r \in Replicas : Boot(r) \/ SeeDue(r) \/ RemoveJob(r)
         \/ \E a \in Cats, S \in SUBSET Tools : OffersChange(a, S)
         \/ ComesDue \/ DropTools \/ UNCHANGED scVars
  PROVE  ToolsInv'
  <1>1. UNCHANGED <<lock, run, met, lapsed>> /\ counts' \in scCounts
    BY DEF Boot, SeeDue, RemoveJob, ComesDue, OffersChange, DropTools, Halts, Changes, scVars,
           ToolsInv, scShapes, scCounts
  <1> DEFINE Disturbs ==
               /\ offered' \in [Cats -> SUBSET Tools] /\ shelf' \in [Cats -> SUBSET scBatches]
               /\ \A a \in Cats : a \in outOfStep => a \in outOfStep'
               /\ \A a \in Cats : shelf'[a] = shelf[a] \/ (shelf'[a] = {} /\ a \in outOfStep')
               /\ \A a \in Cats : offered'[a] = offered[a] \/ a \in outOfStep'
  <1>2. Disturbs
    <2>1. CASE DropTools
      BY <2>1 DEF DropTools, ToolsInv, scShapes
    <2>2. ASSUME NEW a \in Cats, NEW S \in SUBSET Tools, OffersChange(a, S) PROVE Disturbs
      BY <2>2 DEF OffersChange, ToolsInv, scShapes
    <2>3. ASSUME UNCHANGED <<offered, shelf, outOfStep>> PROVE Disturbs
      BY <2>3 DEF ToolsInv, scShapes
    <2>4. QED BY <2>1, <2>2, <2>3 DEF Boot, SeeDue, RemoveJob, ComesDue, scVars
  <1>3. scShapes' /\ \A x \in Runs : scPlaced(x)'
    BY <1>1, <1>2 DEF ToolsInv, scShapes, scPlaced, Holds
  <1>4. QED BY <1>1, <1>2, <1>3, scQuiet

LEMMA scSubmit ==
  ASSUME ToolsInv, NEW r \in Replicas, NEW x \in Runs, Submit(r, x)
  PROVE  ToolsInv'
  <1> DEFINE n == [Ended EXCEPT !.op = "job", !.at = "lock", !.on = r]
  <1>1. n \in scRuns /\ n.op = "job" /\ n.at = "lock" /\ n.agent = Nil
    BY scEnded DEF Ended, scRuns
  <1>2. /\ Sets(x, n) /\ run[x] = Ended
        /\ UNCHANGED <<lock, offered, shelf, outOfStep, met, lapsed, counts>>
    BY DEF Submit
  <1> HIDE DEF n
  <1>3. run'[x] = n /\ run' \in [Runs -> scRuns] /\ \A y \in Runs : y # x => run'[y] = run[y]
    BY <1>1, <1>2, scSets
  <1>4. scShapes'
    BY <1>2, <1>3 DEF ToolsInv, scShapes
  <1>5. x \notin met
    BY <1>2, scEnded DEF ToolsInv, scPlaced
  <1>6. \A y \in Runs : scPlaced(y)'
    BY <1>1, <1>2, <1>3, <1>5 DEF ToolsInv, scPlaced, Holds
  <1>7. QED BY <1>1, <1>2, <1>3, <1>4, <1>6, scEnded, scQuiet

LEMMA scHalt ==
  ASSUME ToolsInv, NEW r \in Replicas, Shutdown(r) \/ ReplicaDies(r)
  PROVE  ToolsInv'
  <1>1. EndRuns(r) /\ UNCHANGED <<lock, offered, shelf, lapsed>> /\ counts' \in scCounts
    BY DEF Shutdown, ReplicaDies, Halts, ToolsInv, scShapes, scCounts
  <1>2. /\ \A x \in Runs : run'[x] = IF run[x].on = r THEN Ended ELSE run[x]
        /\ \A x \in Runs : x \in met' <=> x \in met /\ run[x].on # r
        /\ \A x \in Runs : run[x].on = r => run[x].agent \in outOfStep' \union {Nil}
        /\ outOfStep \subseteq outOfStep'
    BY <1>1 DEF EndRuns
  <1>3. run' \in [Runs -> scRuns]
    BY <1>1, <1>2, scEnded DEF EndRuns, ToolsInv, scShapes
  <1>4. scShapes'
    BY <1>1, <1>3 DEF ToolsInv, scShapes
  <1>5. \A x \in Runs : scPlaced(x)'
    BY <1>1, <1>2, scEnded DEF ToolsInv, scPlaced, Holds
  <1>6. \A x \in Runs : \/ run'[x] = run[x] /\ (x \in met' <=> x \in met)
                        \/ run'[x].agent = Nil /\ run[x].agent \in outOfStep' \union {Nil}
    BY <1>2, scEnded
  <1>7. QED BY <1>1, <1>2, <1>4, <1>5, <1>6, scQuiet

LEMMA scLapse ==
  ASSUME ToolsInv, Lapse
  PROVE  ToolsInv'
  <1>1. /\ lock \in Runs /\ lock' = Nil /\ UNCHANGED <<run, offered, shelf, outOfStep, met>>
        /\ counts' \in scCounts /\ (lapsed => lapsed')
    BY DEF Lapse, Halts, ToolsInv, scShapes, scCounts
  <1>2. scShapes'
    BY <1>1 DEF ToolsInv, scShapes
  <1>3. ASSUME NEW x \in Runs, Holds(x), ~lapsed' PROVE FALSE
    <2>1. ~Holds(lock) /\ ~lapsed
      BY <1>1, <1>3 DEF Lapse
    <2>2. lock = x
      BY <1>3, <2>1 DEF ToolsInv, scPlaced
    <2>3. QED BY <1>3, <2>1, <2>2
  <1>4. \A x \in Runs : scPlaced(x)'
    BY <1>1, <1>3 DEF ToolsInv, scPlaced, Holds
  <1>5. QED BY <1>1, <1>2, <1>4, scQuiet

-----------------------------------------------------------------------------
(* The lock, and a run that comes to an agent. *)

LEMMA scAcquire ==
  ASSUME ToolsInv, NEW x \in Runs, Acquire(x)
  PROVE  ToolsInv'
  <1>1. /\ run[x] \in scRuns /\ run[x].op = "job" /\ run[x].at = "lock"
        /\ run[x].agent = Nil /\ x \notin met
    BY scTyped DEF Acquire, RunAt, scPlaced
  <1>2. PICK n \in scRuns : /\ Sets(x, n) /\ n.agent = Nil /\ lock' \in {lock, x}
                            /\ \/ n = Ended /\ lock' = lock
                               \/ n.op = "job" /\ n.at = "next" /\ lock = Nil /\ lock' = x
    <2>1. CASE lock = Nil
      <3> DEFINE n == [run[x] EXCEPT !.at = "next", !.todo = Cats]
      <3>1. n \in scRuns /\ n.agent = Nil /\ n.op = "job" /\ n.at = "next"
        BY <1>1 DEF scRuns
      <3>2. Sets(x, n) /\ lock' = x
        BY <2>1 DEF Acquire
      <3> HIDE DEF n
      <3>3. QED BY <2>1, <3>1, <3>2
    <2>2. CASE lock # Nil
      BY <2>2, scEnded DEF Acquire
    <2>3. QED BY <2>1, <2>2
  <1>3. run'[x] = n /\ run' \in [Runs -> scRuns] /\ \A y \in Runs : y # x => run'[y] = run[y]
    BY <1>2, scSets
  <1>4. UNCHANGED <<offered, shelf, outOfStep, met, lapsed, counts>>
    BY DEF Acquire
  <1>5. scShapes'
    BY <1>2, <1>3, <1>4 DEF ToolsInv, scShapes
  <1>6. ASSUME NEW y \in Runs, y # x PROVE scPlaced(y)'
    <2>1. scPlaced(y) /\ run'[y] = run[y]
      BY <1>3, <1>6 DEF ToolsInv
    <2>2. lock = Nil => ~Holds(y) \/ lapsed
      BY <2>1, SchedulerAssumption DEF scPlaced
    <2>3. QED BY <1>2, <1>4, <2>1, <2>2 DEF scPlaced, Holds
  <1>7. scPlaced(x)'
    BY <1>1, <1>2, <1>3, <1>4, scEnded DEF scPlaced, Holds
  <1>8. QED BY <1>1, <1>2, <1>3, <1>4, <1>5, <1>6, <1>7, scQuiet

\* A step of one run on its agent.
LEMMA scOnAgent ==
  ASSUME ToolsInv, NEW x \in Runs, NEW n \in scRuns, NEW b \in Cats, Sets(x, n),
         n.agent \in {b, Nil}, run[x].agent \in {b, Nil},
         UNCHANGED <<lock, lapsed>>, scShapes', scPlaced(x)',
         \A y \in Runs : y # x => (y \in met' <=> y \in met) \/ scOn(y, b),
         \A a \in Cats : a # b => /\ shelf'[a] = shelf[a] /\ offered'[a] = offered[a]
                                  /\ a \in outOfStep' <=> a \in outOfStep,
         ~lapsed => scWell(b)'
  PROVE  ToolsInv'
  <1>1. run'[x] = n /\ \A y \in Runs : y # x => run'[y] = run[y]
    BY scSets
  <1>2. ASSUME NEW y \in Runs, y # x PROVE scPlaced(y)'
    <2>1. scPlaced(y) /\ run'[y] = run[y] /\ (run[y].agent = Nil => y \notin met')
      BY <1>1, <1>2, SchedulerAssumption DEF ToolsInv, scPlaced, scOn
    <2>2. QED BY <2>1 DEF scPlaced, Holds
  <1>3. ASSUME ~lapsed, NEW a \in Cats, a # b PROVE scWell(a)'
    <2>1. scWell(a) /\ a # Nil
      BY <1>3, SchedulerAssumption DEF ToolsInv
    <2>2. /\ ~scOn(x, a) /\ ~scOn(x, a)'
          /\ \A y \in Runs : scOn(y, a)' <=> scOn(y, a)
          /\ \A y \in Runs : scOn(y, a) => run'[y] = run[y] /\ (y \in met' <=> y \in met)
      BY <1>1, <1>3, <2>1 DEF scOn
    <2>3. scMatch(a)' <=> scMatch(a)
      BY <1>3 DEF scMatch
    <2>4. \A y \in Runs : scOn(y, a) => /\ scBare(y, a)' <=> scBare(y, a)
                                        /\ scStage(y, a)' <=> scStage(y, a)
      BY <1>3, <2>2, <2>3 DEF scBare, scStage, scSingle
    <2>5. QED BY <1>3, <2>1, <2>2, <2>3, <2>4 DEF scWell
  <1>4. QED BY <1>2, <1>3 DEF ToolsInv

\* Two jobs do not work at a time.
LEMMA scOneJob ==
  ASSUME ToolsInv, ~lapsed, NEW x \in Runs, NEW y \in Runs, x # y, Holds(x)
  PROVE  ~(run[y].op = "job" /\ run[y].agent # Nil)
  <1>1. ASSUME run[y].op = "job", run[y].agent # Nil PROVE FALSE
    <2>1. scPlaced(x) /\ scPlaced(y)
      BY DEF ToolsInv
    <2>2. Holds(y)
      BY <1>1, <2>1 DEF scPlaced, Holds
    <2>3. QED BY <2>1, <2>2 DEF scPlaced
  <1>2. QED BY <1>1

\* A run comes to agent b: alone, or it meets the others.
LEMMA scBegins ==
  ASSUME ToolsInv, NEW x \in Runs, NEW n \in scRuns, NEW b \in Cats, Sets(x, n),
         n.agent = b, run[x].agent = Nil, Meets(x, b, n.op),
         UNCHANGED <<lock, lapsed, shelf>>, scShapes', scPlaced(x)',
         \/ n.op = "toggle" /\ n.at = "purge"
         \/ n.op \in {"job", "embed"} /\ n.at = "collect" /\ offered' = offered,
         \A a \in Cats : a # b => offered'[a] = offered[a],
         n.op = "job" => Holds(x)
  PROVE  ToolsInv'
  <1>1. run'[x] = n /\ \A y \in Runs : y # x => run'[y] = run[y]
    BY scSets
  <1>2. b # Nil /\ x \notin met
    BY SchedulerAssumption, scTyped DEF scPlaced
  <1>3. ASSUME ~lapsed PROVE scWell(b)'
    <2>1. scWell(b)
      BY <1>3 DEF ToolsInv
    <2>2. \A y \in Runs : y # x => (scOn(y, b)' <=> scOn(y, b))
      BY <1>1 DEF scOn
    <2>3. \A y \in Runs : y # x /\ scOn(y, b) => y \in Others(x, b, n.op)
      BY <1>2, <1>3, scOneJob DEF Others, scOn
    <2>4. CASE Others(x, b, n.op) = {}
      <3>1. UNCHANGED <<outOfStep, met>> /\ \A y \in Runs : ~scOn(y, b)
        BY <1>2, <2>3, <2>4 DEF Meets, scOn
      <3>2. \A y \in Runs : scOn(y, b)' <=> y = x
        BY <1>1, <2>2, <3>1 DEF scOn
      <3>3. scBare(x, b)'
        BY <1>1 DEF scBare
      <3>4. ASSUME b \notin outOfStep PROVE scStage(x, b)'
        <4>1. scMatch(b)
          BY <2>1, <3>1, <3>4 DEF scWell
        <4>2. scSingle(b)'
          BY <4>1 DEF scMatch, scSingle
        <4>3. n.op # "toggle" => scMatch(b)'
          BY <4>1 DEF scMatch
        <4>4. QED BY <1>1, <4>2, <4>3 DEF scStage
      <3>5. QED BY <1>2, <3>1, <3>2, <3>3, <3>4 DEF scWell
    <2>5. CASE Others(x, b, n.op) # {}
      <3>1. b \in outOfStep' /\ \A y \in Runs : y = x \/ scOn(y, b) => y \in met'
        BY <2>3, <2>5 DEF Meets
      <3>2. \A y \in Runs : scOn(y, b)' => y \in met'
        BY <2>2, <3>1
      <3>3. QED BY <3>1, <3>2 DEF scWell
    <2>6. QED BY <2>4, <2>5
  <1>4. /\ \A y \in Runs : y # x => (y \in met' <=> y \in met) \/ scOn(y, b)
        /\ \A a \in Cats : a # b => (a \in outOfStep' <=> a \in outOfStep)
    BY DEF Meets, Others, scOn
  <1>5. QED BY <1>3, <1>4, scOnAgent

LEMMA scNextCat ==
  ASSUME ToolsInv, NEW x \in Runs, NextCat(x)
  PROVE  ToolsInv'
  <1>1. /\ run[x] \in scRuns /\ run[x].op = "job" /\ run[x].at = "next" /\ run[x].agent = Nil
        /\ x \notin met /\ Holds(x)
    BY scTyped DEF NextCat, RunAt, scPlaced, Holds
  <1>2. UNCHANGED <<offered, shelf, lapsed, counts>>
    BY DEF NextCat
  <1>3. CASE run[x].todo = {}
    <2>1. Sets(x, Ended) /\ lock' = Nil /\ UNCHANGED <<outOfStep, met>>
      BY <1>3 DEF NextCat
    <2>2. run'[x] = Ended /\ run' \in [Runs -> scRuns] /\ \A y \in Runs : y # x => run'[y] = run[y]
      BY <2>1, scEnded, scSets
    <2>3. scShapes'
      BY <1>2, <2>1, <2>2 DEF ToolsInv, scShapes
    <2>4. scPlaced(x)'
      BY <1>1, <2>1, <2>2, scEnded DEF scPlaced, Holds
    <2>5. ASSUME NEW y \in Runs, y # x PROVE scPlaced(y)'
      <3>1. scPlaced(y) /\ scPlaced(x) /\ run'[y] = run[y]
        BY <2>2, <2>5 DEF ToolsInv
      <3>2. ~lapsed => ~Holds(y)
        BY <1>1, <2>5, <3>1 DEF scPlaced
      <3>3. QED BY <1>2, <2>1, <3>1, <3>2 DEF scPlaced, Holds
    <2>6. QED BY <1>1, <1>2, <2>1, <2>2, <2>3, <2>4, <2>5, scEnded, scQuiet
  <1>4. ASSUME NEW b \in Cats, lock' = lock, Meets(x, b, "job"),
               Sets(x, [run[x] EXCEPT !.at = "collect", !.agent = b, !.todo = @ \ {b}])
        PROVE  ToolsInv'
    <2> DEFINE n == [run[x] EXCEPT !.at = "collect", !.agent = b, !.todo = @ \ {b}]
    <2>1. n \in scRuns /\ n.agent = b /\ n.op = "job" /\ n.at = "collect"
      BY <1>1 DEF scRuns
    <2>2. Sets(x, n)
      BY <1>4
    <2> HIDE DEF n
    <2>3. run'[x] = n /\ run' \in [Runs -> scRuns]
      BY <2>1, <2>2, scSets
    <2>4. scShapes'
      BY <1>2, <1>4, <2>3 DEF ToolsInv, scShapes
    <2>5. ~lapsed => lock = x
      BY <1>1 DEF ToolsInv, scPlaced
    <2>6. scPlaced(x)'
      BY <1>2, <1>4, <2>1, <2>3, <2>5, SchedulerAssumption DEF scPlaced, Holds
    <2>7. QED BY <1>1, <1>2, <1>4, <2>1, <2>2, <2>4, <2>6, scBegins
  <1>5. run[x].todo \subseteq Cats
    BY <1>1 DEF scRuns
  <1>6. QED BY <1>3, <1>4, <1>5 DEF NextCat

LEMMA scComes ==
  ASSUME ToolsInv, NEW r \in Replicas, NEW x \in Runs, NEW b \in Cats,
         EmbedAgain(r, x, b) \/ \E S \in SUBSET Tools : Toggle(r, x, b, S)
  PROVE  ToolsInv'
  <1>1. run[x] = Ended /\ UNCHANGED <<lock, lapsed, shelf>> /\ b # Nil /\ counts' \in scCounts
    BY SchedulerAssumption DEF EmbedAgain, Toggle, Changes, ToolsInv, scShapes, scCounts
  <1>2. /\ offered' \in [Cats -> SUBSET Tools]
        /\ \A a \in Cats : a # b => offered'[a] = offered[a]
    BY DEF EmbedAgain, Toggle, ToolsInv, scShapes
  <1>3. PICK n \in scRuns : /\ Sets(x, n) /\ n.agent = b /\ Meets(x, b, n.op)
                            /\ \/ n.op = "toggle" /\ n.at = "purge"
                               \/ n.op = "embed" /\ n.at = "collect" /\ offered' = offered
    <2>1. CASE EmbedAgain(r, x, b)
      <3> DEFINE n == [Ended EXCEPT !.op = "embed", !.at = "collect", !.on = r, !.agent = b]
      <3>1. n \in scRuns /\ n.agent = b /\ n.op = "embed" /\ n.at = "collect"
        BY scEnded DEF Ended, scRuns
      <3>2. Sets(x, n) /\ Meets(x, b, "embed") /\ offered' = offered
        BY <2>1 DEF EmbedAgain
      <3> HIDE DEF n
      <3>3. QED BY <3>1, <3>2
    <2>2. CASE \E S \in SUBSET Tools : Toggle(r, x, b, S)
      <3> DEFINE n == [Ended EXCEPT !.op = "toggle", !.at = "purge", !.on = r, !.agent = b]
      <3>1. n \in scRuns /\ n.agent = b /\ n.op = "toggle" /\ n.at = "purge"
        BY scEnded DEF Ended, scRuns
      <3>2. Sets(x, n) /\ Meets(x, b, "toggle")
        BY <2>2 DEF Toggle
      <3> HIDE DEF n
      <3>3. QED BY <3>1, <3>2
    <2>3. QED BY <2>1, <2>2
  <1>4. run'[x] = n /\ run' \in [Runs -> scRuns]
    BY <1>3, scSets
  <1>5. scShapes'
    BY <1>1, <1>2, <1>4 DEF ToolsInv, scShapes
  <1>6. scPlaced(x)'
    BY <1>1, <1>3, <1>4 DEF scPlaced, Holds
  <1>7. QED BY <1>1, <1>2, <1>3, <1>5, <1>6, scEnded, scBegins

-----------------------------------------------------------------------------
(* A run on its agent. *)

LEMMA scWorks ==
  ASSUME ToolsInv, NEW x \in Runs, run[x].at \in {"purge", "collect", "clear", "add"}
  PROVE  /\ run[x] \in scRuns /\ run[x].agent \in Cats /\ run[x].agent # Nil
         /\ run[x].op \in {"job", "toggle", "embed"}
  BY scTyped DEF scPlaced, scRuns

\* A run that goes on on its agent: what it must see to when it is alone.
LEMMA scGoesOn ==
  ASSUME ToolsInv, NEW x \in Runs, NEW n \in scRuns, NEW b \in Cats, Sets(x, n),
         n.agent = b, run[x].agent = b, n.op = run[x].op, n.op # "none",
         run[x].at \in {"purge", "collect", "clear", "add"},
         n.at \in {"collect", "clear", "add"},
         UNCHANGED <<lock, lapsed, offered, outOfStep, met, counts>>,
         shelf' \in [Cats -> SUBSET scBatches],
         \A a \in Cats : a # b => shelf'[a] = shelf[a],
         scWell(b) /\ x \notin met => scBare(x, b)',
         scWell(b) /\ x \notin met /\ b \notin outOfStep => scStage(x, b)'
  PROVE  ToolsInv'
  <1>1. run'[x] = n /\ run' \in [Runs -> scRuns] /\ \A y \in Runs : y # x => run'[y] = run[y]
    BY scSets
  <1>2. scShapes' /\ b # Nil
    BY <1>1, SchedulerAssumption DEF ToolsInv, scShapes
  <1>3. scPlaced(x)'
    BY <1>1, <1>2, scTyped DEF scPlaced, Holds
  <1>4. ASSUME ~lapsed PROVE scWell(b)'
    <2>1. scWell(b) /\ scOn(x, b)
      BY <1>4 DEF ToolsInv, scOn
    <2>2. \A y \in Runs : scOn(y, b)' <=> scOn(y, b)
      BY <1>1, <2>1 DEF scOn
    <2>3. CASE x \notin met
      <3>1. \A y \in Runs : scOn(y, b) => y = x
        BY <2>1, <2>3 DEF scWell
      <3>2. QED BY <2>1, <2>2, <2>3, <3>1 DEF scWell
    <2>4. CASE x \in met
      <3>1. b \in outOfStep /\ \A y \in Runs : scOn(y, b) => y \in met
        BY <2>1, <2>4 DEF scWell
      <3>2. QED BY <2>2, <3>1 DEF scWell
    <2>5. QED BY <2>3, <2>4
  <1>5. QED BY <1>1, <1>2, <1>3, <1>4, scOnAgent

LEMMA scPurge ==
  ASSUME ToolsInv, NEW x \in Runs, PurgeTools(x)
  PROVE  ToolsInv'
  <1>1. PICK b \in Cats : run[x].agent = b
    BY scWorks DEF PurgeTools, RunAt
  <1> DEFINE n == [run[x] EXCEPT !.at = "collect"]
  <1>2. run[x] \in scRuns /\ run[x].op = "toggle" /\ run[x].at = "purge" /\ Sets(x, n)
    BY scTyped DEF PurgeTools, RunAt
  <1>3. n \in scRuns /\ n.agent = b /\ n.op = "toggle" /\ n.at = "collect"
    BY <1>1, <1>2 DEF scRuns
  <1> HIDE DEF n
  <1>4. /\ shelf' \in [Cats -> SUBSET scBatches] /\ shelf'[b] = {}
        /\ \A a \in Cats : a # b => shelf'[a] = shelf[a]
        /\ UNCHANGED <<lock, lapsed, offered, outOfStep, met, counts>>
    BY <1>1 DEF PurgeTools, ToolsInv, scShapes
  <1>5. run'[x] = n
    BY <1>2, <1>3, scSets
  <1>6. scBare(x, b)' /\ scStage(x, b)'
    BY <1>3, <1>4, <1>5 DEF scBare, scStage, scSingle
  <1>7. QED BY <1>1, <1>2, <1>3, <1>4, <1>6, scGoesOn

LEMMA scCollect ==
  ASSUME ToolsInv, NEW x \in Runs, CollectTools(x)
  PROVE  ToolsInv'
  <1>1. PICK b \in Cats : run[x].agent = b
    BY scWorks DEF CollectTools
  <1> DEFINE n == [run[x] EXCEPT !.at = "clear", !.tools = offered[run[x].agent]]
  <1>2. /\ run[x] \in scRuns /\ run[x].at = "collect" /\ Sets(x, n) /\ run[x].op # "none"
        /\ offered[b] \in SUBSET Tools
    BY <1>1, scTyped, scWorks DEF CollectTools, ToolsInv, scShapes
  <1>3. n \in scRuns /\ n.agent = b /\ n.op = run[x].op /\ n.at = "clear" /\ n.tools = offered[b]
    BY <1>1, <1>2 DEF scRuns
  <1> HIDE DEF n
  <1>4. UNCHANGED <<lock, lapsed, offered, shelf, outOfStep, met, counts>>
    BY DEF CollectTools
  <1>5. run'[x] = n /\ shelf \in [Cats -> SUBSET scBatches] /\ scOn(x, b)
    BY <1>1, <1>2, <1>3, scSets DEF ToolsInv, scShapes, scOn
  <1>6. ASSUME scWell(b), x \notin met PROVE scBare(x, b)'
    BY <1>2, <1>3, <1>4, <1>5, <1>6 DEF scWell, scBare
  <1>7. ASSUME scWell(b), b \notin outOfStep PROVE scStage(x, b)'
    <2>1. scStage(x, b)
      BY <1>5, <1>7 DEF scWell
    <2>2. (scMatch(b)' <=> scMatch(b)) /\ (scSingle(b)' <=> scSingle(b))
      BY <1>4 DEF scMatch, scSingle
    <2>3. QED BY <1>2, <1>3, <1>4, <1>5, <2>1, <2>2 DEF scStage
  <1>8. QED BY <1>1, <1>2, <1>3, <1>4, <1>5, <1>6, <1>7, scGoesOn

LEMMA scClear ==
  ASSUME ToolsInv, NEW x \in Runs, ClearTools(x)
  PROVE  ToolsInv'
  <1>1. PICK b \in Cats : run[x].agent = b
    BY scWorks DEF ClearTools
  <1> DEFINE n == [run[x] EXCEPT !.at = "add"]
  <1>2. run[x] \in scRuns /\ run[x].at = "clear" /\ Sets(x, n) /\ run[x].op # "none"
    BY scTyped, scWorks DEF ClearTools
  <1>3. n \in scRuns /\ n.agent = b /\ n.op = run[x].op /\ n.at = "add" /\ n.tools = run[x].tools
    BY <1>1, <1>2 DEF scRuns
  <1> HIDE DEF n
  <1>4. /\ shelf' \in [Cats -> SUBSET scBatches] /\ shelf'[b] = {}
        /\ \A a \in Cats : a # b => shelf'[a] = shelf[a]
        /\ UNCHANGED <<lock, lapsed, offered, outOfStep, met, counts>>
    BY <1>1 DEF ClearTools, ToolsInv, scShapes
  <1>5. run'[x] = n /\ scOn(x, b)
    BY <1>1, <1>2, <1>3, scSets DEF scOn
  <1>6. scBare(x, b)'
    BY <1>4 DEF scBare
  <1>7. ASSUME scWell(b), b \notin outOfStep PROVE scStage(x, b)'
    <2>1. scStage(x, b)
      BY <1>5, <1>7 DEF scWell
    <2>2. QED BY <1>2, <1>3, <1>4, <1>5, <2>1 DEF scStage, scSingle
  <1>8. QED BY <1>1, <1>2, <1>3, <1>4, <1>6, <1>7, scGoesOn

\* A run that leaves its agent: what it leaves when it was alone.
LEMMA scLeaves ==
  ASSUME ToolsInv, NEW x \in Runs, NEW b \in Cats, run[x].agent = b,
         run[x].at \in {"purge", "collect", "clear", "add"}, NEW right \in BOOLEAN,
         Leaves(x, right), UNCHANGED <<lock, lapsed, offered>>, counts' \in scCounts,
         shelf' \in [Cats -> SUBSET scBatches],
         \A a \in Cats : a # b => shelf'[a] = shelf[a],
         scWell(b) /\ x \notin met /\ (right \/ b \notin outOfStep) => scMatch(b)'
  PROVE  ToolsInv'
  <1>1. run[x] \in scRuns /\ b # Nil /\ run[x].op # "none"
    BY scWorks
  <1>2. PICK n \in scRuns : /\ Sets(x, n) /\ n.agent = Nil
                            /\ n.op = "job" => run[x].op = "job" /\ n.at = "next"
                            /\ n.op # "job" => n = Ended
    <2>1. CASE run[x].op = "job"
      <3> DEFINE n == [run[x] EXCEPT !.at = "next", !.agent = Nil, !.tools = {}]
      <3>1. n \in scRuns /\ n.agent = Nil /\ n.op = "job" /\ n.at = "next"
        BY <1>1, <2>1 DEF scRuns
      <3>2. Sets(x, n)
        BY <2>1 DEF Leaves
      <3> HIDE DEF n
      <3>3. QED BY <2>1, <3>1, <3>2
    <2>2. CASE run[x].op # "job"
      BY <2>2, scEnded DEF Leaves
    <2>3. QED BY <2>1, <2>2
  <1>3. run'[x] = n /\ run' \in [Runs -> scRuns] /\ \A y \in Runs : y # x => run'[y] = run[y]
    BY <1>2, scSets
  <1>4. /\ outOfStep' = IF right /\ x \notin met THEN outOfStep \ {b} ELSE outOfStep
        /\ met' = met \ {x}
    BY DEF Leaves
  <1>5. scShapes'
    BY <1>3 DEF ToolsInv, scShapes
  <1>6. scPlaced(x)'
    BY <1>1, <1>2, <1>3, <1>4, scTyped, scEnded DEF scPlaced, Holds
  <1>7. ASSUME ~lapsed PROVE scWell(b)'
    <2>1. scWell(b) /\ scOn(x, b)
      BY <1>7 DEF ToolsInv, scOn
    <2>2. /\ ~scOn(x, b)'
          /\ \A y \in Runs : y # x => (scOn(y, b)' <=> scOn(y, b)) /\ (y \in met' <=> y \in met)
      BY <1>1, <1>2, <1>3, <1>4 DEF scOn
    <2>3. CASE x \notin met
      <3>1. \A y \in Runs : ~scOn(y, b)'
        BY <2>1, <2>2, <2>3 DEF scWell
      <3>2. b \notin outOfStep' => scMatch(b)'
        BY <1>4, <2>1, <2>3
      <3>3. QED BY <3>1, <3>2 DEF scWell
    <2>4. CASE x \in met
      <3>1. b \in outOfStep' /\ \A y \in Runs : scOn(y, b) => y \in met
        BY <1>4, <2>1, <2>4 DEF scWell
      <3>2. QED BY <2>2, <3>1 DEF scWell
    <2>5. QED BY <2>3, <2>4
  <1>8. \A a \in Cats : a # b => (a \in outOfStep' <=> a \in outOfStep)
    BY <1>4
  <1>9. QED BY <1>2, <1>4, <1>5, <1>6, <1>7, <1>8, scOnAgent

LEMMA scNone ==
  ASSUME ToolsInv, NEW x \in Runs, CollectNone(x)
  PROVE  ToolsInv'
  <1>1. PICK b \in Cats : run[x].agent = b
    BY scWorks DEF CollectNone
  <1>2. /\ run[x].at = "collect" /\ offered[b] = {} /\ Leaves(x, run[x].op = "toggle")
        /\ UNCHANGED <<lock, lapsed, offered, shelf, counts>>
        /\ shelf \in [Cats -> SUBSET scBatches] /\ counts \in scCounts
    BY <1>1 DEF CollectNone, ToolsInv, scShapes
  <1>3. ASSUME scWell(b), x \notin met, run[x].op = "toggle" \/ b \notin outOfStep PROVE scMatch(b)'
    <2>1. scOn(x, b) /\ (scMatch(b)' <=> scMatch(b))
      BY <1>1, <1>2 DEF scOn, scMatch
    <2>2. CASE run[x].op = "toggle"
      BY <1>2, <1>3, <2>1, <2>2 DEF scWell, scBare, scMatch
    <2>3. CASE run[x].op # "toggle"
      BY <1>2, <1>3, <2>1, <2>3 DEF scWell, scStage
    <2>4. QED BY <2>2, <2>3
  <1>4. PICK right \in BOOLEAN : right = (run[x].op = "toggle")
    OBVIOUS
  <1>5. QED BY <1>1, <1>2, <1>3, <1>4, scLeaves

LEMMA scAdd ==
  ASSUME ToolsInv, NEW x \in Runs, AddTools(x)
  PROVE  ToolsInv'
  <1>1. PICK b \in Cats : run[x].agent = b
    BY scWorks DEF AddTools
  <1> DEFINE c == [batch |-> counts.batches + 1, tools |-> run[x].tools]
  <1>2. /\ run[x].at = "add" /\ Leaves(x, run[x].tools = offered[b])
        /\ UNCHANGED <<lock, lapsed, offered>> /\ run[x] \in scRuns
    BY <1>1, scTyped DEF AddTools
  <1>3. c \in scBatches /\ c.tools = run[x].tools /\ counts' \in scCounts
    BY <1>2 DEF AddTools, ToolsInv, scShapes, scCounts, scBatches, scRuns
  <1>4. shelf' = [shelf EXCEPT ![b] = @ \union {c}]
    BY <1>1 DEF AddTools
  <1> HIDE DEF c
  <1>5. /\ shelf' \in [Cats -> SUBSET scBatches] /\ shelf'[b] = shelf[b] \union {c}
        /\ \A a \in Cats : a # b => shelf'[a] = shelf[a]
    BY <1>3, <1>4 DEF ToolsInv, scShapes
  <1>6. ASSUME scWell(b), x \notin met, run[x].tools = offered[b] \/ b \notin outOfStep
        PROVE  scMatch(b)'
    <2>1. scOn(x, b)
      BY <1>1 DEF scOn
    <2>2. shelf[b] = {}
      BY <1>2, <1>6, <2>1 DEF scWell, scBare
    <2>3. run[x].tools = offered[b]
      BY <1>2, <1>6, <2>1 DEF scWell, scStage
    <2>4. QED BY <1>2, <1>3, <1>5, <2>2, <2>3 DEF scMatch
  <1>7. PICK right \in BOOLEAN : right = (run[x].tools = offered[b])
    OBVIOUS
  <1>8. QED BY <1>1, <1>2, <1>3, <1>5, <1>6, <1>7, scLeaves

LEMMA scFail ==
  ASSUME ToolsInv, NEW x \in Runs, FailTools(x)
  PROVE  ToolsInv'
  <1>1. /\ run[x] \in scRuns /\ run[x].agent \in Cats /\ scPlaced(x)
        /\ run[x].at \in {"purge", "collect", "clear", "add"} /\ run[x].op # "none"
    BY scTyped, scWorks DEF FailTools
  <1>2. PICK n \in scRuns : /\ Sets(x, n) /\ n.agent = Nil
                            /\ n.op = "job" => run[x].op = "job" /\ n.at = "next"
                            /\ n.op # "job" => n = Ended
    <2>1. CASE run[x].op = "job"
      <3> DEFINE n == [run[x] EXCEPT !.at = "next", !.agent = Nil, !.tools = {}]
      <3>1. n \in scRuns /\ n.agent = Nil /\ n.op = "job" /\ n.at = "next"
        BY <1>1, <2>1 DEF scRuns
      <3>2. Sets(x, n)
        BY <2>1 DEF FailTools
      <3> HIDE DEF n
      <3>3. QED BY <2>1, <3>1, <3>2
    <2>2. CASE run[x].op # "job"
      BY <2>2, scEnded DEF FailTools
    <2>3. QED BY <2>1, <2>2
  <1>3. run'[x] = n /\ run' \in [Runs -> scRuns] /\ \A y \in Runs : y # x => run'[y] = run[y]
    BY <1>2, scSets
  <1>4. /\ outOfStep' = outOfStep \union {run[x].agent} /\ met' = met \ {x}
        /\ UNCHANGED <<lock, lapsed, offered, shelf>> /\ counts' \in scCounts
    BY DEF FailTools, Halts, ToolsInv, scShapes, scCounts
  <1>5. scShapes'
    BY <1>3, <1>4 DEF ToolsInv, scShapes
  <1>6. scPlaced(x)'
    BY <1>1, <1>2, <1>3, <1>4, scEnded DEF scPlaced, Holds
  <1>7. \A y \in Runs : y # x => scPlaced(y)'
    BY <1>3, <1>4 DEF ToolsInv, scPlaced, Holds
  <1>8. QED BY <1>2, <1>3, <1>4, <1>5, <1>6, <1>7, scQuiet

LEMMA scStart == scInit => ToolsInv
  <1> SUFFICES ASSUME scInit PROVE ToolsInv
    OBVIOUS
  <1>1. /\ run = [x \in Runs |-> Ended] /\ lock = Nil /\ ~lapsed /\ met = {}
        /\ offered = [a \in Cats |-> Tools]
        /\ shelf = [a \in Cats |-> {[batch |-> 0, tools |-> Tools]}]
        /\ counts = [batches |-> 0, dues |-> 0, changes |-> 0, halts |-> 0]
    BY DEF scInit
  <1>2. scShapes
    BY <1>1, scEnded DEF scShapes, scBatches, scCounts
  <1>3. \A x \in Runs : scPlaced(x)
    BY <1>1, scEnded DEF scPlaced, Holds
  <1>4. ASSUME NEW a \in Cats PROVE scWell(a)
    <2>1. \A x \in Runs : ~scOn(x, a)
      BY <1>1, scEnded, SchedulerAssumption DEF scOn
    <2>2. scMatch(a)
      BY <1>1 DEF scMatch
    <2>3. QED BY <2>1, <2>2 DEF scWell
  <1>5. QED BY <1>2, <1>3, <1>4 DEF ToolsInv

LEMMA scStep == ToolsInv /\ [scNext]_scVars => ToolsInv'
  BY scAround, scSubmit, scHalt, scLapse, scAcquire, scNextCat, scComes, scPurge, scCollect,
     scNone, scClear, scAdd, scFail DEF scNext

\* One batch, or none.
LEMMA scFew ==
  ASSUME NEW a \in Cats, scSingle(a)
  PROVE  Cardinality(shelf[a]) <= 1
  <1>1. ASSUME NEW b \in shelf[a], shelf[a] = {b} PROVE Cardinality(shelf[a]) <= 1
    <2>1. Cardinality(shelf[a]) = 1
      BY <1>1, FS_Singleton
    <2>2. QED BY <2>1
  <1>2. CASE shelf[a] = {}
    <2>1. Cardinality(shelf[a]) = 0
      BY <1>2, FS_EmptySet
    <2>2. QED BY <2>1
  <1>3. QED BY <1>1, <1>2 DEF scSingle

\* An agent that is in step has its procedures once, and those it offers when nobody
\* embeds them (ToolsMatch), for any number of replicas, runs, agents and procedures,
\* with writers that take no lock: the lock keeps jobs apart, and a run that met no
\* other puts its agent in step again, whatever was wrong before.
THEOREM ToolsAreOffered == scSpec => []ToolsMatch
  <1>1. ToolsInv => ToolsMatch
    <2> SUFFICES ASSUME ToolsInv, ~lapsed, NEW a \in Cats, a \notin outOfStep
                 PROVE  /\ Cardinality(shelf[a]) <= 1
                        /\ (\A x \in Runs : run[x].agent # a) =>
                              UNION {b.tools : b \in shelf[a]} = offered[a]
      BY DEF ToolsMatch
    <2>1. scWell(a)
      BY DEF ToolsInv
    <2>2. scSingle(a)
      <3>1. CASE \A x \in Runs : ~scOn(x, a)
        BY <2>1, <3>1 DEF scWell, scMatch, scSingle
      <3>2. CASE \E x \in Runs : scOn(x, a)
        BY <2>1, <3>2 DEF scWell, scStage
      <3>3. QED BY <3>1, <3>2
    <2>3. ASSUME \A x \in Runs : run[x].agent # a
          PROVE  UNION {b.tools : b \in shelf[a]} = offered[a]
      <3>1. scMatch(a)
        BY <2>1, <2>3 DEF scWell, scOn
      <3>2. CASE shelf[a] = {} /\ offered[a] = {}
        BY <3>2
      <3>3. ASSUME NEW b \in shelf[a], shelf[a] = {b}, b.tools = offered[a]
            PROVE  UNION {c.tools : c \in shelf[a]} = offered[a]
        BY <3>3
      <3>4. QED BY <3>1, <3>2, <3>3 DEF scMatch
    <2>4. QED BY <2>2, <2>3, scFew
  <1>2. QED BY <1>1, scStart, scStep, PTL DEF scSpec

(***************************************************************************)
(* Users and assistants alternate where turns do not overlap.              *)
(***************************************************************************)
csMsgs == [who : {"user", "assistant"}, turn : Nat]
csPlaces == {"off", "ready", "init user", "init assistant", "append user", "append assistant",
             "reread", "last", "think", "failed", "pop", "renew", "read", "name", "tags"}
csRecords == [kind : Kinds \union {"none"}, at : csPlaces, room : Rooms \union {Nowhere},
              local : Seq(csMsgs), turn : Nat, tags : SUBSET Sessions]
csConvs == [there : BOOLEAN, msgs : Seq(csMsgs), given : BOOLEAN, tags : SUBSET Sessions]
csTallies == [opens : Nat, turns : Nat, vanished : Nat]
csPlaced(r) ==
    /\ r.kind = "none" => r = Off
    /\ r.kind # "none" => r.room \in Rooms /\ r.at # "off"
    /\ r.kind = "edit" => r.at \in {"read", "name", "tags"}
csShapes ==
    /\ session \in [Sessions -> csRecords] /\ convs \in [Rooms -> csConvs]
    /\ calm \subseteq Rooms /\ tally \in csTallies
    /\ \A s \in Sessions : csPlaced(session[s])

csWho(i) == IF i % 2 = 1 THEN "user" ELSE "assistant"
csPaired(h) ==
    /\ Len(h) % 2 = 0
    /\ \A i \in 1..Len(h) : h[i].who = csWho(i)
    /\ \A i \in 1..Len(h) : i % 2 = 1 => h[i].turn = h[i + 1].turn
csAsked(h, n) ==
    /\ Len(h) % 2 = 1
    /\ \A i \in 1..Len(h) : h[i].who = csWho(i)
    /\ \A i \in 1..(Len(h) - 1) : i % 2 = 1 => h[i].turn = h[i + 1].turn
    /\ h[Len(h)].turn = n
\* A turn, and the conversation it talks in when no other one does.
csTurns(r) == r.at \notin {"off", "ready"} /\ r.kind # "edit"
csStage(r, k) ==
    /\ r.at \in {"init user", "append user", "last"} => csPaired(k.msgs)
    /\ r.at \in {"reread", "read", "name", "tags", "think", "failed", "init assistant", "append assistant"} =>
         csAsked(k.msgs, r.turn)
    /\ r.at \in {"read", "name", "tags", "think", "failed"} => r.local = k.msgs
    /\ r.at # "init user" => k.there
    /\ r.at = "pop" => csPaired(r.local)
    /\ r.at # "renew"
csCalm(c) ==
    /\ \A s, t \in Sessions : csTurns(session[s]) /\ csTurns(session[t]) /\
         session[s].room = c /\ session[t].room = c => s = t
    /\ \A s \in Sessions : csTurns(session[s]) /\ session[s].room = c => csStage(session[s], convs[c])
    /\ (\A s \in Sessions : csTurns(session[s]) => session[s].room # c) => csPaired(convs[c].msgs)
    /\ ~convs[c].there => convs[c].msgs = <<>>
TurnsInv == csShapes /\ \A c \in calm : csCalm(c)

-----------------------------------------------------------------------------
(* What is added to the messages of a conversation. *)

LEMMA csMod == \A n \in Nat : /\ n % 2 \in {0, 1}
                              /\ n % 2 = 0 <=> (n + 1) % 2 = 1
                              /\ n % 2 = 1 <=> (n + 1) % 2 = 0
  OBVIOUS
LEMMA csAsk ==
  ASSUME NEW h \in Seq(csMsgs), csPaired(h), NEW m \in csMsgs, m.who = "user"
  PROVE  csAsked(Append(h, m), m.turn)
  <1> DEFINE g == Append(h, m)
  <1>1. /\ g \in Seq(csMsgs) /\ Len(g) = Len(h) + 1 /\ Len(h) \in Nat
        /\ g[Len(h) + 1] = m /\ \A i \in 1..Len(h) : g[i] = h[i]
    OBVIOUS
  <1>2. Len(g) % 2 = 1
    BY <1>1, csMod DEF csPaired
  <1> HIDE DEF g
  <1>3. \A i \in 1..Len(g) : g[i].who = csWho(i)
    BY <1>1, <1>2 DEF csPaired, csWho
  <1>4. ASSUME NEW i \in 1..(Len(g) - 1), i % 2 = 1 PROVE g[i].turn = g[i + 1].turn
    <2>1. i \in 1..Len(h) /\ i # Len(h) /\ i + 1 \in 1..Len(h)
      BY <1>1, <1>4 DEF csPaired
    <2>2. QED BY <1>1, <1>4, <2>1 DEF csPaired
  <1>5. QED BY <1>1, <1>2, <1>3, <1>4 DEF csAsked, g
LEMMA csAnswer ==
  ASSUME NEW h \in Seq(csMsgs), NEW m \in csMsgs, csAsked(h, m.turn), m.who = "assistant"
  PROVE  csPaired(Append(h, m))
  <1> DEFINE g == Append(h, m)
  <1>1. /\ g \in Seq(csMsgs) /\ Len(g) = Len(h) + 1 /\ Len(h) \in Nat
        /\ g[Len(h) + 1] = m /\ \A i \in 1..Len(h) : g[i] = h[i]
    OBVIOUS
  <1>2. Len(g) % 2 = 0
    BY <1>1, csMod DEF csAsked
  <1> HIDE DEF g
  <1>3. \A i \in 1..Len(g) : g[i].who = csWho(i)
    BY <1>1, <1>2 DEF csAsked, csWho
  <1>4. ASSUME NEW i \in 1..Len(g), i % 2 = 1 PROVE g[i].turn = g[i + 1].turn
    <2>1. i # Len(g) /\ i \in 1..Len(h)
      BY <1>1, <1>2, <1>4
    <2>2. CASE i = Len(h)
      BY <1>1, <1>4, <2>1, <2>2 DEF csAsked
    <2>3. CASE i # Len(h)
      <3>1. i \in 1..(Len(h) - 1) /\ i + 1 \in 1..Len(h)
        BY <1>1, <2>1, <2>3
      <3>2. QED BY <1>1, <1>4, <2>1, <3>1 DEF csAsked
    <2>4. QED BY <2>2, <2>3
  <1>5. QED BY <1>1, <1>2, <1>3, <1>4 DEF csPaired, g
LEMMA csPop ==
  ASSUME NEW h \in Seq(csMsgs), NEW n \in Nat, csAsked(h, n)
  PROVE  h # <<>> /\ Last(h).who = "user" /\ csPaired(Front(h)) /\ Front(h) \in Seq(csMsgs)
  <1> DEFINE g == Front(h)
  <1>1. Len(h) \in Nat \ {0} /\ Len(h) % 2 = 1
    BY DEF csAsked
  <1> DEFINE k == Len(h) - 1
  <1>9. k \in Nat /\ Len(h) = k + 1 /\ \A i \in 1..k : h[i] \in csMsgs
    BY <1>1
  <1>10. g = SubSeq(h, 1, k)
    BY DEF Front
  <1> HIDE DEF k
  <1>2. g \in Seq(csMsgs) /\ Len(g) = k /\ \A i \in 1..k : g[i] = h[i]
    BY <1>9, <1>10, SubSeqProperties
  <1>3. Len(g) \in Nat /\ Len(h) = Len(g) + 1 /\ \A i \in 1..Len(g) : g[i] = h[i]
    BY <1>2, <1>9
  <1>4. Last(h).who = "user"
    <2>1. h[Len(h)].who = csWho(Len(h)) /\ csWho(Len(h)) = "user"
      BY <1>1 DEF csAsked, csWho
    <2>2. QED BY <2>1 DEF Last
  <1> HIDE DEF g
  <1>5. Len(g) % 2 = 0
    BY <1>1, <1>3, csMod
  <1>6. ASSUME NEW i \in 1..Len(g) PROVE g[i].who = csWho(i)
    <2>1. i \in 1..Len(h) /\ g[i] = h[i]
      BY <1>3
    <2>2. QED BY <2>1 DEF csAsked
  <1>7. ASSUME NEW i \in 1..Len(g), i % 2 = 1 PROVE g[i].turn = g[i + 1].turn
    <2>1. i \in 1..(Len(h) - 1) /\ i + 1 \in 1..Len(g)
      BY <1>3, <1>5, <1>7
    <2>2. QED BY <1>3, <1>7, <2>1 DEF csAsked
  <1>8. QED BY <1>1, <1>2, <1>4, <1>5, <1>6, <1>7 DEF csPaired, g
-----------------------------------------------------------------------------
(* The steps. *)

LEMMA csTyped ==
  ASSUME csShapes, NEW s \in Sessions
  PROVE  session[s] \in csRecords /\ csPlaced(session[s])
  BY DEF csShapes

LEMMA csSets ==
  ASSUME csShapes, NEW s \in Sessions, NEW n \in csRecords, Turns(s, n)
  PROVE  /\ session'[s] = n /\ session' \in [Sessions -> csRecords]
         /\ \A t \in Sessions : t # s => session'[t] = session[t]
  BY DEF csShapes, Turns

LEMMA csOff == Off \in csRecords /\ csPlaced(Off) /\ ~csTurns(Off)
  BY DEF Off, csRecords, csPlaced, csTurns, csPlaces, Kinds

\* One session moves; no other conversations than those of C are concerned.
LEMMA csMoves ==
  ASSUME TurnsInv, NEW s \in Sessions, NEW n \in csRecords, Turns(s, n), csPlaced(n),
         convs' \in [Rooms -> csConvs], calm' \subseteq calm, tally' \in csTallies,
         NEW C, \A d \in Rooms \ C : convs'[d].msgs = convs[d].msgs /\ convs'[d].there = convs[d].there,
         csTurns(session[s]) => session[s].room \in C,
         csTurns(n) => n.room \in C,
         \A c \in calm' \intersect C : csCalm(c)'
  PROVE  TurnsInv'
  <1>1. /\ session'[s] = n /\ session' \in [Sessions -> csRecords]
        /\ \A t \in Sessions : t # s => session'[t] = session[t]
    BY csSets DEF TurnsInv
  <1>2. csShapes'
    BY <1>1 DEF TurnsInv, csShapes
  <1>3. ASSUME NEW d \in calm', d \notin C PROVE csCalm(d)'
    <2>1. csCalm(d) /\ convs'[d].msgs = convs[d].msgs /\ convs'[d].there = convs[d].there
      BY <1>3 DEF TurnsInv, csShapes
    <2>2. ASSUME NEW t \in Sessions
          PROVE  csTurns(session'[t]) /\ session'[t].room = d <=>
                   csTurns(session[t]) /\ session[t].room = d
      BY <1>1, <1>3
    <2>3. \A t \in Sessions : csTurns(session'[t]) /\ session'[t].room = d => session'[t] = session[t]
      BY <1>1, <1>3
    <2>4. ASSUME NEW t \in Sessions, csTurns(session'[t]), session'[t].room = d
          PROVE  csStage(session'[t], convs'[d])
      <3>1. csStage(session[t], convs[d]) /\ session'[t] = session[t]
        BY <2>1, <2>2, <2>3, <2>4 DEF csCalm
      <3>2. QED BY <2>1, <3>1 DEF csStage
    <2>5. QED BY <2>1, <2>2, <2>4 DEF csCalm
  <1>4. QED BY <1>2, <1>3 DEF TurnsInv

\* A step of a turn.
LEMMA csGoesOn ==
  ASSUME TurnsInv, NEW s \in Sessions, NEW n \in csRecords, Turns(s, n), csPlaced(n),
         convs' \in [Rooms -> csConvs], calm' \subseteq calm, tally' \in csTallies,
         NEW c \in Rooms, session[s].room = c, csTurns(session[s]), n.room = c \/ ~csTurns(n),
         \A d \in Rooms : d # c => convs'[d].msgs = convs[d].msgs /\ convs'[d].there = convs[d].there,
         c \in calm' =>
            /\ csTurns(n) => csStage(n, convs'[c])
            /\ ~csTurns(n) => csPaired(convs'[c].msgs)
            /\ convs'[c].there
  PROVE  TurnsInv'
  <1>1. /\ session'[s] = n /\ \A t \in Sessions : t # s => session'[t] = session[t]
    BY csSets DEF TurnsInv
  <1>2. ASSUME c \in calm' PROVE csCalm(c)'
    <2>1. csCalm(c)
      BY <1>2 DEF TurnsInv
    <2>2. \A t \in Sessions : t # s => ~(csTurns(session'[t]) /\ session'[t].room = c)
      BY <1>1, <2>1 DEF csCalm
    <2>3. \A t \in Sessions : csTurns(session'[t]) /\ session'[t].room = c =>
             t = s /\ csTurns(n) /\ session'[t] = n
      BY <1>1, <2>2
    <2>4. \A t \in Sessions : csTurns(session'[t]) /\ session'[t].room = c => csStage(session'[t], convs'[c])
      BY <1>2, <2>3
    <2>5. (\A t \in Sessions : csTurns(session'[t]) => session'[t].room # c) => csPaired(convs'[c].msgs)
      BY <1>1, <1>2
    <2>6. QED BY <1>2, <2>3, <2>4, <2>5 DEF csCalm
  <1> DEFINE C == {c}
  <1>3. \A d \in calm' \intersect C : csCalm(d)'
    BY <1>2
  <1>4. /\ \A d \in Rooms \ C : convs'[d].msgs = convs[d].msgs /\ convs'[d].there = convs[d].there
        /\ session[s].room \in C /\ (csTurns(n) => n.room \in C)
    OBVIOUS
  <1> HIDE DEF C
  <1>5. QED BY <1>3, <1>4, csMoves

\* A step of a session that is not in a turn, before or after.
LEMMA csBeside ==
  ASSUME TurnsInv, NEW s \in Sessions, NEW n \in csRecords, Turns(s, n), csPlaced(n),
         convs' \in [Rooms -> csConvs], calm' = calm, tally' \in csTallies,
         \A d \in Rooms : convs'[d].msgs = convs[d].msgs /\ convs'[d].there = convs[d].there,
         ~csTurns(session[s]), ~csTurns(n)
  PROVE  TurnsInv'
  <1> DEFINE C == {}
  <1>1. \A d \in calm' \intersect C : csCalm(d)'
    OBVIOUS
  <1>2. \A d \in Rooms \ C : convs'[d].msgs = convs[d].msgs /\ convs'[d].there = convs[d].there
    OBVIOUS
  <1> HIDE DEF C
  <1>3. QED BY <1>1, <1>2, csMoves

-----------------------------------------------------------------------------
(* Sessions come and go. *)

LEMMA csConnect ==
  ASSUME TurnsInv, NEW s \in Sessions, NEW c \in Rooms, NEW kind \in Kinds, Connect(s, c, kind)
  PROVE  TurnsInv'
  <1> DEFINE n == [Off EXCEPT !.kind = kind, !.room = c, !.local = convs[c].msgs,
                              !.at = IF kind = "edit" THEN "read" ELSE "ready"]
  <1>1. convs[c].msgs \in Seq(csMsgs)
    BY DEF TurnsInv, csShapes, csConvs
  <1>2. n \in csRecords /\ csPlaced(n) /\ ~csTurns(n)
    BY <1>1 DEF Off, csRecords, csPlaced, csTurns, csPlaces, Kinds
  <1>3. Turns(s, n) /\ session[s] = Off /\ UNCHANGED <<convs, calm>> /\ tally' \in csTallies
    BY DEF Connect, TurnsInv, csShapes, csTallies
  <1> HIDE DEF n
  <1>4. convs \in [Rooms -> csConvs] /\ tally \in csTallies
    BY DEF TurnsInv, csShapes
  <1>5. QED BY <1>2, <1>3, <1>4, csOff, csBeside

LEMMA csEnds ==
  ASSUME TurnsInv, NEW s \in Sessions, HangUp(s) \/ SessionDies(s)
  PROVE  TurnsInv'
  <1>1. Turns(s, Off) /\ convs' = convs /\ tally' \in csTallies
    BY DEF HangUp, SessionDies, TurnsInv, csShapes, csTallies
  <1>2. convs \in [Rooms -> csConvs] /\ tally \in csTallies /\ calm \subseteq Rooms
    BY DEF TurnsInv, csShapes
  <1>3. CASE csTurns(session[s])
    <2>1. session[s].room \in Rooms
      BY <1>3, csTyped, csOff DEF TurnsInv, csPlaced
    <2>2. calm' = calm \ {session[s].room}
      BY <1>3 DEF HangUp, SessionDies, IsAt, InTurn, csTurns, Room
    <2>3. PICK c \in Rooms : session[s].room = c
      BY <2>1
    <2>4. QED BY <1>1, <1>2, <1>3, <2>2, <2>3, csOff, csGoesOn
  <1>4. CASE ~csTurns(session[s])
    <2>1. calm' = calm
      BY <1>4 DEF HangUp, SessionDies, InTurn, csTurns
    <2>2. QED BY <1>1, <1>2, <1>4, <2>1, csOff, csBeside
  <1>5. QED BY <1>3, <1>4

LEMMA csVanish ==
  ASSUME TurnsInv, NEW c \in Rooms, Vanish(c)
  PROVE  TurnsInv'
  <1>1. /\ convs' = [convs EXCEPT ![c] = Absent] /\ calm' = calm \ {c} /\ session' = session
        /\ tally' \in csTallies
    BY DEF Vanish, TurnsInv, csShapes, csTallies
  <1>2. Absent \in csConvs
    BY DEF Absent, csConvs
  <1>3. csShapes'
    BY <1>1, <1>2 DEF TurnsInv, csShapes
  <1>4. ASSUME NEW d \in calm' PROVE csCalm(d)'
    <2>1. d # c /\ csCalm(d) /\ convs'[d] = convs[d]
      BY <1>1, <1>4 DEF TurnsInv, csShapes
    <2>2. QED BY <1>1, <2>1 DEF csCalm
  <1>5. QED BY <1>3, <1>4 DEF TurnsInv

LEMMA csStarts ==
  ASSUME TurnsInv, NEW s \in Sessions, StartTurn(s)
  PROVE  TurnsInv'
  <1> DEFINE m == tally.turns + 1
             n == [session[s] EXCEPT !.at = "init user", !.turn = m]
  <1>1. /\ session[s] \in csRecords /\ csPlaced(session[s]) /\ session[s].at = "ready"
        /\ tally \in csTallies /\ convs \in [Rooms -> csConvs]
    BY csTyped DEF TurnsInv, csShapes, StartTurn, IsAt
  <1>2. session[s].kind \in {"http", "socket"} /\ session[s].room \in Rooms
    BY <1>1 DEF csPlaced, Off, csRecords, Kinds
  <1>12. m \in Nat
    BY <1>1 DEF csTallies
  <1> HIDE DEF m
  <1>3. /\ n \in csRecords /\ n.at = "init user" /\ n.kind = session[s].kind
        /\ n.room = session[s].room
    BY <1>1, <1>12 DEF csRecords, csPlaces
  <1>4. Turns(s, n) /\ convs' = convs /\ tally' \in csTallies
    BY <1>1 DEF StartTurn, csTallies, m
  <1> HIDE DEF n
  <1>5. csPlaced(n) /\ ~csTurns(session[s])
    BY <1>1, <1>2, <1>3 DEF csPlaced, csTurns
  <1>6. PICK c \in Rooms : session[s].room = c
    BY <1>2
  <1>7. calm' \subseteq calm
    BY DEF StartTurn
  <1>8. ASSUME c \in calm' PROVE csCalm(c)'
    <2>1. csCalm(c) /\ \A t \in Sessions : ~(csTurns(session[t]) /\ session[t].room = c)
      BY <1>6, <1>7, <1>8 DEF TurnsInv, StartTurn, InTurn, csTurns, Room
    <2>2. csPaired(convs[c].msgs)
      BY <2>1 DEF csCalm
    <2>3. csStage(n, convs[c])
      BY <1>3, <2>2 DEF csStage
    <2>4. session'[s] = n /\ \A t \in Sessions : t # s => session'[t] = session[t]
      BY <1>3, <1>4, csSets DEF TurnsInv
    <2>5. QED BY <1>4, <2>1, <2>2, <2>3, <2>4 DEF csCalm
  <1> DEFINE C == {c}
  <1>9. /\ \A d \in calm' \intersect C : csCalm(d)'
        /\ csTurns(n) => n.room \in C
    BY <1>3, <1>6, <1>8
  <1>10. \A d \in Rooms \ C : convs'[d].msgs = convs[d].msgs /\ convs'[d].there = convs[d].there
    BY <1>4
  <1> HIDE DEF C
  <1>11. QED BY <1>1, <1>3, <1>4, <1>5, <1>7, <1>9, <1>10, csMoves

-----------------------------------------------------------------------------
(* A turn. *)

LEMMA csTurn ==
  ASSUME TurnsInv, NEW s \in Sessions, csTurns(session[s])
  PROVE  /\ session[s] \in csRecords /\ session[s].kind \in {"http", "socket"}
         /\ convs \in [Rooms -> csConvs] /\ tally \in csTallies
         /\ \E c \in Rooms : /\ session[s].room = c
                             /\ c \in calm => csStage(session[s], convs[c]) /\ csCalm(c)
  <1>1. session[s] \in csRecords /\ csPlaced(session[s])
    BY csTyped DEF TurnsInv
  <1>2. session[s].kind \in {"http", "socket"} /\ session[s].room \in Rooms
    BY <1>1, csOff DEF csPlaced, csTurns, csRecords, Kinds
  <1>3. \A c \in calm : session[s].room = c => csStage(session[s], convs[c]) /\ csCalm(c)
    BY DEF TurnsInv, csCalm
  <1>4. QED BY <1>1, <1>2, <1>3 DEF TurnsInv, csShapes

\* What a session of a turn becomes.
csAt(r, at) == [r EXCEPT !.at = at]
csWith(r, at, local) == [r EXCEPT !.at = at, !.local = local]

LEMMA csBecomes ==
  ASSUME NEW r \in csRecords, r.kind \in {"http", "socket"}, r.room \in Rooms,
         NEW at \in csPlaces \ {"off"}
  PROVE  /\ csAt(r, at) \in csRecords /\ csPlaced(csAt(r, at)) /\ csAt(r, at).at = at
         /\ csAt(r, at).room = r.room /\ csAt(r, at).turn = r.turn /\ csAt(r, at).local = r.local
         /\ at # "ready" => csTurns(csAt(r, at))
  BY DEF csAt, csRecords, csPlaced, csTurns

LEMMA csTakes ==
  ASSUME NEW r \in csRecords, r.kind \in {"http", "socket"}, r.room \in Rooms,
         NEW at \in csPlaces \ {"off"}, NEW local \in Seq(csMsgs)
  PROVE  /\ csWith(r, at, local) \in csRecords /\ csPlaced(csWith(r, at, local))
         /\ csWith(r, at, local).at = at /\ csWith(r, at, local).room = r.room
         /\ csWith(r, at, local).turn = r.turn /\ csWith(r, at, local).local = local
         /\ csTurns(csWith(r, at, local)) <=> at # "ready"
  BY DEF csWith, csRecords, csPlaced, csTurns

LEMMA csRests ==
  ASSUME TurnsInv, NEW s \in Sessions, csTurns(session[s]), NEW local \in Seq(csMsgs), Rests(s, local)
  PROVE  \E n \in csRecords : Turns(s, n) /\ csPlaced(n) /\ ~csTurns(n)
  <1>1. session[s] \in csRecords /\ session[s].kind \in {"http", "socket"} /\ session[s].room \in Rooms
    BY csTurn
  <1>2. CASE session[s].kind = "socket"
    <2> DEFINE n == csWith(session[s], "ready", local)
    <2>1. n \in csRecords /\ csPlaced(n) /\ ~csTurns(n)
      BY <1>1, csTakes DEF csPlaces
    <2>2. Turns(s, n)
      BY <1>2 DEF Rests, csWith
    <2> HIDE DEF n
    <2>3. QED BY <2>1, <2>2
  <1>3. CASE session[s].kind # "socket"
    BY <1>3, csOff DEF Rests
  <1>4. QED BY <1>2, <1>3

\* The turn goes on, or is over, and nothing is stored.
LEMMA csStays ==
  ASSUME TurnsInv, NEW s \in Sessions, csTurns(session[s]), NEW n \in csRecords, Turns(s, n), csPlaced(n),
         UNCHANGED <<convs, tally>>, calm' \subseteq calm, NEW c \in Rooms, session[s].room = c,
         n.room = c \/ ~csTurns(n), session[s].at # "init user",
         c \in calm' => /\ csTurns(n) => csStage(n, convs[c])
                        /\ ~csTurns(n) => csPaired(convs[c].msgs)
  PROVE  TurnsInv'
  <1>1. convs \in [Rooms -> csConvs] /\ tally \in csTallies
    BY csTurn
  <1>2. c \in calm => convs[c].there
    BY csTurn DEF csStage
  <1>3. QED BY <1>1, <1>2, csGoesOn

LEMMA csEnsure ==
  ASSUME TurnsInv, NEW s \in Sessions, Ensure(s)
  PROVE  TurnsInv'
  <1> DEFINE at == IF session[s].at = "init user" THEN "append user" ELSE "append assistant"
             n == csAt(session[s], at)
             k == [Absent EXCEPT !.there = TRUE]
  <1>1. session[s].at \in {"init user", "init assistant"}
    BY DEF Ensure
  <1>2. csTurns(session[s])
    BY <1>1, csTyped DEF TurnsInv, csPlaced, csTurns
  <1>3. PICK c \in Rooms : /\ session[s].room = c
                           /\ c \in calm => csStage(session[s], convs[c]) /\ csCalm(c)
    BY <1>2, csTurn
  <1>4. /\ session[s] \in csRecords /\ session[s].kind \in {"http", "socket"}
        /\ convs \in [Rooms -> csConvs] /\ tally \in csTallies
    BY <1>2, csTurn
  <1>5. /\ at \in csPlaces \ {"off", "ready"} /\ session[s].local \in Seq(csMsgs)
        /\ \/ at = "append user" /\ session[s].at = "init user"
           \/ at = "append assistant" /\ session[s].at = "init assistant"
    BY <1>1, <1>4 DEF csPlaces, csRecords
  <1> HIDE DEF at
  <1>6. /\ n \in csRecords /\ csPlaced(n) /\ n.at = at /\ n.room = c /\ n.turn = session[s].turn /\ csTurns(n)
    <2>1. session[s].room \in Rooms /\ at \in csPlaces \ {"off"} /\ at # "ready"
      BY <1>3, <1>5
    <2>2. QED BY <1>3, <1>4, <1>5, <2>1, csBecomes
  <1>7. Turns(s, n) /\ UNCHANGED <<calm, tally>>
    BY DEF Ensure, Moves, IsAt, csAt, at
  <1>8. k \in csConvs /\ k.there /\ k.msgs = <<>>
    <2>1. <<>> \in Seq(csMsgs)
      OBVIOUS
    <2>2. QED BY <2>1 DEF Absent, csConvs
  <1>9. convs' = IF convs[c].there THEN convs ELSE [convs EXCEPT ![c] = k]
    BY <1>3 DEF Ensure, Conv, Room
  <1> HIDE DEF n, k
  <1>10. /\ convs' \in [Rooms -> csConvs] /\ \A d \in Rooms : d # c => convs'[d] = convs[d]
         /\ convs'[c].there /\ (c \in calm => convs'[c].msgs = convs[c].msgs)
    BY <1>3, <1>4, <1>8, <1>9 DEF csCalm
  <1>11. c \in calm => csStage(n, convs'[c])
    BY <1>3, <1>5, <1>6, <1>10 DEF csStage
  <1>12. QED BY <1>2, <1>3, <1>4, <1>6, <1>7, <1>10, <1>11, csGoesOn

\* A step of a session in a turn that changes but its place: nothing else it holds.
LEMMA csAppend ==
  ASSUME TurnsInv, NEW s \in Sessions, AppendMessage(s)
  PROVE  TurnsInv'
  <1>1. session[s].at \in {"append user", "append assistant"} /\ UNCHANGED <<calm, tally>>
    BY DEF AppendMessage
  <1>2. csTurns(session[s])
    BY <1>1, csTyped DEF TurnsInv, csPlaced, csTurns
  <1>3. PICK c \in Rooms : /\ session[s].room = c
                           /\ c \in calm => csStage(session[s], convs[c]) /\ csCalm(c)
    BY <1>2, csTurn
  <1>4. /\ session[s] \in csRecords /\ session[s].kind \in {"http", "socket"}
        /\ convs \in [Rooms -> csConvs] /\ tally \in csTallies
    BY <1>2, csTurn
  <1>5. session[s].room \in Rooms /\ session[s].local \in Seq(csMsgs) /\ session[s].turn \in Nat
    BY <1>3, <1>4 DEF csRecords
  <1> DEFINE user == session[s].at = "append user"
             m == Says(IF user THEN "user" ELSE "assistant", s)
             at == IF user THEN "reread" ELSE "last"
             n == csAt(session[s], at)
  <1>6. CASE convs[c].there
    <2> DEFINE h == convs[c].msgs
    <2>1. m \in csMsgs /\ m.who = (IF user THEN "user" ELSE "assistant") /\ m.turn = session[s].turn
      BY <1>5 DEF csMsgs, Says
    <2>2. h \in Seq(csMsgs) /\ convs[c] \in csConvs
      BY <1>4 DEF csConvs
    <2>3. at \in csPlaces \ {"off"} /\ at # "ready"
      BY DEF csPlaces
    <2>4. /\ n \in csRecords /\ csPlaced(n) /\ csTurns(n) /\ n.at = at /\ n.room = c
          /\ n.turn = session[s].turn
      <3> HIDE DEF at
      <3>1. QED BY <1>3, <1>4, <1>5, <2>3, csBecomes
    <2>5. convs' = [convs EXCEPT ![c].msgs = Append(h, m)]
      BY <1>3, <1>6 DEF AppendMessage, Appended, Conv, Room, IsAt
    <2>6. Turns(s, n)
      BY <1>3, <1>6 DEF AppendMessage, Conv, Room, IsAt, Moves, csAt
    <2> HIDE DEF m
    <2>7. Append(h, m) \in Seq(csMsgs)
      BY <2>1, <2>2, AppendProperties
    <2>8. /\ convs' \in [Rooms -> csConvs] /\ \A d \in Rooms : d # c => convs'[d] = convs[d]
          /\ convs'[c].there /\ convs'[c].msgs = Append(h, m)
      BY <1>4, <1>6, <2>2, <2>5, <2>7 DEF csConvs
    <2>9. ASSUME c \in calm PROVE csStage(n, convs'[c])
      <3>1. CASE user
        <4>1. csPaired(h)
          BY <1>3, <2>9, <3>1 DEF csStage
        <4>2. csAsked(Append(h, m), session[s].turn)
          BY <2>1, <2>2, <3>1, <4>1, csAsk
        <4>3. QED BY <2>4, <2>8, <3>1, <4>2 DEF csStage
      <3>2. CASE ~user
        <4>1. csAsked(h, m.turn)
          BY <1>1, <1>3, <2>1, <2>9, <3>2 DEF csStage
        <4>2. csPaired(Append(h, m))
          BY <2>1, <2>2, <3>2, <4>1, csAnswer
        <4>3. QED BY <2>4, <2>8, <3>2, <4>2 DEF csStage
      <3>3. QED BY <3>1, <3>2
    <2> HIDE DEF n, h, at, user
    <2>10. /\ calm' = calm /\ tally' \in csTallies /\ session[s].room = c
           /\ \A d \in Rooms : d # c => convs'[d].msgs = convs[d].msgs /\ convs'[d].there = convs[d].there
      BY <1>1, <1>3, <1>4, <2>8
    <2>11. QED BY <1>2, <2>4, <2>6, <2>8, <2>9, <2>10, csGoesOn
  <1>7. CASE ~convs[c].there
    <2>1. c \notin calm /\ convs' = convs
      BY <1>1, <1>3, <1>7 DEF csStage, AppendMessage, Conv, Room
    <2>2. CASE user
      <3> DEFINE r == csAt(session[s], "think")
      <3>1. Turns(s, r)
        BY <1>3, <1>7, <2>2 DEF AppendMessage, Conv, Room, IsAt, Moves, csAt
      <3>2. r \in csRecords /\ csPlaced(r) /\ r.room = c
        BY <1>3, <1>4, <1>5, csBecomes DEF csPlaces
      <3> HIDE DEF r
      <3>3. QED BY <1>1, <1>2, <1>3, <2>1, <3>1, <3>2, csStays
    <2>3. CASE ~user
      <3>1. Rests(s, session[s].local)
        BY <1>3, <1>7, <2>3 DEF AppendMessage, Conv, Room, IsAt
      <3>2. PICK r \in csRecords : Turns(s, r) /\ csPlaced(r) /\ ~csTurns(r)
        BY <1>2, <1>5, <3>1, csRests
      <3>3. QED BY <1>1, <1>2, <1>3, <2>1, <3>2, csStays
    <2>4. QED BY <2>2, <2>3
  <1>8. QED BY <1>6, <1>7

LEMMA csRereads ==
  ASSUME TurnsInv, NEW s \in Sessions, Reread(s) \/ RereadLast(s)
  PROVE  TurnsInv'
  <1>1. session[s].at \in {"reread", "last"} /\ UNCHANGED <<convs, calm, tally>>
    BY DEF Reread, RereadLast, IsAt
  <1>2. csTurns(session[s])
    BY <1>1, csTyped DEF TurnsInv, csPlaced, csTurns
  <1>3. PICK c \in Rooms : /\ session[s].room = c
                           /\ c \in calm => csStage(session[s], convs[c]) /\ csCalm(c)
    BY <1>2, csTurn
  <1>4. /\ session[s] \in csRecords /\ session[s].kind \in {"http", "socket"}
        /\ session[s].room \in Rooms /\ convs[c].msgs \in Seq(csMsgs)
    BY <1>2, <1>3, csTurn DEF csConvs
  <1>5. CASE Reread(s)
    <2> DEFINE at == IF Len(convs[c].msgs) = 1 THEN "read" ELSE "think"
               n == csWith(session[s], at, convs[c].msgs)
    <2>1. at \in csPlaces \ {"off"} /\ at \in {"read", "think"}
      BY DEF csPlaces
    <2>2. Turns(s, n)
      BY <1>3, <1>5 DEF Reread, csWith, Conv, Room
    <2> HIDE DEF at
    <2>3. /\ n \in csRecords /\ csPlaced(n) /\ n.at = at /\ n.room = c
          /\ n.turn = session[s].turn /\ n.local = convs[c].msgs /\ csTurns(n)
      BY <1>3, <1>4, <2>1, csTakes
    <2> HIDE DEF n
    <2>4. c \in calm => csStage(n, convs[c])
      BY <1>3, <1>5, <2>1, <2>3 DEF csStage, Reread, IsAt
    <2>5. QED BY <1>1, <1>2, <1>3, <2>2, <2>3, <2>4, csStays
  <1>6. CASE RereadLast(s)
    <2>1. Rests(s, convs[c].msgs)
      BY <1>3, <1>6 DEF RereadLast, Conv, Room
    <2>2. PICK r \in csRecords : Turns(s, r) /\ csPlaced(r) /\ ~csTurns(r)
      BY <1>2, <1>4, <2>1, csRests
    <2>3. c \in calm => csPaired(convs[c].msgs)
      BY <1>3, <1>6 DEF csStage, RereadLast, IsAt
    <2>4. QED BY <1>1, <1>2, <1>3, <2>2, <2>3, csStays
  <1>7. QED BY <1>5, <1>6

LEMMA csThink ==
  ASSUME TurnsInv, NEW s \in Sessions, Think(s)
  PROVE  TurnsInv'
  <1>1. session[s].at = "think" /\ UNCHANGED <<convs, tally>>
    BY DEF Think, IsAt
  <1>2. csTurns(session[s])
    BY <1>1, csTyped DEF TurnsInv, csPlaced, csTurns
  <1>3. PICK c \in Rooms : /\ session[s].room = c
                           /\ c \in calm => csStage(session[s], convs[c]) /\ csCalm(c)
    BY <1>2, csTurn
  <1>4. /\ session[s] \in csRecords /\ session[s].kind \in {"http", "socket"}
        /\ session[s].room \in Rooms /\ session[s].local \in Seq(csMsgs)
    BY <1>2, <1>3, csTurn DEF csRecords
  <1>5. ASSUME NEW at \in {"init assistant", "failed"}, Moves(s, at), calm' = calm PROVE TurnsInv'
    <2> DEFINE n == csAt(session[s], at)
    <2>1. Turns(s, n)
      BY <1>5 DEF Moves, csAt
    <2>2. at \in csPlaces \ {"off"} /\ at # "ready"
      BY <1>5 DEF csPlaces
    <2>3. /\ n \in csRecords /\ csPlaced(n) /\ csTurns(n) /\ n.at = at /\ n.room = c
          /\ n.turn = session[s].turn /\ n.local = session[s].local
      BY <1>3, <1>4, <2>2, csBecomes
    <2> HIDE DEF n
    <2>4. c \in calm => csStage(n, convs[c])
      BY <1>1, <1>3, <1>5, <2>3 DEF csStage
    <2>5. QED BY <1>1, <1>2, <1>3, <1>5, <2>1, <2>3, <2>4, csStays
  <1>6. ASSUME Rests(s, session[s].local), calm' = calm \ {c} PROVE TurnsInv'
    <2>1. PICK r \in csRecords : Turns(s, r) /\ csPlaced(r) /\ ~csTurns(r)
      BY <1>2, <1>4, <1>6, csRests
    <2>2. QED BY <1>1, <1>2, <1>3, <1>6, <2>1, csStays
  <1>7. QED BY <1>3, <1>5, <1>6 DEF Think, Room

LEMMA csFails ==
  ASSUME TurnsInv, NEW s \in Sessions, Fail(s)
  PROVE  TurnsInv'
  <1>1. session[s].at = "failed" /\ UNCHANGED <<convs, calm, tally>>
    BY DEF Fail, IsAt
  <1>2. csTurns(session[s])
    BY <1>1, csTyped DEF TurnsInv, csPlaced, csTurns
  <1>3. PICK c \in Rooms : /\ session[s].room = c
                           /\ c \in calm => csStage(session[s], convs[c]) /\ csCalm(c)
    BY <1>2, csTurn
  <1> DEFINE h == session[s].local
  <1>4. /\ session[s] \in csRecords /\ session[s].kind \in {"http", "socket"}
        /\ session[s].room \in Rooms /\ h \in Seq(csMsgs) /\ session[s].turn \in Nat
    BY <1>2, <1>3, csTurn DEF csRecords
  <1>5. c \in calm => csAsked(h, session[s].turn) /\ convs[c].there
    BY <1>1, <1>3 DEF csStage
  <1>6. c \in calm => h # <<>> /\ Last(h).who = "user" /\ csPaired(Front(h))
    BY <1>4, <1>5, csPop
  <1>7. CASE h # <<>> /\ Last(h).who = "user"
    <2> DEFINE at == IF convs[c].there THEN "pop" ELSE "renew"
               n == csWith(session[s], at, Front(h))
    <2>1. Turns(s, n)
      BY <1>3, <1>7 DEF Fail, csWith, Conv, Room
    <2>2. Front(h) \in Seq(csMsgs)
      BY <1>4, <1>7, SubSeqProperties DEF Front
    <2>3. at \in csPlaces \ {"off"} /\ at # "ready" /\ (convs[c].there => at = "pop")
      BY DEF csPlaces
    <2> HIDE DEF at
    <2>4. n \in csRecords /\ csPlaced(n) /\ csTurns(n) /\ n.at = at /\ n.room = c /\ n.local = Front(h)
      BY <1>3, <1>4, <2>2, <2>3, csTakes
    <2> HIDE DEF n
    <2>5. c \in calm => csStage(n, convs[c])
      BY <1>5, <1>6, <2>3, <2>4 DEF csStage
    <2>6. QED BY <1>1, <1>2, <1>3, <2>1, <2>4, <2>5, csStays
  <1>8. CASE ~(h # <<>> /\ Last(h).who = "user")
    <2>1. Rests(s, h) /\ c \notin calm
      BY <1>6, <1>8 DEF Fail
    <2>2. PICK r \in csRecords : Turns(s, r) /\ csPlaced(r) /\ ~csTurns(r)
      BY <1>2, <1>4, <2>1, csRests
    <2>3. QED BY <1>1, <1>2, <1>3, <2>1, <2>2, csStays
  <1>9. QED BY <1>7, <1>8

LEMMA csPops ==
  ASSUME TurnsInv, NEW s \in Sessions, StorePopped(s)
  PROVE  TurnsInv'
  <1>1. session[s].at \in {"pop", "renew"} /\ UNCHANGED <<calm, tally>> /\ Rests(s, session[s].local)
    BY DEF StorePopped
  <1>2. csTurns(session[s])
    BY <1>1, csTyped DEF TurnsInv, csPlaced, csTurns
  <1>3. PICK c \in Rooms : /\ session[s].room = c
                           /\ c \in calm => csStage(session[s], convs[c]) /\ csCalm(c)
    BY <1>2, csTurn
  <1> DEFINE h == session[s].local
             k == [Absent EXCEPT !.there = TRUE, !.msgs = h]
  <1>4. h \in Seq(csMsgs) /\ convs \in [Rooms -> csConvs] /\ tally \in csTallies
    BY <1>2, csTurn DEF csRecords
  <1>5. k \in csConvs
    BY <1>4 DEF csConvs, Absent
  <1>6. \/ session[s].at = "renew" /\ convs' = [convs EXCEPT ![c] = k]
        \/ session[s].at = "pop" /\ convs[c].there /\ convs' = [convs EXCEPT ![c].msgs = h]
        \/ session[s].at = "pop" /\ ~convs[c].there /\ convs' = convs
    BY <1>1, <1>3 DEF StorePopped, IsAt, Conv, Room
  <1> HIDE DEF k
  <1>7. convs' \in [Rooms -> csConvs] /\ \A d \in Rooms : d # c => convs'[d] = convs[d]
    <2> DEFINE m == [convs[c] EXCEPT !.msgs = h]
    <2>1. m \in csConvs
      BY <1>4 DEF csConvs
    <2>2. \E r \in {k, m} : convs' = [convs EXCEPT ![c] = r] \/ convs' = convs
      BY <1>6
    <2> HIDE DEF m
    <2>3. QED BY <1>4, <1>5, <2>1, <2>2
  <1>8. c \in calm => csPaired(convs'[c].msgs) /\ convs'[c].there
    <2>1. ASSUME c \in calm PROVE session[s].at = "pop" /\ convs[c].there /\ csPaired(h)
      BY <1>1, <1>3, <2>1 DEF csStage
    <2>2. convs[c] \in csConvs
      BY <1>4
    <2>3. QED BY <1>4, <1>6, <2>1, <2>2 DEF csConvs
  <1>9. PICK r \in csRecords : Turns(s, r) /\ csPlaced(r) /\ ~csTurns(r)
    BY <1>1, <1>2, <1>4, csRests
  <1>10. QED BY <1>1, <1>2, <1>3, <1>4, <1>7, <1>8, <1>9, csGoesOn

-----------------------------------------------------------------------------
(* The attributes, of a first turn or of an edit. *)

\* A step that stores no message: of a turn it goes on, of an edit nothing is asked.
LEMMA csAttributes ==
  ASSUME TurnsInv, NEW s \in Sessions, ReadAttributes(s) \/ StoreName(s) \/ StoreTags(s),
         NEW n \in csRecords, Turns(s, n), convs' \in [Rooms -> csConvs],
         \A d \in Rooms : convs'[d].msgs = convs[d].msgs /\ convs'[d].there = convs[d].there,
         \/ session[s].kind = "edit" /\ n = Off
         \/ /\ n.kind = session[s].kind /\ n.room = session[s].room
            /\ n.turn = session[s].turn /\ n.local = session[s].local
            /\ n.at \in {"name", "tags", "think"}
            /\ n.at = "think" => session[s].kind # "edit"
  PROVE  TurnsInv'
  <1>1. session[s].at \in {"read", "name", "tags"} /\ UNCHANGED <<calm, tally>>
    BY DEF ReadAttributes, StoreName, StoreTags, IsAt
  <1>2. session[s] \in csRecords /\ csPlaced(session[s]) /\ tally \in csTallies
    BY csTyped DEF TurnsInv, csShapes
  <1>3. session[s].kind \in {"http", "socket", "edit"} /\ session[s].room \in Rooms
    BY <1>1, <1>2 DEF csPlaced, csRecords, Kinds, Off
  <1>4. CASE session[s].kind = "edit"
    <2>1. csPlaced(n) /\ ~csTurns(n) /\ ~csTurns(session[s])
      BY <1>3, <1>4, csOff DEF csPlaced, csTurns
    <2>2. QED BY <1>1, <1>2, <2>1, csBeside
  <1>5. CASE session[s].kind # "edit"
    <2>1. csTurns(session[s]) /\ csTurns(n) /\ csPlaced(n) /\ n.at \in {"name", "tags", "think"}
      BY <1>1, <1>3, <1>5 DEF csPlaced, csTurns
    <2>2. PICK c \in Rooms : /\ session[s].room = c
                             /\ c \in calm => csStage(session[s], convs[c]) /\ csCalm(c)
      BY <2>1, csTurn
    <2>3. c \in calm => csStage(n, convs'[c]) /\ convs'[c].there
      BY <1>1, <1>5, <2>1, <2>2 DEF csStage
    <2>4. n.room = c /\ calm' = calm /\ tally' \in csTallies
      BY <1>1, <1>2, <1>5, <2>2
    <2>5. QED BY <2>1, <2>2, <2>3, <2>4, csGoesOn
  <1>6. QED BY <1>4, <1>5

LEMMA csAfter ==
  ASSUME TurnsInv, NEW s \in Sessions, ReadAttributes(s) \/ StoreName(s) \/ StoreTags(s),
         convs' = convs, AfterAttributes(s)
  PROVE  TurnsInv'
  <1>1. session[s] \in csRecords /\ convs \in [Rooms -> csConvs]
    BY csTyped DEF TurnsInv, csShapes
  <1>2. CASE session[s].kind = "edit"
    BY <1>1, <1>2, csOff, csAttributes DEF AfterAttributes
  <1>3. CASE session[s].kind # "edit"
    <2> DEFINE n == csAt(session[s], "think")
    <2>1. n \in csRecords /\ n.kind = session[s].kind /\ n.room = session[s].room
          /\ n.turn = session[s].turn /\ n.local = session[s].local /\ n.at = "think"
      BY <1>1 DEF csAt, csRecords, csPlaces
    <2>2. Turns(s, n)
      BY <1>3 DEF AfterAttributes, Moves, csAt
    <2> HIDE DEF n
    <2>3. QED BY <1>1, <1>3, <2>1, <2>2, csAttributes
  <1>4. QED BY <1>2, <1>3

LEMMA csTags ==
  ASSUME TurnsInv, NEW s \in Sessions, ReadAttributes(s) \/ StoreName(s) \/ StoreTags(s)
  PROVE  TurnsInv'
  <1>1. /\ session[s] \in csRecords /\ convs \in [Rooms -> csConvs]
        /\ session[s].at \in {"read", "name", "tags"} /\ csPlaced(session[s])
    BY csTyped DEF TurnsInv, csShapes, ReadAttributes, StoreName, StoreTags, IsAt
  <1>2. session[s].room \in Rooms
    BY <1>1 DEF csPlaced, Off
  <1>3. PICK c \in Rooms : session[s].room = c
    BY <1>2
  <1>4. \A d \in Rooms : convs[d] \in csConvs
    BY <1>1
  <1>5. CASE ReadAttributes(s)
    <2>1. CASE convs[c].there
      <3> DEFINE g == convs[c].tags \union IF session[s].kind = "edit" THEN {s} ELSE {}
                 n == [session[s] EXCEPT !.at = "name", !.tags = g]
      <3>1. g \in SUBSET Sessions
        BY <1>4 DEF csConvs
      <3>2. Turns(s, n) /\ convs' = convs
        BY <1>3, <1>5, <2>1 DEF ReadAttributes, Conv, Room
      <3> HIDE DEF g
      <3>3. /\ n \in csRecords /\ n.kind = session[s].kind /\ n.room = session[s].room
            /\ n.turn = session[s].turn /\ n.local = session[s].local /\ n.at = "name"
        BY <1>1, <3>1 DEF csRecords, csPlaces
      <3> HIDE DEF n
      <3>4. QED BY <1>1, <1>5, <3>2, <3>3, csAttributes
    <2>2. CASE ~convs[c].there
      BY <1>3, <1>5, <2>2, csAfter DEF ReadAttributes, Conv, Room
    <2>3. QED BY <2>1, <2>2
  <1>6. CASE StoreName(s)
    <2>1. CASE convs[c].there
      <3> DEFINE n == csAt(session[s], "tags")
      <3>1. Turns(s, n) /\ convs' = [convs EXCEPT ![c].given = (session[s].kind = "edit")]
        BY <1>3, <1>6, <2>1 DEF StoreName, Conv, Room, Moves, csAt
      <3>2. /\ n \in csRecords /\ n.kind = session[s].kind /\ n.room = session[s].room
            /\ n.turn = session[s].turn /\ n.local = session[s].local /\ n.at = "tags"
        BY <1>1 DEF csAt, csRecords, csPlaces
      <3> HIDE DEF n
      <3> DEFINE k == [convs[c] EXCEPT !.given = (session[s].kind = "edit")]
      <3>3. k \in csConvs /\ k.msgs = convs[c].msgs /\ k.there = convs[c].there
        BY <1>1 DEF csConvs
      <3>4. convs' = [convs EXCEPT ![c] = k]
        BY <3>1
      <3> HIDE DEF k
      <3>5. /\ convs' \in [Rooms -> csConvs]
            /\ \A d \in Rooms : convs'[d].msgs = convs[d].msgs /\ convs'[d].there = convs[d].there
        BY <1>1, <3>3, <3>4
      <3>6. QED BY <1>6, <3>1, <3>2, <3>5, csAttributes
    <2>2. CASE ~convs[c].there
      BY <1>3, <1>6, <2>2, csAfter DEF StoreName, Conv, Room
    <2>3. QED BY <2>1, <2>2
  <1>7. CASE StoreTags(s)
    <2>1. convs' = IF convs[c].there THEN [convs EXCEPT ![c].tags = session[s].tags] ELSE convs
      BY <1>3, <1>7 DEF StoreTags, Conv, Room
    <2>2. session[s].tags \in SUBSET Sessions
      BY <1>1 DEF csRecords
    <2>3. /\ convs' \in [Rooms -> csConvs]
          /\ \A d \in Rooms : convs'[d].msgs = convs[d].msgs /\ convs'[d].there = convs[d].there
      BY <1>1, <2>1, <2>2 DEF csConvs
    <2>4. CASE session[s].kind = "edit"
      BY <1>7, <2>3, <2>4, csOff, csAttributes DEF StoreTags
    <2>5. CASE session[s].kind # "edit"
      <3> DEFINE n == [session[s] EXCEPT !.at = "think", !.tags = {}]
      <3>1. Turns(s, n)
        BY <1>7, <2>5 DEF StoreTags
      <3>2. /\ n \in csRecords /\ n.kind = session[s].kind /\ n.room = session[s].room
            /\ n.turn = session[s].turn /\ n.local = session[s].local /\ n.at = "think"
        BY <1>1 DEF csRecords, csPlaces
      <3> HIDE DEF n
      <3>3. QED BY <1>7, <2>3, <2>5, <3>1, <3>2, csAttributes
    <2>6. QED BY <2>4, <2>5
  <1>8. QED BY <1>5, <1>6, <1>7

LEMMA csStart == csInit => TurnsInv
  <1> SUFFICES ASSUME csInit PROVE TurnsInv
    OBVIOUS
  <1>1. Absent \in csConvs /\ Absent.msgs = <<>> /\ csPaired(<<>>)
    BY DEF Absent, csConvs, csPaired
  <1>2. csShapes
    BY <1>1, csOff DEF csInit, csShapes, csTallies
  <1>3. \A c \in Rooms : convs[c] = Absent /\ \A s \in Sessions : ~csTurns(session[s])
    BY csOff DEF csInit
  <1>4. \A c \in Rooms : csCalm(c)
    BY <1>1, <1>3 DEF csCalm
  <1>5. QED BY <1>2, <1>4 DEF TurnsInv, csShapes

LEMMA csGoes == TurnsInv /\ [csNext]_csVars => TurnsInv'
  <1> SUFFICES ASSUME TurnsInv, [csNext]_csVars PROVE TurnsInv'
    OBVIOUS
  <1>1. CASE UNCHANGED csVars
    BY <1>1 DEF csVars, TurnsInv, csShapes, csCalm
  <1>2. QED BY <1>1, csConnect, csEnds, csVanish, csStarts, csEnsure, csAppend, csRereads, csThink,
               csFails, csPops, csTags DEF csNext, csStep

\* Where turns did not overlap and none was cut short, users and assistants
\* alternate between turns (Alternates), for any number of sessions and turns: a
\* turn asks, then answers or takes its question back.
THEOREM TurnsAlternate == csSpec => []Alternates
  <1>1. TurnsInv => Alternates
    <2> SUFFICES ASSUME TurnsInv, NEW c \in calm, \A s \in Sessions : Room(s) = c => ~InTurn(s)
                 PROVE  /\ Len(convs[c].msgs) % 2 = 0
                        /\ \A i \in 1..Len(convs[c].msgs) :
                             convs[c].msgs[i].who = (IF i % 2 = 1 THEN "user" ELSE "assistant")
                        /\ \A i \in 1..Len(convs[c].msgs) :
                             i % 2 = 1 => convs[c].msgs[i].turn = convs[c].msgs[i + 1].turn
      BY DEF Alternates
    <2>1. csPaired(convs[c].msgs)
      BY DEF TurnsInv, csCalm, csTurns, InTurn, Room
    <2>2. QED BY <2>1 DEF csPaired, csWho
  <1>2. QED BY <1>1, csStart, csGoes, PTL DEF csSpec

LEMMA csPrefix ==
  ASSUME NEW h \in Seq(csMsgs)
  PROVE  IsPrefix(h, h) /\ \A m \in csMsgs : IsPrefix(h, Append(h, m))
  <1>1. IsPrefix(h, h)
    BY DEF IsPrefix
  <1>2. ASSUME NEW m \in csMsgs PROVE IsPrefix(h, Append(h, m))
    <2> DEFINE g == Append(h, m)
    <2>1. g \in Seq(csMsgs) /\ Len(g) = Len(h) + 1 /\ \A i \in 1..Len(h) : g[i] = h[i]
      BY AppendProperties
    <2> HIDE DEF g
    <2>2. SubSeq(h, 1, Len(h)) = SubSeq(g, 1, Len(h)) /\ Len(h) <= Len(g)
      BY <2>1
    <2>3. QED BY <2>2 DEF IsPrefix, g
  <1>3. QED BY <1>1, <1>2

\* The messages of a conversation that stays are only added to, unless a turn that
\* failed stores what is left of its history (AppendsKept), for any number of
\* sessions at once: no other step stores messages it has read before.
THEOREM MessagesStay == csSpec => AppendsKept
  <1>1. TurnsInv /\ [csNext]_csVars =>
          [\A c \in Rooms :
             convs[c].there /\ convs'[c].there =>
               \/ IsPrefix(convs[c].msgs, convs'[c].msgs)
               \/ \E s \in Sessions : Room(s) = c /\ session[s].at \in {"pop", "renew"} /\
                    session'[s] # session[s]]_csVars
    <2>1. SUFFICES ASSUME TurnsInv, csNext, NEW c \in Rooms, convs[c].there, convs'[c].there
                   PROVE  \/ IsPrefix(convs[c].msgs, convs'[c].msgs)
                          \/ \E s \in Sessions : Room(s) = c /\ session[s].at \in {"pop", "renew"} /\
                               session'[s] # session[s]
      OBVIOUS
    <2>2. convs \in [Rooms -> csConvs] /\ convs[c].msgs \in Seq(csMsgs)
      BY <2>1 DEF TurnsInv, csShapes, csConvs
    <2>3. CASE convs'[c].msgs = convs[c].msgs
      BY <2>2, <2>3, csPrefix
    <2>4. ASSUME NEW s \in Sessions, AppendMessage(s), convs'[c].msgs # convs[c].msgs
          PROVE  IsPrefix(convs[c].msgs, convs'[c].msgs)
      <3> DEFINE m == Says(IF IsAt(s, "append user") THEN "user" ELSE "assistant", s)
      <3>1. m \in csMsgs
        BY <2>1, <2>4, csTyped DEF TurnsInv, csRecords, csMsgs, Says
      <3>2. convs' = [convs EXCEPT ![Room(s)].msgs = Append(convs[Room(s)].msgs, m)]
        BY <2>2, <2>4 DEF AppendMessage, Appended, Conv
      <3> HIDE DEF m
      <3>3. Room(s) = c /\ convs'[c].msgs = Append(convs[c].msgs, m)
        BY <2>2, <2>4, <3>2 DEF csConvs
      <3>4. QED BY <2>2, <3>1, <3>3, csPrefix
    <2>5. ASSUME NEW s \in Sessions, StorePopped(s), convs'[c].msgs # convs[c].msgs
          PROVE  Room(s) = c /\ session[s].at \in {"pop", "renew"} /\ session'[s] # session[s]
      <3>1. session[s].at \in {"pop", "renew"} /\ Room(s) = c
        BY <2>2, <2>5 DEF StorePopped, csConvs, Conv
      <3>2. csTurns(session[s])
        BY <2>1, <3>1, csTyped DEF TurnsInv, csPlaced, csTurns
      <3>3. PICK n \in csRecords : Turns(s, n) /\ csPlaced(n) /\ ~csTurns(n)
        <4>1. session[s].local \in Seq(csMsgs) /\ Rests(s, session[s].local)
          BY <2>1, <2>5, csTyped DEF TurnsInv, csRecords, StorePopped
        <4>2. QED BY <2>1, <3>2, <4>1, csRests
      <3>4. session'[s] = n
        BY <2>1, <3>3, csSets DEF TurnsInv
      <3>5. QED BY <3>1, <3>2, <3>3, <3>4
    <2>6. ASSUME NEW d \in Rooms, Vanish(d) PROVE convs'[c].msgs = convs[c].msgs
      BY <2>1, <2>2, <2>6 DEF Vanish, Absent
    <2>7. ASSUME NEW s \in Sessions,
                 \/ \E d \in Rooms, kind \in Kinds : Connect(s, d, kind)
                 \/ HangUp(s) \/ SessionDies(s) \/ StartTurn(s) \/ Ensure(s) \/ Reread(s)
                 \/ RereadLast(s) \/ Think(s) \/ Fail(s)
                 \/ ReadAttributes(s) \/ StoreName(s) \/ StoreTags(s)
          PROVE  convs'[c].msgs = convs[c].msgs
      <3>1. CASE Ensure(s)
        BY <2>1, <2>2, <3>1 DEF Ensure, Conv
      <3>2. CASE StoreName(s) \/ StoreTags(s)
        BY <2>2, <3>2 DEF StoreName, StoreTags, Conv, csConvs
      <3>3. QED BY <2>7, <3>1, <3>2 DEF Connect, HangUp, SessionDies, StartTurn, Reread, RereadLast,
                  Think, Fail, ReadAttributes
    <2>8. QED BY <2>1, <2>3, <2>4, <2>5, <2>6, <2>7 DEF csNext, csStep
  <1>2. QED BY <1>1, csStart, csGoes, PTL DEF csSpec, AppendsKept

=============================================================================
