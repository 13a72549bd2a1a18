------------------------------ MODULE MCServices ------------------------------
(***************************************************************************)
(* Small instances of the services that share no state, one at a time:     *)
(* each run follows one of Parts.                                          *)
(***************************************************************************)
EXTENDS VectorStore, FileStore, Accounts, ChatSessions, Scheduler, Webhooks, Analytics,
        PluginSettings, Migrations, Requirements, Delivery, Splitting, Endpoints, TLC

CONSTANTS Parts, k1, k2, k3

VARIABLE part

MCNames == <<"declarative", "episodic">>
MCSizeOf == [e \in Models |-> 1]

\* The second version has another setting for the first one, and accepts less.
MCKeysOf == [v \in Versions |-> IF v = 1 THEN {k1, k2} ELSE {k2, k3}]
MCRefused == [v \in Versions |-> IF v = 1 THEN {} ELSE {"old"}]
MCOneKey == [v \in Versions |-> SettingKeys]
MCNoneRefused == [v \in Versions |-> {}]

\* The services share the values of their actors.
MCSymmetry == Permutations(Tenants) \union Permutations(Callers)

MCNeeds == [v \in Releases |-> IF v = 1 THEN {"x"} ELSE {"x", "y"}]

\* One block of thinking in a token, or one that goes on over several.
MCTokens == {<<"word">>, <<"word", "<think>", "word">>, <<"word", "</think>", "word">>,
             <<"<think>", "word", "</think>", "word">>}

\* Two methods of one path; an edition that drops one endpoint and adds another; an
\* endpoint of two plugins, one of which depends on the other.
On(path, methods) == [path |-> path, methods |-> methods]
MCOffers ==
    [p \in Extensions |-> [v \in Editions |->
       IF p = "q" THEN {On("/y", "GET"), On("/z", "GET")}
       ELSE IF v = 1 THEN {On("/x", "GET"), On("/x", "POST")}
       ELSE {On("/x", "GET"), On("/y", "GET")}]]
MCDependsOn == [p \in Extensions |-> IF p = "q" THEN {"p"} ELSE {}]

\* The parts that are not followed keep one initial state.  Models of one size differ
\* only in which is selected first.
MCInit ==
    /\ part \in Parts
    /\ vsInit /\ selected = CHOOSE e \in Models : TRUE
    /\ (part = "vectors" \/ (memories = {} /\ ~bounds.dumps))
    /\ fsInit /\ (part = "files" \/ (manager = "local" /\ kept = {}))
    /\ psInit /\ (part = "settings" \/ version = 1)
    /\ rqInit /\ (part = "requirements" \/ folder.version = 1)
    /\ spInit /\ (part = "splitting" \/ chunks = <<>>)
    /\ acInit /\ csInit /\ scInit /\ whInit /\ anInit /\ mgInit /\ dlInit /\ epInit

Still == UNCHANGED part

MCNext ==
    \/ /\ part = "vectors" /\ vsNext /\ Still
       /\ UNCHANGED <<fsVars, acVars, csVars, scVars, whVars, anVars, psVars, mgVars, rqVars,
                   dlVars, spVars, epVars>>
    \/ /\ part = "files" /\ fsNext /\ Still
       /\ UNCHANGED <<vsVars, acVars, csVars, scVars, whVars, anVars, psVars, mgVars, rqVars,
                   dlVars, spVars, epVars>>
    \/ /\ part = "accounts" /\ acNext /\ Still
       /\ UNCHANGED <<vsVars, fsVars, csVars, scVars, whVars, anVars, psVars, mgVars, rqVars,
                   dlVars, spVars, epVars>>
    \/ /\ part = "chats" /\ csNext /\ Still
       /\ UNCHANGED <<vsVars, fsVars, acVars, scVars, whVars, anVars, psVars, mgVars, rqVars,
                   dlVars, spVars, epVars>>
    \/ /\ part = "scheduler" /\ scNext /\ Still
       /\ UNCHANGED <<vsVars, fsVars, acVars, csVars, whVars, anVars, psVars, mgVars, rqVars,
                   dlVars, spVars, epVars>>
    \/ /\ part = "webhooks" /\ whNext /\ Still
       /\ UNCHANGED <<vsVars, fsVars, acVars, csVars, scVars, anVars, psVars, mgVars, rqVars,
                   dlVars, spVars, epVars>>
    \/ /\ part = "analytics" /\ anNext /\ Still
       /\ UNCHANGED <<vsVars, fsVars, acVars, csVars, scVars, whVars, psVars, mgVars, rqVars,
                   dlVars, spVars, epVars>>
    \/ /\ part = "settings" /\ psNext /\ Still
       /\ UNCHANGED <<vsVars, fsVars, acVars, csVars, scVars, whVars, anVars, mgVars, rqVars,
                   dlVars, spVars, epVars>>
    \/ /\ part = "migrations" /\ mgNext /\ Still
       /\ UNCHANGED <<vsVars, fsVars, acVars, csVars, scVars, whVars, anVars, psVars, rqVars,
                   dlVars, spVars, epVars>>
    \/ /\ part = "requirements" /\ rqNext /\ Still
       /\ UNCHANGED <<vsVars, fsVars, acVars, csVars, scVars, whVars, anVars, psVars, mgVars,
                   dlVars, spVars, epVars>>
    \/ /\ part = "delivery" /\ dlNext /\ Still
       /\ UNCHANGED <<vsVars, fsVars, acVars, csVars, scVars, whVars, anVars, psVars, mgVars,
                   rqVars, spVars, epVars>>
    \/ /\ part = "splitting" /\ spNext /\ Still
       /\ UNCHANGED <<vsVars, fsVars, acVars, csVars, scVars, whVars, anVars, psVars, mgVars,
                   rqVars, dlVars, epVars>>
    \/ /\ part = "endpoints" /\ epNext /\ Still
       /\ UNCHANGED <<vsVars, fsVars, acVars, csVars, scVars, whVars, anVars, psVars, mgVars,
                   rqVars, dlVars, spVars>>

MCVars == <<part, vsVars, fsVars, acVars, csVars, scVars, whVars, anVars, psVars, mgVars,
            rqVars, dlVars, spVars, epVars>>
MCSpec == MCInit /\ [][MCNext]_MCVars
=============================================================================
