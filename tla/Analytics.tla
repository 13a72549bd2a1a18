------------------------------ MODULE Analytics ------------------------------
(***************************************************************************)
(* The counters of an agent: embeddings per file and in total, and the     *)
(* tokens and calls of a language model.  An update reads the document of  *)
(* the counters, adds and stores it; updates of several processes cross.   *)
(***************************************************************************)
EXTENDS Naturals, FiniteSets, FiniteSetsExt

CONSTANTS Documents,   \* the files that are embedded
          Counters,    \* updates under way at a time
          Amounts,     \* numbers of tokens
          MaxUpdates   \* bound: updates

ASSUME AnalyticsAssumption == Amounts \subseteq Nat /\ IsFiniteSet(Documents)

VARIABLES
    embeddings,  \* per file, and in total
    tokens,      \* input, output, total, calls
    counter,     \* per update: what it adds and the document it has read
    updates      \* updates so far

anVars == <<embeddings, tokens, counter, updates>>

Zero == [input |-> 0, output |-> 0, total |-> 0, calls |-> 0]
NoUpdate == [op |-> "none"]
Updates(k, c) ==
    /\ counter[k] = NoUpdate /\ updates < MaxUpdates
    /\ updates' = updates + 1
    /\ counter' = [counter EXCEPT ![k] = c]
    /\ UNCHANGED <<embeddings, tokens>>

\* after_rabbithole_stored_documents: nothing is counted for no tokens.
CountFile(k, f, n) ==
    n > 0 /\ Updates(k, [op |-> "embed", file |-> f, n |-> n, read |-> embeddings])

\* before_cat_sends_message: a turn that failed counts as a call.
CountTurn(k, i, o) == Updates(k, [op |-> "turn", input |-> i, output |-> o, read |-> tokens])

\* Mutant of WithFile: the total is that of the store, not of the document read.
WithFileOnly(doc, f, n) ==
    [files |-> [doc.files EXCEPT ![f] = @ + n], total |-> embeddings.total + n]

WithFile(doc, f, n) == [files |-> [doc.files EXCEPT ![f] = @ + n], total |-> doc.total + n]

WithTurn(doc, i, o) ==
    [input |-> doc.input + i, output |-> doc.output + o, total |-> doc.total + i + o,
     calls |-> doc.calls + 1]

StoreCounters(k) ==
    /\ LET c == counter[k] IN
       \/ /\ c.op = "embed"
          /\ embeddings' = WithFile(c.read, c.file, c.n)
          /\ UNCHANGED tokens
       \/ /\ c.op = "turn"
          /\ tokens' = WithTurn(c.read, c.input, c.output)
          /\ UNCHANGED embeddings
    /\ counter' = [counter EXCEPT ![k] = NoUpdate]
    /\ UNCHANGED updates

CounterDies(k) ==
    /\ counter[k] # NoUpdate
    /\ counter' = [counter EXCEPT ![k] = NoUpdate]
    /\ UNCHANGED <<embeddings, tokens, updates>>

-----------------------------------------------------------------------------
anInit ==
    /\ embeddings = [files |-> [f \in Documents |-> 0], total |-> 0]
    /\ tokens = Zero
    /\ counter = [k \in Counters |-> NoUpdate]
    /\ updates = 0

anNext ==
    \E k \in Counters :
      \/ \E f \in Documents, n \in Amounts : CountFile(k, f, n)
      \/ \E i, o \in Amounts : CountTurn(k, i, o)
      \/ StoreCounters(k) \/ CounterDies(k)

anSpec == anInit /\ [][anNext]_anVars

-----------------------------------------------------------------------------
(* Properties. *)

\* Whatever updates are lost to others, the total of the embeddings is that of
\* the files, the total of the tokens that of input and output, and the calls
\* are never more than the turns.
TotalsAgree ==
    /\ embeddings.total = MapThenSumSet(LAMBDA f : embeddings.files[f], Documents)
    /\ tokens.total = tokens.input + tokens.output
    /\ tokens.calls <= updates
=============================================================================
