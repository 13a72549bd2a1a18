-------------------------- MODULE IngestionStatus --------------------------
(***************************************************************************)
(* The ingestion-status registry: one Redis document per ingested source,  *)
(* at agents:<agent>:ingestion:<scope>:<sha256(source)>.  This module      *)
(* holds the document's shape and the pure part of every registry write;   *)
(* who writes, and in how many Redis commands, is the business of the      *)
(* modules that extend this one.                                           *)
(*                                                                         *)
(* Timestamps are reduced to the one bit the program tests: `stale` says   *)
(* that updated_at is older than the resume pass's threshold.  Error text, *)
(* created_at and the resume_owner / resume_at markers are written and     *)
(* never read back, so they are left out.                                  *)
(***************************************************************************)

CONSTANTS
  Embedders,   \* names of embedder configurations
  Chunkers,    \* names of chunker configurations
  None         \* a document field that was never written

ASSUME NoneAssumption == None \notin Embedders \cup Chunkers

InFlight == {"uploaded", "downloading", "downloaded", "processing"}

Statuses == InFlight \cup {"completed", "error"}

Phases == {"downloading", "parsing_chunking", "embedding"}

\* "absent" stands for a key that does not exist.
Doc ==
  [status   : Statuses \cup {"absent"},
   phase    : Phases \cup {"none"},
   embedder : Embedders \cup {None},
   chunker  : Chunkers \cup {None},
   stale    : BOOLEAN]

NoDoc ==
  [status |-> "absent", phase |-> "none", embedder |-> None, chunker |-> None,
   stale |-> FALSE]

\* Neither is it a document: a key that does not exist is read as NoDoc.
ASSUME NoneIsNoDoc == None \notin Doc

-----------------------------------------------------------------------------

\* set_status: the document that is stored when `doc` is the one just read.
\* Fields that the caller does not give survive from `doc`.
SetStatus(doc, status) == [doc EXCEPT !.status = status, !.stale = FALSE]

\* set_phase and the lifecycle hooks that record a phase.
SetPhase(doc, status, phase) == [SetStatus(doc, status) EXCEPT !.phase = phase]

SetEmbedding(doc, embedder) ==
  [SetPhase(doc, "processing", "embedding") EXCEPT !.embedder = embedder]

SetParsing(doc, chunker) ==
  [SetPhase(doc, "processing", "parsing_chunking") EXCEPT !.chunker = chunker]

\* Mutant of SetCompleted: the phase is dropped by storing null.
SetCompletedNull(doc) == SetPhase(doc, "completed", None)

\* after_rabbithole_stored_documents: COMPLETED drops the phase diary.
SetCompleted(doc) == SetPhase(doc, "completed", "none")

\* Mutant of Claimable: the staleness gate is forgotten.
ClaimableUngated(doc, gated, claimCompleted) ==
  \/ doc.status = "completed" /\ claimCompleted
  \/ doc.status \in {"uploaded", "processing", "error"}

\* claim_source_for_resume: may this document be claimed?  `gated` is TRUE when
\* the caller passes a positive stale_after.
Claimable(doc, gated, claimCompleted) ==
  \/ doc.status = "completed" /\ claimCompleted
  \/ /\ doc.status \in {"uploaded", "processing", "error"}
     /\ gated => doc.stale

=============================================================================
