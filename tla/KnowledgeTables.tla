-------------------------- MODULE KnowledgeTables --------------------------
(***************************************************************************)
(* The knowledge base at rest: the tables of 004_reasoner_rag_schema.sql   *)
(* and the MinIO bucket, with the calls of files_router.py and             *)
(* vector_stores_router.py that create and delete files and stores.        *)
(*                                                                         *)
(* A file has a document of one of three kinds; its chunks have            *)
(* deterministic ids and are written in one transaction, so they are there *)
(* for a store and a file, or not.  Each step is one transaction or one    *)
(* MinIO call of a handler.                                                *)
(***************************************************************************)
EXTENDS FiniteSets, Naturals

CONSTANTS Files, Stores,   \* the ids uuid4 will give out
          Deletes,         \* calls of DELETE /v1/files/{id}
          Faults           \* what may fail: "minio", "postgres", "restart", "timeout"

ASSUME IdsAssumption == Files # {} /\ Stores # {}
ASSUME FaultsAssumption == Faults \subseteq {"minio", "postgres", "restart", "timeout"}

VARIABLES files,     \* rows of knowledge_files
          objects,   \* objects in the bucket
          stores,    \* rows of vector_stores
          listed,    \* rows of vector_store_files: their status, "absent" without one
          chunks,    \* knowledge_chunks: the pairs whose chunks are stored
          kind,      \* what the document of a file is
          upload,    \* the POST /v1/files that creates a file
          removal,   \* a DELETE /v1/files/{id}
          used       \* store ids that were given out

fileCalls == <<upload, removal>>
tables == <<files, stores, listed, chunks>>
tableVars == <<tables, objects, kind, fileCalls, used>>

Pairs == Stores \X Files
Kinds == {"text", "blank", "corrupt"}
Statuses == {"absent", "queued", "processing", "completed", "failed"}

TablesTypeOK ==
    /\ files \in SUBSET Files
    /\ objects \in SUBSET Files
    /\ stores \in SUBSET Stores
    /\ listed \in [Pairs -> Statuses]
    /\ chunks \in SUBSET Pairs
    /\ kind \in [Files -> Kinds]
    /\ upload \in [Files -> {"idle", "insert", "done", "raised"}]
    /\ removal \in [Deletes -> [at : {"idle", "row", "object", "done", "raised"},
                                file : Files]]
    /\ used \in SUBSET Stores

TablesInit ==
    /\ files = {}
    /\ objects = {}
    /\ stores = {}
    /\ listed = [p \in Pairs |-> "absent"]
    /\ chunks = {}
    /\ kind \in [Files -> Kinds]
    /\ upload = [f \in Files |-> "idle"]
    /\ removal = [d \in Deletes |-> [at |-> "idle", file |-> CHOOSE f \in Files : TRUE]]
    /\ used = {}

\* The foreign keys of vector_store_files and knowledge_chunks.
ParentsExist(p) == p[1] \in stores /\ p[2] \in files

\* ON DELETE CASCADE, for the rows whose parent is deleted.
Cascade(gone) ==
    /\ listed' = [p \in Pairs |-> IF p \in gone THEN "absent" ELSE listed[p]]
    /\ chunks' = chunks \ gone

-----------------------------------------------------------------------------
(* POST /v1/files: the object first, then the row. *)

PutObject(f) ==
    /\ upload[f] = "idle"
    /\ \/ /\ objects' = objects \union {f}
          /\ upload' = [upload EXCEPT ![f] = "insert"]
       \/ /\ "minio" \in Faults
          /\ upload' = [upload EXCEPT ![f] = "raised"]
          /\ objects' \in {objects, objects \union {f}}
    /\ UNCHANGED <<tables, kind, removal, used>>

InsertFile(f) ==
    /\ upload[f] = "insert"
    /\ \/ /\ files' = files \union {f}
          /\ upload' = [upload EXCEPT ![f] = "done"]
       \/ /\ "postgres" \in Faults
          /\ upload' = [upload EXCEPT ![f] = "raised"]
          /\ UNCHANGED files
    /\ UNCHANGED <<objects, stores, listed, chunks, kind, removal, used>>

-----------------------------------------------------------------------------
(* DELETE /v1/files/{id}: look it up, delete the row, delete the object. *)

FindFile(d) ==
    /\ removal[d].at = "idle"
    /\ \E f \in Files :
          /\ upload[f] \in {"done", "raised"}
          /\ removal' = [removal EXCEPT ![d] =
                           [at |-> IF f \in files THEN "row" ELSE "done", file |-> f]]
    /\ UNCHANGED <<tables, objects, kind, upload, used>>

\* Mutant of DeleteFileRow: a database failure is only logged.
DeleteFileRow_FailOpen(d) ==
    /\ removal[d].at = "row"
    /\ \/ files' = files \ {removal[d].file} /\ Cascade(Stores \X {removal[d].file})
       \/ "postgres" \in Faults /\ UNCHANGED <<files, listed, chunks>>
    /\ removal' = [removal EXCEPT ![d].at = "object"]
    /\ UNCHANGED <<stores, objects, kind, upload, used>>

\* The row goes, and with it what the foreign keys cascade to.
DeleteFileRow(d) ==
    /\ removal[d].at = "row"
    /\ \/ /\ files' = files \ {removal[d].file}
          /\ Cascade(Stores \X {removal[d].file})
          /\ removal' = [removal EXCEPT ![d].at = "object"]
       \/ /\ "postgres" \in Faults
          /\ removal' = [removal EXCEPT ![d].at = "raised"]
          /\ UNCHANGED <<files, listed, chunks>>
    /\ UNCHANGED <<stores, objects, kind, upload, used>>

\* Best effort: a MinIO failure is logged and leaves the object behind.
DeleteObject(d) ==
    /\ removal[d].at = "object"
    /\ \/ objects' = objects \ {removal[d].file}
       \/ "minio" \in Faults /\ UNCHANGED objects
    /\ removal' = [removal EXCEPT ![d].at = "done"]
    /\ UNCHANGED <<tables, kind, upload, used>>

-----------------------------------------------------------------------------
(* POST /v1/vector_stores and DELETE /v1/vector_stores/{id}. *)

CreateStore(v) ==
    /\ v \notin used
    /\ stores' = stores \union {v}
    /\ used' = used \union {v}
    /\ UNCHANGED <<files, listed, chunks, objects, kind, fileCalls>>

DeleteStore(v) ==
    /\ v \in stores
    /\ stores' = stores \ {v}
    /\ Cascade({v} \X Files)
    /\ UNCHANGED <<files, objects, kind, fileCalls, used>>

-----------------------------------------------------------------------------

\* A dying process takes the file calls it runs with it.
FileCallsDie ==
    /\ upload' = [f \in Files |-> IF upload[f] = "insert" THEN "raised" ELSE upload[f]]
    /\ removal' = [d \in Deletes |->
                     IF removal[d].at \in {"row", "object"}
                     THEN [removal[d] EXCEPT !.at = "raised"] ELSE removal[d]]

\* The steps of this module.
ManageFiles ==
    \/ \E f \in Files : PutObject(f) \/ InsertFile(f)
    \/ \E d \in Deletes : FindFile(d) \/ DeleteFileRow(d) \/ DeleteObject(d)
    \/ \E v \in Stores : CreateStore(v) \/ DeleteStore(v)

\* Every file row has its object: an upload writes the object first, a deletion
\* takes the row first, and neither a failure nor a restart in between turns
\* this around.  What is listed can be downloaded.
RowsHaveObjects == files \subseteq objects

=============================================================================
