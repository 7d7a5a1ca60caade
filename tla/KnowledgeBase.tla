--------------------------- MODULE KnowledgeBase ---------------------------
(***************************************************************************)
(* The RAG knowledge base at work: attaching a file to a vector store and  *)
(* detaching it (vector_stores_router.py), and the ingestion of its        *)
(* document (IngestPipeline.ingest, PgVectorStore.upsert_chunks), started  *)
(* by an attach call or by the NATS subject (rag/nats_handler.py).         *)
(*                                                                         *)
(* Every step is one transaction or one MinIO call; between two of them    *)
(* any other call, a deletion, or a restart of the service may come.       *)
(***************************************************************************)
EXTENDS KnowledgeTables

CONSTANTS Attaches,   \* calls of POST /v1/vector_stores/{id}/files
          Detaches,   \* calls of DELETE /v1/vector_stores/{id}/files/{fid}
          Ingests     \* messages on reasoner.v1.rag.ingest.request

ASSUME CallsAssumption == Attaches \intersect Ingests = {}

VARIABLES attach,   \* an attach call
          detach,   \* a detach call
          job       \* the run of ingest() that a call or a message started

\* What the properties remember of the past.
VARIABLES lost,       \* pairs whose status update failed, or whose call or job died
          purged,     \* files whose chunks a detach removed from every store
          unlisted    \* pairs whose chunks were written, or left, without a row

callVars == <<attach, detach, job>>
history == <<lost, purged, unlisted>>
vars == <<tableVars, callVars, history>>

Jobs == Attaches \union Ingests
Working == {"begin", "filename", "download", "upsert", "complete", "fail"}
Busy(j) == job[j].at \in Working

TypeOK ==
    /\ TablesTypeOK
    /\ attach \in [Attaches -> [at : {"idle", "select", "sync", "done", "raised"},
                                pair : Pairs, sync : BOOLEAN]]
    /\ detach \in [Detaches -> [at : {"idle", "purge", "done", "raised"}, pair : Pairs]]
    /\ job \in [Jobs -> [at : Working \union {"none", "ended", "raised"}, pair : Pairs]]
    /\ lost \in SUBSET Pairs
    /\ purged \in SUBSET Files
    /\ unlisted \in SUBSET Pairs

Init ==
    /\ TablesInit
    /\ LET p == CHOOSE p \in Pairs : TRUE
       IN  /\ attach = [a \in Attaches |-> [at |-> "idle", pair |-> p, sync |-> FALSE]]
           /\ detach = [d \in Detaches |-> [at |-> "idle", pair |-> p]]
           /\ job = [j \in Jobs |-> [at |-> "none", pair |-> p]]
    /\ lost = {}
    /\ purged = {}
    /\ unlisted = {}

\* A client names a store and a file it was given the ids of.
Known(p) == p[1] \in used /\ upload[p[2]] \in {"done", "raised"}

-----------------------------------------------------------------------------
(* attach_file *)

\* INSERT ... ON CONFLICT DO NOTHING; a missing parent violates a foreign key.
AttachInsert(a) ==
    /\ attach[a].at = "idle"
    /\ \E p \in Pairs, sync \in BOOLEAN :
          /\ Known(p)
          /\ \/ /\ ParentsExist(p)
                /\ listed' = IF listed[p] = "absent" THEN [listed EXCEPT ![p] = "queued"]
                                                     ELSE listed
                /\ attach' = [attach EXCEPT ![a] = [at |-> "select", pair |-> p, sync |-> sync]]
             \/ /\ ~ParentsExist(p) \/ "postgres" \in Faults
                /\ attach' = [attach EXCEPT ![a] = [at |-> "raised", pair |-> p, sync |-> sync]]
                /\ UNCHANGED listed
    /\ UNCHANGED <<files, stores, chunks, objects, kind, fileCalls, used, detach, job, history>>

\* Mutant of AttachSelect: a queued row counts as ingested.
AttachSelect_QueuedIsOld(a) ==
    /\ attach[a].at = "select"
    /\ LET p == attach[a].pair
       IN  IF listed[p] # "absent"
           THEN /\ attach' = [attach EXCEPT ![a].at = "done"]
                /\ UNCHANGED job
           ELSE /\ attach' = [attach EXCEPT ![a].at = IF attach[a].sync THEN "sync" ELSE "done"]
                /\ job' = [job EXCEPT ![a] = [at |-> "begin", pair |-> p]]
    /\ UNCHANGED <<tableVars, detach, history>>

\* The row is read back in a second transaction.  A status other than queued is
\* returned as it is; a queued row, or one that has gone meanwhile, is ingested:
\* awaited when the call is synchronous, as a background task otherwise.
AttachSelect(a) ==
    /\ attach[a].at = "select"
    /\ LET p == attach[a].pair
       IN  \/ /\ listed[p] \notin {"queued", "absent"}
              /\ attach' = [attach EXCEPT ![a].at = "done"]
              /\ UNCHANGED <<job, lost>>
           \/ /\ listed[p] \in {"queued", "absent"}
              /\ attach' = [attach EXCEPT ![a].at = IF attach[a].sync THEN "sync" ELSE "done"]
              /\ job' = [job EXCEPT ![a] = [at |-> "begin", pair |-> p]]
              /\ UNCHANGED lost
           \/ /\ "postgres" \in Faults
              /\ attach' = [attach EXCEPT ![a].at = "raised"]
              /\ lost' = lost \union {p}
              /\ UNCHANGED job
    /\ UNCHANGED <<tableVars, detach, purged, unlisted>>

\* sync_timeout_s passes: wait_for cancels ingest() where it stands, which no
\* `except Exception` of it sees, and a background task starts it over.  So does
\* a TimeoutError that ingest() itself got from the database and re-raised.
SyncTimeout(a) ==
    /\ attach[a].at = "sync"
    /\ \/ Busy(a) /\ "timeout" \in Faults
       \/ job[a].at = "raised" /\ "postgres" \in Faults
    /\ attach' = [attach EXCEPT ![a].at = "done"]
    /\ job' = [job EXCEPT ![a].at = "begin"]
    /\ UNCHANGED <<tableVars, detach, history>>

SyncReturn(a) ==
    /\ attach[a].at = "sync"
    /\ ~Busy(a)
    /\ attach' = [attach EXCEPT ![a].at = "done"]
    /\ UNCHANGED <<tableVars, detach, job, history>>

-----------------------------------------------------------------------------
(* IngestPipeline.ingest *)

\* reasoner.v1.rag.ingest.request names any pair, attached or not.
IngestRequest(i) ==
    /\ job[i].at = "none"
    /\ \E p \in Pairs : Known(p) /\ job' = [job EXCEPT ![i] = [at |-> "begin", pair |-> p]]
    /\ UNCHANGED <<tableVars, attach, detach, history>>

\* _update_status: no row, no update.
SetStatus(p, status) ==
    listed' = IF listed[p] = "absent" THEN listed ELSE [listed EXCEPT ![p] = status]

Step(j, at) == job' = [job EXCEPT ![j].at = at]

\* Mutant of Begin: a status the schema of the API does not know.
Begin_Pending(j) ==
    /\ job[j].at = "begin"
    /\ SetStatus(job[j].pair, "pending")
    /\ Step(j, "filename")
    /\ UNCHANGED <<files, stores, chunks, objects, kind, fileCalls, used, attach, detach, history>>

Begin(j) ==
    /\ job[j].at = "begin"
    /\ \/ SetStatus(job[j].pair, "processing") /\ Step(j, "filename")
       \/ "postgres" \in Faults /\ Step(j, "fail") /\ UNCHANGED listed
    /\ UNCHANGED <<files, stores, chunks, objects, kind, fileCalls, used, attach, detach, history>>

Filename(j) ==
    /\ job[j].at = "filename"
    /\ \/ /\ job[j].pair[2] \in files
          /\ Step(j, "download")
       \/ /\ job[j].pair[2] \notin files \/ "postgres" \in Faults
          /\ Step(j, "fail")
    /\ UNCHANGED <<tableVars, attach, detach, history>>

\* Download, then parse, chunk and encode, which do not yield: a corrupt
\* document raises, a blank one has no chunks.
Download(j) ==
    /\ job[j].at = "download"
    /\ LET f == job[j].pair[2]
       IN  \/ /\ f \in objects
              /\ Step(j, CASE kind[f] = "text" -> "upsert"
                           [] kind[f] = "blank" -> "complete"
                           [] kind[f] = "corrupt" -> "fail")
           \/ /\ f \notin objects \/ "minio" \in Faults
              /\ Step(j, "fail")
    /\ UNCHANGED <<tableVars, attach, detach, history>>

\* Mutant of Upsert: its failure does not stop the pipeline.
Upsert_Unchecked(j) ==
    /\ job[j].at = "upsert"
    /\ \/ /\ ParentsExist(job[j].pair)
          /\ chunks' = chunks \union {job[j].pair}
          /\ unlisted' = IF listed[job[j].pair] = "absent" THEN unlisted \union {job[j].pair}
                                                           ELSE unlisted
       \/ "postgres" \in Faults /\ UNCHANGED <<chunks, unlisted>>
    /\ Step(j, "complete")
    /\ UNCHANGED <<files, stores, listed, objects, kind, fileCalls, used, attach, detach,
                   lost, purged>>

\* Mutant of Upsert: a foreign key violation is retried until the parents are there.
Upsert_WaitsForParents(j) ==
    /\ job[j].at = "upsert"
    /\ LET p == job[j].pair
       IN  \/ /\ ParentsExist(p)
              /\ chunks' = chunks \union {p}
              /\ unlisted' = IF listed[p] = "absent" THEN unlisted \union {p} ELSE unlisted
              /\ Step(j, "complete")
           \/ /\ ParentsExist(p) /\ "postgres" \in Faults
              /\ Step(j, "fail")
              /\ UNCHANGED <<chunks, unlisted>>
    /\ UNCHANGED <<files, stores, listed, objects, kind, fileCalls, used, attach, detach,
                   lost, purged>>

\* One transaction; the foreign keys refuse chunks of a deleted file or store,
\* nothing refuses chunks of a file that is not in the store any more.
Upsert(j) ==
    /\ job[j].at = "upsert"
    /\ LET p == job[j].pair
       IN  \/ /\ ParentsExist(p)
              /\ chunks' = chunks \union {p}
              /\ unlisted' = IF listed[p] = "absent" THEN unlisted \union {p} ELSE unlisted
              /\ Step(j, "complete")
           \/ /\ ~ParentsExist(p) \/ "postgres" \in Faults
              /\ Step(j, "fail")
              /\ UNCHANGED <<chunks, unlisted>>
    /\ UNCHANGED <<files, stores, listed, objects, kind, fileCalls, used, attach, detach,
                   lost, purged>>

Complete(j) ==
    /\ job[j].at = "complete"
    /\ \/ SetStatus(job[j].pair, "completed") /\ Step(j, "ended")
       \/ "postgres" \in Faults /\ Step(j, "fail") /\ UNCHANGED listed
    /\ UNCHANGED <<files, stores, chunks, objects, kind, fileCalls, used, attach, detach, history>>

\* Mutant of Fail: the exception is re-raised without the status.
Fail_NoStatus(j) ==
    /\ job[j].at = "fail"
    /\ Step(j, "raised")
    /\ UNCHANGED <<tableVars, attach, detach, history>>

\* The `except Exception` of ingest: an exception in here leaves the row as it is.
Fail(j) ==
    /\ job[j].at = "fail"
    /\ Step(j, "raised")
    /\ \/ SetStatus(job[j].pair, "failed") /\ UNCHANGED lost
       \/ "postgres" \in Faults /\ lost' = lost \union {job[j].pair} /\ UNCHANGED listed
    /\ UNCHANGED <<files, stores, chunks, objects, kind, fileCalls, used, attach, detach,
                   purged, unlisted>>

-----------------------------------------------------------------------------
(* delete_file of vector_stores_router.py *)

\* Mutant of DetachRow: the chunks are left to the foreign keys.
DetachRow_CascadeOnly(d) ==
    /\ detach[d].at = "idle"
    /\ \E p \in Pairs :
          /\ Known(p)
          /\ detach' = [detach EXCEPT ![d] = [at |-> "done", pair |-> p]]
          /\ listed' = [listed EXCEPT ![p] = "absent"]
    /\ UNCHANGED <<files, stores, chunks, objects, kind, fileCalls, used, attach, job, history>>

\* DELETE ... RETURNING: without a row the answer is 404 and nothing is purged.
DetachRow(d) ==
    /\ detach[d].at = "idle"
    /\ \E p \in Pairs :
          /\ Known(p)
          /\ detach' = [detach EXCEPT ![d] =
                          [at |-> IF listed[p] = "absent" THEN "done" ELSE "purge", pair |-> p]]
          /\ listed' = [listed EXCEPT ![p] = "absent"]
    /\ UNCHANGED <<files, stores, chunks, objects, kind, fileCalls, used, attach, job, history>>

\* delete_by_file(fid): WHERE file_id = :file_id, whatever the store.
Purge(d) ==
    /\ detach[d].at = "purge"
    /\ LET p == detach[d].pair
       IN  \/ /\ chunks' = chunks \ (Stores \X {p[2]})
              /\ purged' = purged \union {p[2]}
              /\ detach' = [detach EXCEPT ![d].at = "done"]
              /\ UNCHANGED unlisted
           \/ /\ "postgres" \in Faults
              /\ unlisted' = unlisted \union {p}
              /\ detach' = [detach EXCEPT ![d].at = "raised"]
              /\ UNCHANGED <<chunks, purged>>
    /\ UNCHANGED <<files, stores, listed, objects, kind, fileCalls, used, attach, job, lost>>

-----------------------------------------------------------------------------
(* A restart loses the calls and the background tasks; tables and objects stay. *)

Restart ==
    /\ "restart" \in Faults
    /\ FileCallsDie
    /\ attach' = [a \in Attaches |-> IF attach[a].at \in {"select", "sync"}
                                     THEN [attach[a] EXCEPT !.at = "raised"] ELSE attach[a]]
    /\ job' = [j \in Jobs |-> IF Busy(j) THEN [job[j] EXCEPT !.at = "ended"] ELSE job[j]]
    /\ detach' = [d \in Detaches |-> IF detach[d].at = "purge"
                                     THEN [detach[d] EXCEPT !.at = "raised"] ELSE detach[d]]
    /\ lost' = lost \union {job[j].pair : j \in {j \in Jobs : Busy(j)}}
                    \union {attach[a].pair : a \in {a \in Attaches : attach[a].at = "select"}}
    /\ unlisted' = unlisted \union
                   {detach[d].pair : d \in {d \in Detaches : detach[d].at = "purge"}}
    /\ UNCHANGED <<tables, objects, kind, used, purged>>

Ingest(j) ==
    \/ Begin(j) \/ Filename(j) \/ Download(j)
    \/ Upsert(j) \/ Complete(j) \/ Fail(j)

Next ==
    \/ ManageFiles /\ UNCHANGED <<callVars, history>>
    \/ \E a \in Attaches :
          AttachInsert(a) \/ AttachSelect(a) \/ SyncTimeout(a) \/ SyncReturn(a)
    \/ \E i \in Ingests : IngestRequest(i)
    \/ \E j \in Jobs : Ingest(j)
    \/ \E d \in Detaches : DetachRow(d) \/ Purge(d)
    \/ Restart

\* The event loop runs the calls and jobs it has; PostgreSQL and MinIO answer or
\* fail, their clients have timeouts.
FairCall(a) == WF_vars(AttachSelect(a))
FairJob(j) == WF_vars(Ingest(j))
Fairness == (\A a \in Attaches : FairCall(a)) /\ (\A j \in Jobs : FairJob(j))

Spec == Init /\ [][Next]_vars
FairSpec == Spec /\ Fairness

-----------------------------------------------------------------------------
(* Correctness. *)

Unfinished(p) == listed[p] \in {"queued", "processing"}

\* A file that is listed as completed can be found: its chunks are stored,
\* unless a detach of the same file purged them from every store.
CompletedIsSearchable ==
    \A p \in Pairs :
        (listed[p] = "completed" /\ kind[p[2]] = "text" /\ p[2] \notin purged) => p \in chunks

\* A row that is queued or processing is somebody's business: a call is about
\* to start its ingestion or a job runs it, unless the process died or a status
\* update failed.
UnfinishedIsOwned ==
    \A p \in Pairs : Unfinished(p) =>
        \/ p \in lost
        \/ \E a \in Attaches : attach[a].at = "select" /\ attach[a].pair = p
        \/ \E j \in Jobs : Busy(j) /\ job[j].pair = p

\* Chunks whose file is not in the store are being purged, or were written by a
\* job that ran on without a row or left behind by a detach that did not end.
ChunksAreListed ==
    \A p \in chunks : listed[p] = "absent" =>
        \/ p \in unlisted
        \/ \E d \in Detaches : detach[d].at = "purge" /\ detach[d].pair = p

\* A job or a call in work can go on, whatever the others have deleted: each of
\* its steps has a way out, as nothing in ingest() waits for another call.
JobsCanGoOn ==
    /\ \A j \in Jobs : Busy(j) => ENABLED <<Ingest(j)>>_vars
    /\ \A a \in Attaches : attach[a].at = "select" => ENABLED <<AttachSelect(a)>>_vars

\* Every attached file comes to an end: it is completed, failed or gone,
\* whatever is deleted, detached or timed out meanwhile, unless it was lost.
IngestSettles ==
    \A p \in Pairs : Unfinished(p) ~> (~Unfinished(p) \/ p \in lost)

-----------------------------------------------------------------------------
(* What the documents say and the code does not do. *)

\* specs/013-sherlock-rag-api/spec.md, edge cases: "Same file added to VS twice:
\* Second POST is idempotent - returns existing VectorStoreFile row, does not
\* re-ingest".  Two calls that both find the row queued both ingest.
OneIngestPerAttachment ==
    \A a, b \in Attaches :
        (Busy(a) /\ Busy(b) /\ job[a].pair = job[b].pair) => a = b

=============================================================================
