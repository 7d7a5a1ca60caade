------------------------ MODULE KnowledgeBase_proofs ------------------------
(***************************************************************************)
(* Theorems about KnowledgeBase, for any sets of files, stores and calls,  *)
(* and any faults.                                                         *)
(***************************************************************************)
EXTENDS KnowledgeBase, TLAPS

\* The variables of the calls, typed one by one.
CallsTypeOK ==
    /\ attach \in [Attaches -> [at : {"idle", "select", "sync", "done", "raised"},
                                pair : Pairs, sync : BOOLEAN]]
    /\ detach \in [Detaches -> [at : {"idle", "purge", "done", "raised"}, pair : Pairs]]
    /\ job \in [Jobs -> [at : Working \union {"none", "ended", "raised"}, pair : Pairs]]

HistoryTypeOK ==
    /\ lost \in SUBSET Pairs
    /\ purged \in SUBSET Files
    /\ unlisted \in SUBSET Pairs

LEMMA PairsNonEmpty == (CHOOSE p \in Pairs : TRUE) \in Pairs
<1>1. PICK v \in Stores, f \in Files : TRUE
    BY IdsAssumption
<1>2. <<v, f>> \in Pairs
    BY DEF Pairs
<1> QED
    BY <1>2

LEMMA InitType == Init => TypeOK
<1> SUFFICES ASSUME Init PROVE TypeOK
    OBVIOUS
<1>1. TablesTypeOK
    BY IdsAssumption DEF Init, TablesInit, TablesTypeOK, Statuses
<1>2. CallsTypeOK
    BY PairsNonEmpty DEF Init, CallsTypeOK
<1>3. HistoryTypeOK
    BY DEF Init, HistoryTypeOK
<1> QED
    BY <1>1, <1>2, <1>3 DEF TypeOK, CallsTypeOK, HistoryTypeOK

LEMMA SetStatusType ==
    ASSUME TablesTypeOK, NEW p \in Pairs, NEW status \in Statuses, SetStatus(p, status)
    PROVE  listed' \in [Pairs -> Statuses]
BY DEF TablesTypeOK, SetStatus

LEMMA StepType ==
    ASSUME CallsTypeOK, NEW j \in Jobs, NEW at \in Working \union {"ended", "raised"}, Step(j, at),
           UNCHANGED <<attach, detach>>
    PROVE  CallsTypeOK'
BY DEF CallsTypeOK, Step

\* The calls that manage files and stores keep the tables well typed.
LEMMA ManageType == TablesTypeOK /\ ManageFiles => TablesTypeOK'
<1> SUFFICES ASSUME TablesTypeOK, ManageFiles PROVE TablesTypeOK'
    OBVIOUS
<1> USE DEF TablesTypeOK
<1>1. ASSUME NEW f \in Files, PutObject(f) PROVE TablesTypeOK'
    BY <1>1 DEF PutObject, tables
<1>2. ASSUME NEW f \in Files, InsertFile(f) PROVE TablesTypeOK'
    BY <1>2 DEF InsertFile
<1>3. ASSUME NEW d \in Deletes, FindFile(d) PROVE TablesTypeOK'
    BY <1>3 DEF FindFile, tables
<1>4. ASSUME NEW d \in Deletes, DeleteFileRow(d) PROVE TablesTypeOK'
    BY <1>4 DEF DeleteFileRow, Cascade, Statuses
<1>5. ASSUME NEW d \in Deletes, DeleteObject(d) PROVE TablesTypeOK'
    BY <1>5 DEF DeleteObject, tables
<1>6. ASSUME NEW v \in Stores, CreateStore(v) PROVE TablesTypeOK'
    BY <1>6 DEF CreateStore, fileCalls
<1>7. ASSUME NEW v \in Stores, DeleteStore(v) PROVE TablesTypeOK'
    BY <1>7 DEF DeleteStore, Cascade, Statuses, fileCalls
<1> QED
    BY <1>1, <1>2, <1>3, <1>4, <1>5, <1>6, <1>7 DEF ManageFiles

LEMMA TypeStep == TypeOK /\ [Next]_vars => TypeOK'
<1> SUFFICES ASSUME TypeOK, [Next]_vars PROVE TypeOK'
    OBVIOUS
<1> USE DEF fileCalls, tables, tableVars, history
<1>type. TablesTypeOK /\ CallsTypeOK /\ HistoryTypeOK
    BY DEF TypeOK, CallsTypeOK, HistoryTypeOK
<1>qed. SUFFICES TablesTypeOK' /\ CallsTypeOK' /\ HistoryTypeOK'
    BY DEF TypeOK, CallsTypeOK, HistoryTypeOK
<1>1. CASE ManageFiles /\ UNCHANGED <<callVars, history>>
    BY <1>1, <1>type, ManageType DEF callVars, CallsTypeOK, HistoryTypeOK
<1>2. ASSUME NEW a \in Attaches, AttachInsert(a) PROVE TablesTypeOK' /\ CallsTypeOK' /\ HistoryTypeOK'
  <2>1. TablesTypeOK'
    BY <1>2, <1>type DEF AttachInsert, TablesTypeOK, Statuses
  <2>2. CallsTypeOK' /\ HistoryTypeOK'
    BY <1>2, <1>type DEF AttachInsert, CallsTypeOK, HistoryTypeOK
  <2> QED
    BY <2>1, <2>2
<1>3. ASSUME NEW a \in Attaches, AttachSelect(a) PROVE TablesTypeOK' /\ CallsTypeOK' /\ HistoryTypeOK'
  <2>1. TablesTypeOK' /\ HistoryTypeOK'
    BY <1>3, <1>type DEF AttachSelect, TablesTypeOK, CallsTypeOK, HistoryTypeOK
  <2>2. CallsTypeOK'
    BY <1>3, <1>type DEF AttachSelect, CallsTypeOK, Jobs, Working
  <2> QED
    BY <2>1, <2>2
<1>4. ASSUME NEW a \in Attaches, SyncTimeout(a) PROVE TablesTypeOK' /\ CallsTypeOK' /\ HistoryTypeOK'
  <2>1. TablesTypeOK' /\ HistoryTypeOK'
    BY <1>4, <1>type DEF SyncTimeout, TablesTypeOK, HistoryTypeOK
  <2>2. CallsTypeOK'
    <3>1. attach' = [attach EXCEPT ![a].at = "done"] /\ job' = [job EXCEPT ![a].at = "begin"] /\ detach' = detach
      BY <1>4 DEF SyncTimeout
    <3>2. job' \in [Jobs -> [at : Working \union {"none", "ended", "raised"}, pair : Pairs]]
      BY <3>1, <1>type DEF CallsTypeOK, Working
    <3> QED
      BY <3>1, <3>2, <1>type DEF CallsTypeOK
  <2> QED
    BY <2>1, <2>2
<1>5. ASSUME NEW a \in Attaches, SyncReturn(a) PROVE TablesTypeOK' /\ CallsTypeOK' /\ HistoryTypeOK'
    BY <1>5, <1>type DEF SyncReturn, TablesTypeOK, CallsTypeOK, HistoryTypeOK
<1>6. ASSUME NEW i \in Ingests, IngestRequest(i) PROVE TablesTypeOK' /\ CallsTypeOK' /\ HistoryTypeOK'
    BY <1>6, <1>type DEF IngestRequest, TablesTypeOK, CallsTypeOK, HistoryTypeOK, Jobs, Working
<1>7. ASSUME NEW j \in Jobs, Ingest(j) PROVE TablesTypeOK' /\ CallsTypeOK' /\ HistoryTypeOK'
  <2>pair. job[j].pair \in Pairs
    BY <1>type DEF CallsTypeOK
  <2>1. CASE Begin(j)
    BY <2>1, <2>pair, <1>type, SetStatusType, StepType DEF Begin, TablesTypeOK, HistoryTypeOK, Statuses, Working
  <2>2. CASE Filename(j)
    BY <2>2, <1>type, StepType DEF Filename, TablesTypeOK, HistoryTypeOK, Working
  <2>3. CASE Download(j)
    <3>1. job[j].pair[2] \in Files
      BY <2>pair DEF Pairs
    <3>2. \E at \in {"upsert", "complete", "fail"} : Step(j, at)
      BY <2>3, <3>1, <1>type DEF Download, TablesTypeOK, Kinds
    <3> QED
      BY <2>3, <3>2, <1>type, StepType DEF Download, TablesTypeOK, HistoryTypeOK, Working
  <2>4. CASE Upsert(j)
    BY <2>4, <2>pair, <1>type, StepType DEF Upsert, TablesTypeOK, HistoryTypeOK, Working
  <2>5. CASE Complete(j)
    BY <2>5, <2>pair, <1>type, SetStatusType, StepType DEF Complete, TablesTypeOK, HistoryTypeOK, Statuses, Working
  <2>6. CASE Fail(j)
    BY <2>6, <2>pair, <1>type, SetStatusType, StepType DEF Fail, TablesTypeOK, HistoryTypeOK, Statuses
  <2> QED
    BY <1>7, <2>1, <2>2, <2>3, <2>4, <2>5, <2>6 DEF Ingest
<1>8. ASSUME NEW d \in Detaches, DetachRow(d) PROVE TablesTypeOK' /\ CallsTypeOK' /\ HistoryTypeOK'
    BY <1>8, <1>type DEF DetachRow, TablesTypeOK, CallsTypeOK, HistoryTypeOK, Statuses
<1>9. ASSUME NEW d \in Detaches, Purge(d) PROVE TablesTypeOK' /\ CallsTypeOK' /\ HistoryTypeOK'
  <2>pair. detach[d].pair \in Pairs /\ detach[d].pair[2] \in Files
    BY <1>type DEF CallsTypeOK, Pairs
  <2>1. TablesTypeOK' /\ HistoryTypeOK'
    BY <1>9, <2>pair, <1>type DEF Purge, TablesTypeOK, HistoryTypeOK
  <2>2. CallsTypeOK'
    BY <1>9, <1>type DEF Purge, CallsTypeOK
  <2> QED
    BY <2>1, <2>2
<1>10. CASE Restart
  <2>1. TablesTypeOK'
    BY <1>10, <1>type DEF Restart, FileCallsDie, TablesTypeOK
  <2>2. CallsTypeOK'
    BY <1>10, <1>type DEF Restart, CallsTypeOK
  <2>3. HistoryTypeOK'
    BY <1>10, <1>type DEF Restart, HistoryTypeOK, CallsTypeOK, Jobs
  <2> QED
    BY <2>1, <2>2, <2>3
<1>11. CASE UNCHANGED vars
    BY <1>11, <1>type DEF vars, callVars, TablesTypeOK, CallsTypeOK, HistoryTypeOK
<1> QED
    BY <1>1, <1>2, <1>3, <1>4, <1>5, <1>6, <1>7, <1>8, <1>9, <1>10, <1>11 DEF Next

\* Type correctness of the tables, the bucket, the calls and the jobs.
THEOREM TypeCorrect == Spec => []TypeOK
BY InitType, TypeStep, PTL DEF Spec

-----------------------------------------------------------------------------
(* Rows have objects. *)

\* A pending insert has its object, a row was inserted by its upload, and a
\* removal names a row, until it has deleted it.
ObjectsFirst ==
    /\ \A f \in Files : upload[f] = "insert" => f \in objects
    /\ \A f \in files : upload[f] = "done"
    /\ \A d \in Deletes :
          /\ removal[d].at \in {"row", "object"} => upload[removal[d].file] = "done"
          /\ removal[d].at = "object" => removal[d].file \notin files

LEMMA ObjectsInit == Init => ObjectsFirst /\ RowsHaveObjects
BY DEF Init, TablesInit, ObjectsFirst, RowsHaveObjects

LEMMA ObjectsStep ==
    ASSUME TypeOK, ObjectsFirst, RowsHaveObjects, [Next]_vars
    PROVE  ObjectsFirst' /\ RowsHaveObjects'
<1> USE DEF ObjectsFirst, RowsHaveObjects
<1>type. TablesTypeOK
    BY DEF TypeOK
<1>1. ASSUME NEW f \in Files, PutObject(f) PROVE ObjectsFirst' /\ RowsHaveObjects'
    BY <1>1, <1>type DEF PutObject, tables, TablesTypeOK
<1>2. ASSUME NEW f \in Files, InsertFile(f) PROVE ObjectsFirst' /\ RowsHaveObjects'
    BY <1>2, <1>type DEF InsertFile, TablesTypeOK
<1>3. ASSUME NEW d \in Deletes, FindFile(d) PROVE ObjectsFirst' /\ RowsHaveObjects'
    BY <1>3, <1>type DEF FindFile, tables, TablesTypeOK
<1>4. ASSUME NEW d \in Deletes, DeleteFileRow(d) PROVE ObjectsFirst' /\ RowsHaveObjects'
    BY <1>4, <1>type DEF DeleteFileRow, TablesTypeOK
<1>5. ASSUME NEW d \in Deletes, DeleteObject(d) PROVE ObjectsFirst' /\ RowsHaveObjects'
    BY <1>5, <1>type DEF DeleteObject, tables, TablesTypeOK
<1>6. CASE UNCHANGED <<files, objects, upload, removal>>
    BY <1>6
<1>7. ASSUME NEW v \in Stores, CreateStore(v) \/ DeleteStore(v) PROVE UNCHANGED <<files, objects, upload, removal>>
    BY <1>7 DEF CreateStore, DeleteStore, fileCalls
<1>8. ManageFiles => ObjectsFirst' /\ RowsHaveObjects'
    BY <1>1, <1>2, <1>3, <1>4, <1>5, <1>6, <1>7 DEF ManageFiles
<1>9. CASE Restart
    BY <1>9, <1>type DEF Restart, FileCallsDie, tables, TablesTypeOK
<1>10. ASSUME NEW a \in Attaches,
              AttachInsert(a) \/ AttachSelect(a) \/ SyncTimeout(a) \/ SyncReturn(a)
       PROVE  UNCHANGED <<files, objects, upload, removal>>
    BY <1>10 DEF AttachInsert, AttachSelect, SyncTimeout, SyncReturn, tableVars, tables, fileCalls
<1>11. ASSUME NEW i \in Ingests, IngestRequest(i) PROVE UNCHANGED <<files, objects, upload, removal>>
    BY <1>11 DEF IngestRequest, tableVars, tables, fileCalls
<1>12. ASSUME NEW j \in Jobs, Ingest(j) PROVE UNCHANGED <<files, objects, upload, removal>>
    BY <1>12 DEF Ingest, Begin, Filename, Download, Upsert, Complete, Fail, tableVars, tables, fileCalls
<1>13. ASSUME NEW d \in Detaches, DetachRow(d) \/ Purge(d) PROVE UNCHANGED <<files, objects, upload, removal>>
    BY <1>13 DEF DetachRow, Purge, fileCalls
<1>14. CASE UNCHANGED vars
    BY <1>14 DEF vars, tableVars, tables, fileCalls
<1> QED
    BY <1>6, <1>8, <1>9, <1>10, <1>11, <1>12, <1>13, <1>14 DEF Next

\* A file that is in the table can be downloaded: its object is in the bucket.
THEOREM FilesCanBeDownloaded == Spec => []RowsHaveObjects
<1>1. Init => TypeOK /\ ObjectsFirst /\ RowsHaveObjects
    BY InitType, ObjectsInit
<1>2. TypeOK /\ ObjectsFirst /\ RowsHaveObjects /\ [Next]_vars
        => (TypeOK /\ ObjectsFirst /\ RowsHaveObjects)'
    BY TypeStep, ObjectsStep
<1> QED
    BY <1>1, <1>2, PTL DEF Spec

-----------------------------------------------------------------------------
(* Chunks without a row. *)

Purging(p) == \E d \in Detaches : detach[d].at = "purge" /\ detach[d].pair = p

LEMMA ChunksStep ==
    ASSUME TypeOK, ChunksAreListed, [Next]_vars
    PROVE  ChunksAreListed'
<1> SUFFICES ASSUME NEW p \in Pairs, p \in chunks', listed'[p] = "absent"
             PROVE  p \in unlisted' \/ Purging(p)'
    BY TypeStep DEF ChunksAreListed, Purging, TypeOK, TablesTypeOK
<1>type. TablesTypeOK /\ CallsTypeOK /\ HistoryTypeOK
    BY DEF TypeOK, CallsTypeOK, HistoryTypeOK
<1>old. ASSUME p \in chunks, listed[p] = "absent" PROVE p \in unlisted \/ Purging(p)
    BY <1>old DEF ChunksAreListed, Purging
<1>same. CASE UNCHANGED <<listed, chunks, unlisted, detach>>
    BY <1>same, <1>old DEF Purging
<1>1. CASE ManageFiles /\ UNCHANGED <<callVars, history>>
  <2>1. p \in chunks /\ listed[p] = "absent"
    BY <1>1, <1>type DEF ManageFiles, PutObject, InsertFile, FindFile, DeleteFileRow,
        DeleteObject, CreateStore, DeleteStore, Cascade, tables, TablesTypeOK
  <2> QED
    BY <1>1, <2>1, <1>old DEF Purging, callVars, history
<1>2. ASSUME NEW a \in Attaches, AttachInsert(a) PROVE p \in unlisted' \/ Purging(p)'
  <2>1. p \in chunks /\ listed[p] = "absent"
    BY <1>2, <1>type DEF AttachInsert, TablesTypeOK
  <2> QED
    BY <1>2, <2>1, <1>old DEF Purging, AttachInsert, history
<1>3. ASSUME NEW a \in Attaches, AttachSelect(a) \/ SyncTimeout(a) \/ SyncReturn(a)
      PROVE  UNCHANGED <<listed, chunks, unlisted, detach>>
    BY <1>3 DEF AttachSelect, SyncTimeout, SyncReturn, tableVars, tables, history
<1>4. ASSUME NEW i \in Ingests, IngestRequest(i) PROVE UNCHANGED <<listed, chunks, unlisted, detach>>
    BY <1>4 DEF IngestRequest, tableVars, tables, history
<1>5. ASSUME NEW j \in Jobs, Ingest(j) PROVE p \in unlisted' \/ Purging(p)'
  <2>pair. job[j].pair \in Pairs
    BY <1>type DEF CallsTypeOK
  <2>1. CASE Begin(j) \/ Complete(j) \/ Fail(j)
    <3>1. p \in chunks /\ listed[p] = "absent"
      BY <2>1, <2>pair, <1>type DEF Begin, Complete, Fail, SetStatus, TablesTypeOK
    <3> QED
      BY <2>1, <3>1, <1>old DEF Purging, Begin, Complete, Fail, history
  <2>2. CASE Filename(j) \/ Download(j)
    BY <2>2, <1>same DEF Filename, Download, tableVars, tables, history
  <2>3. CASE Upsert(j)
    BY <2>3, <2>pair, <1>old DEF Purging, Upsert
  <2> QED
    BY <1>5, <2>1, <2>2, <2>3 DEF Ingest
<1>6. ASSUME NEW d \in Detaches, DetachRow(d) PROVE p \in unlisted' \/ Purging(p)'
  <2>1. PICK q \in Pairs :
           /\ detach' = [detach EXCEPT ![d] =
                [at |-> IF listed[q] = "absent" THEN "done" ELSE "purge", pair |-> q]]
           /\ listed' = [listed EXCEPT ![q] = "absent"]
           /\ detach[d].at = "idle"
           /\ UNCHANGED <<chunks, unlisted>>
    BY <1>6 DEF DetachRow, history
  <2>2. CASE listed[p] = "absent"
    BY <2>1, <2>2, <1>old, <1>type DEF Purging, CallsTypeOK
  <2>3. CASE listed[p] # "absent"
    BY <2>1, <2>3, <1>type DEF Purging, CallsTypeOK, TablesTypeOK
  <2> QED
    BY <2>2, <2>3
<1>7. ASSUME NEW d \in Detaches, Purge(d) PROVE p \in unlisted' \/ Purging(p)'
  <2>1. CASE detach[d].pair = p
    BY <1>7, <2>1 DEF Purge, Pairs
  <2>2. CASE detach[d].pair # p
    <3>1. p \in chunks /\ listed[p] = "absent"
      BY <1>7 DEF Purge
    <3> QED
      BY <1>7, <2>2, <3>1, <1>old, <1>type DEF Purge, Purging, CallsTypeOK
  <2> QED
    BY <2>1, <2>2
<1>8. CASE Restart
    BY <1>8, <1>old, <1>type DEF Restart, Purging, tables, CallsTypeOK
<1>9. CASE UNCHANGED vars
    BY <1>9, <1>same DEF vars, tableVars, tables, callVars, history
<1> QED
    BY <1>same, <1>1, <1>2, <1>3, <1>4, <1>5, <1>6, <1>7, <1>8, <1>9 DEF Next

\* Chunks of a file that is not in the store are being purged, or come from a
\* job that ran on without a row or a detach that did not end.
THEOREM OrphanChunksExplained == Spec => []ChunksAreListed
<1>1. Init => TypeOK /\ ChunksAreListed
    BY InitType DEF Init, TablesInit, ChunksAreListed
<1>2. TypeOK /\ ChunksAreListed /\ [Next]_vars => (TypeOK /\ ChunksAreListed)'
    BY TypeStep, ChunksStep
<1> QED
    BY <1>1, <1>2, PTL DEF Spec

-----------------------------------------------------------------------------
(* What is completed is searchable. *)

\* A row has its parents.
Attached == \A p \in Pairs : listed[p] # "absent" => ParentsExist(p)

\* Calls and jobs are about ids that were given out, which never are again.
KnownCalls ==
    /\ \A a \in Attaches : attach[a].at # "idle" => Known(attach[a].pair)
    /\ \A j \in Jobs : job[j].at # "none" => Known(job[j].pair)

\* The chunks of p are stored, if it has some and may have them.
Searchable(p) ==
    (kind[p[2]] = "text" /\ p[2] \notin purged /\ ParentsExist(p)) => p \in chunks

\* A job about to complete has stored the chunks.
Ready == \A j \in Jobs : job[j].at = "complete" => Searchable(job[j].pair)

LEMMA AttachedStep ==
    ASSUME TypeOK, Attached, [Next]_vars
    PROVE  Attached'
<1> SUFFICES ASSUME NEW p \in Pairs, listed'[p] # "absent" PROVE ParentsExist(p)'
    BY DEF Attached
<1>type. TablesTypeOK /\ CallsTypeOK
    BY DEF TypeOK, CallsTypeOK
<1>old. listed[p] # "absent" => ParentsExist(p)
    BY DEF Attached
<1>same. ASSUME UNCHANGED <<files, stores>>, listed[p] # "absent" PROVE ParentsExist(p)'
    BY <1>same, <1>old DEF ParentsExist
<1>1. ASSUME ManageFiles PROVE ParentsExist(p)'
  <2>1. ASSUME NEW d \in Deletes, DeleteFileRow(d) PROVE ParentsExist(p)'
    <3>1. CASE UNCHANGED <<files, listed>>
      BY <2>1, <3>1, <1>old DEF DeleteFileRow, ParentsExist
    <3>2. CASE files' = files \ {removal[d].file} /\ Cascade(Stores \X {removal[d].file})
      <4>1. listed[p] # "absent" /\ p[2] # removal[d].file
        BY <3>2, <1>type DEF Cascade, TablesTypeOK, Pairs
      <4> QED
        BY <2>1, <3>2, <4>1, <1>old DEF DeleteFileRow, ParentsExist
    <3> QED
      BY <2>1, <3>1, <3>2 DEF DeleteFileRow
  <2>3. ASSUME NEW v \in Stores, DeleteStore(v) PROVE ParentsExist(p)'
    <3>1. listed[p] # "absent" /\ p[1] # v
      BY <2>3, <1>type DEF DeleteStore, Cascade, TablesTypeOK, Pairs
    <3> QED
      BY <2>3, <3>1, <1>old DEF DeleteStore, ParentsExist
  <2>4. ASSUME NEW f \in Files, PutObject(f) \/ InsertFile(f) PROVE ParentsExist(p)'
    BY <2>4, <1>old DEF PutObject, InsertFile, ParentsExist, tables
  <2>5. ASSUME NEW d \in Deletes, FindFile(d) \/ DeleteObject(d) PROVE ParentsExist(p)'
    BY <2>5, <1>old DEF FindFile, DeleteObject, ParentsExist, tables
  <2>6. ASSUME NEW v \in Stores, CreateStore(v) PROVE ParentsExist(p)'
    BY <2>6, <1>old DEF CreateStore, ParentsExist
  <2> QED
    BY <1>1, <2>1, <2>3, <2>4, <2>5, <2>6 DEF ManageFiles
<1>2. ASSUME NEW a \in Attaches, AttachInsert(a) PROVE ParentsExist(p)'
    BY <1>2, <1>old, <1>type DEF AttachInsert, ParentsExist, TablesTypeOK
<1>3. ASSUME NEW a \in Attaches, AttachSelect(a) \/ SyncTimeout(a) \/ SyncReturn(a)
      PROVE  ParentsExist(p)'
    BY <1>3, <1>same DEF AttachSelect, SyncTimeout, SyncReturn, tableVars, tables
<1>4. ASSUME NEW i \in Ingests, IngestRequest(i) PROVE ParentsExist(p)'
    BY <1>4, <1>same DEF IngestRequest, tableVars, tables
<1>5. ASSUME NEW j \in Jobs, Ingest(j) PROVE ParentsExist(p)'
  <2>1. CASE Filename(j) \/ Download(j) \/ Upsert(j)
    BY <2>1, <1>same DEF Filename, Download, Upsert, tableVars, tables
  <2>2. CASE Begin(j) \/ Complete(j) \/ Fail(j)
    <3>1. listed[p] # "absent"
      BY <2>2, <1>type DEF Begin, Complete, Fail, SetStatus, TablesTypeOK, CallsTypeOK
    <3> QED
      BY <2>2, <3>1, <1>same DEF Begin, Complete, Fail
  <2> QED
    BY <1>5, <2>1, <2>2 DEF Ingest
<1>6. ASSUME NEW d \in Detaches, DetachRow(d) \/ Purge(d) PROVE ParentsExist(p)'
  <2>1. listed[p] # "absent"
    BY <1>6, <1>type DEF DetachRow, Purge, TablesTypeOK
  <2> QED
    BY <1>6, <2>1, <1>same DEF DetachRow, Purge
<1>7. CASE Restart
    BY <1>7, <1>same DEF Restart, tables
<1>8. CASE UNCHANGED vars
    BY <1>8, <1>same DEF vars, tableVars, tables
<1> QED
    BY <1>1, <1>2, <1>3, <1>4, <1>5, <1>6, <1>7, <1>8 DEF Next

LEMMA KnownForEver ==
    ASSUME TypeOK, [Next]_vars, NEW p \in Pairs, Known(p)
    PROVE  Known(p)'
<1> USE DEF Known
<1>type. TablesTypeOK
    BY DEF TypeOK
<1>same. CASE UNCHANGED <<used, upload>>
    BY <1>same
<1>1. ASSUME ManageFiles PROVE Known(p)'
    BY <1>1, <1>type DEF ManageFiles, PutObject, InsertFile, FindFile, DeleteFileRow,
        DeleteObject, CreateStore, DeleteStore, fileCalls, TablesTypeOK, Pairs
<1>2. ASSUME NEW a \in Attaches,
             AttachInsert(a) \/ AttachSelect(a) \/ SyncTimeout(a) \/ SyncReturn(a)
      PROVE  UNCHANGED <<used, upload>>
    BY <1>2 DEF AttachInsert, AttachSelect, SyncTimeout, SyncReturn, tableVars, fileCalls
<1>3. ASSUME NEW i \in Ingests, IngestRequest(i) PROVE UNCHANGED <<used, upload>>
    BY <1>3 DEF IngestRequest, tableVars, fileCalls
<1>4. ASSUME NEW j \in Jobs, Ingest(j) PROVE UNCHANGED <<used, upload>>
    BY <1>4 DEF Ingest, Begin, Filename, Download, Upsert, Complete, Fail, tableVars, fileCalls
<1>5. ASSUME NEW d \in Detaches, DetachRow(d) \/ Purge(d) PROVE UNCHANGED <<used, upload>>
    BY <1>5 DEF DetachRow, Purge, fileCalls
<1>6. CASE Restart
    BY <1>6, <1>type DEF Restart, FileCallsDie, TablesTypeOK, Pairs
<1>7. CASE UNCHANGED vars
    BY <1>7 DEF vars, tableVars, fileCalls
<1> QED
    BY <1>same, <1>1, <1>2, <1>3, <1>4, <1>5, <1>6, <1>7 DEF Next

LEMMA KnownStep ==
    ASSUME TypeOK, KnownCalls, [Next]_vars
    PROVE  KnownCalls'
<1>type. CallsTypeOK
    BY DEF TypeOK, CallsTypeOK
<1>for. ASSUME NEW p \in Pairs, Known(p) PROVE Known(p)'
    BY <1>for, KnownForEver
<1>same. CASE UNCHANGED <<attach, job>>
    BY <1>same, <1>type, <1>for DEF KnownCalls, CallsTypeOK
<1>1. ASSUME NEW a \in Attaches, AttachInsert(a) PROVE KnownCalls'
  <2>1. PICK p \in Pairs, sync \in BOOLEAN, at \in {"select", "raised"} :
           /\ Known(p)
           /\ attach' = [attach EXCEPT ![a] = [at |-> at, pair |-> p, sync |-> sync]]
           /\ job' = job
    BY <1>1 DEF AttachInsert
  <2> QED
    BY <2>1, <1>type, <1>for DEF KnownCalls, CallsTypeOK
<1>2. ASSUME NEW a \in Attaches, AttachSelect(a) PROVE KnownCalls'
    BY <1>2, <1>type, <1>for DEF AttachSelect, KnownCalls, CallsTypeOK, Jobs
<1>3. ASSUME NEW a \in Attaches, SyncTimeout(a) PROVE KnownCalls'
  <2>1. job[a].at # "none"
    BY <1>3 DEF SyncTimeout, Busy, Working
  <2> QED
    BY <1>3, <2>1, <1>type, <1>for DEF SyncTimeout, KnownCalls, CallsTypeOK, Jobs
<1>4. ASSUME NEW a \in Attaches, SyncReturn(a) PROVE KnownCalls'
    BY <1>4, <1>type, <1>for DEF SyncReturn, KnownCalls, CallsTypeOK
<1>5. ASSUME NEW i \in Ingests, IngestRequest(i) PROVE KnownCalls'
    BY <1>5, <1>type, <1>for DEF IngestRequest, KnownCalls, CallsTypeOK, Jobs
<1>6. ASSUME NEW j \in Jobs, Ingest(j) PROVE KnownCalls'
  <2>1. job[j].at # "none" /\ UNCHANGED attach /\ \E at \in Working \union {"ended", "raised"} : Step(j, at)
    <3>1. CASE Begin(j) \/ Filename(j) \/ Upsert(j) \/ Complete(j) \/ Fail(j)
      BY <3>1 DEF Begin, Filename, Upsert, Complete, Fail, Working
    <3>2. CASE Download(j)
      <4>1. kind[job[j].pair[2]] \in Kinds
        BY <1>type DEF TypeOK, TablesTypeOK, CallsTypeOK, Pairs
      <4>2. \E at \in {"upsert", "complete", "fail"} : Step(j, at)
        BY <3>2, <4>1 DEF Download, Kinds
      <4> QED
        BY <3>2, <4>2 DEF Download, Working
    <3> QED
      BY <1>6, <3>1, <3>2 DEF Ingest
  <2> QED
    BY <2>1, <1>type, <1>for DEF Step, KnownCalls, CallsTypeOK
<1>7. CASE Restart
    BY <1>7, <1>type, <1>for DEF Restart, KnownCalls, CallsTypeOK, Busy, Working
<1>8. CASE UNCHANGED vars
    BY <1>8, <1>same DEF vars, callVars
<1>9. ASSUME NEW d \in Detaches, DetachRow(d) \/ Purge(d) PROVE UNCHANGED <<attach, job>>
    BY <1>9 DEF DetachRow, Purge
<1> QED
    BY <1>same, <1>1, <1>2, <1>3, <1>4, <1>5, <1>6, <1>7, <1>8, <1>9 DEF Next, callVars

\* No step takes the chunks of a known pair away and leaves it searchable.
LEMMA SearchableStep ==
    ASSUME TypeOK, [Next]_vars, NEW p \in Pairs, Known(p), Searchable(p)
    PROVE  Searchable(p)'
<1> USE DEF Searchable, ParentsExist, Known
<1>type. TablesTypeOK /\ CallsTypeOK
    BY DEF TypeOK, CallsTypeOK
<1>same. CASE UNCHANGED <<files, stores, chunks, kind, purged>>
    BY <1>same
<1>1. ASSUME ManageFiles, UNCHANGED history PROVE Searchable(p)'
  <2>1. ASSUME NEW f \in Files, PutObject(f) PROVE Searchable(p)'
    BY <1>1, <2>1 DEF PutObject, tables, history
  <2>2. ASSUME NEW f \in Files, InsertFile(f) PROVE Searchable(p)'
    BY <1>1, <2>2 DEF InsertFile, history
  <2>3. ASSUME NEW d \in Deletes, FindFile(d) \/ DeleteObject(d) PROVE Searchable(p)'
    BY <1>1, <2>3 DEF FindFile, DeleteObject, tables, history
  <2>4. ASSUME NEW d \in Deletes, DeleteFileRow(d) PROVE Searchable(p)'
    BY <1>1, <2>4 DEF DeleteFileRow, Cascade, history, Pairs
  <2>5. ASSUME NEW v \in Stores, CreateStore(v) PROVE Searchable(p)'
    BY <1>1, <2>5 DEF CreateStore, history
  <2>6. ASSUME NEW v \in Stores, DeleteStore(v) PROVE Searchable(p)'
    BY <1>1, <2>6 DEF DeleteStore, Cascade, history, Pairs
  <2> QED
    BY <1>1, <2>1, <2>2, <2>3, <2>4, <2>5, <2>6 DEF ManageFiles
<1>2. ASSUME NEW a \in Attaches,
             AttachInsert(a) \/ AttachSelect(a) \/ SyncTimeout(a) \/ SyncReturn(a)
      PROVE  UNCHANGED <<files, stores, chunks, kind, purged>>
    BY <1>2 DEF AttachInsert, AttachSelect, SyncTimeout, SyncReturn, tableVars, tables, history
<1>3. ASSUME NEW i \in Ingests, IngestRequest(i) PROVE UNCHANGED <<files, stores, chunks, kind, purged>>
    BY <1>3 DEF IngestRequest, tableVars, tables, history
<1>4. ASSUME NEW j \in Jobs, Ingest(j) PROVE Searchable(p)'
  <2>1. UNCHANGED <<files, stores, kind, purged>>
    BY <1>4 DEF Ingest, Begin, Filename, Download, Upsert, Complete, Fail, tableVars, tables, history
  <2>2. chunks \subseteq chunks'
    BY <1>4 DEF Ingest, Begin, Filename, Download, Upsert, Complete, Fail, tableVars, tables
  <2> QED
    BY <2>1, <2>2
<1>5. ASSUME NEW d \in Detaches, DetachRow(d) PROVE UNCHANGED <<files, stores, chunks, kind, purged>>
    BY <1>5 DEF DetachRow, history
<1>6. ASSUME NEW d \in Detaches, Purge(d) PROVE Searchable(p)'
    BY <1>6 DEF Purge, Pairs
<1>7. CASE Restart
    BY <1>7, <1>same DEF Restart, tables
<1>8. CASE UNCHANGED vars
    BY <1>8, <1>same DEF vars, tableVars, tables, history
<1> QED
    BY <1>same, <1>1, <1>2, <1>3, <1>4, <1>5, <1>6, <1>7, <1>8 DEF Next

\* A row appears by an attach call, and is completed by a job.
LEMMA RowStep ==
    ASSUME TypeOK, [Next]_vars, NEW p \in Pairs, listed'[p] # listed[p]
    PROVE  \/ listed'[p] = "absent"
           \/ listed'[p] = "queued" /\ Known(p)
           \/ /\ listed[p] # "absent"
              /\ \/ listed'[p] \in {"processing", "failed"}
                 \/ listed'[p] = "completed" /\ \E j \in Jobs : Complete(j) /\ job[j].pair = p
<1>type. TablesTypeOK /\ CallsTypeOK
    BY DEF TypeOK, CallsTypeOK
<1> DEFINE Goal == \/ listed'[p] = "absent"
                   \/ listed'[p] = "queued" /\ Known(p)
                   \/ /\ listed[p] # "absent"
                      /\ \/ listed'[p] \in {"processing", "failed"}
                         \/ /\ listed'[p] = "completed"
                            /\ \E j \in Jobs : Complete(j) /\ job[j].pair = p
<1>1. ASSUME ManageFiles PROVE Goal
    BY <1>1, <1>type DEF ManageFiles, PutObject, InsertFile, FindFile, DeleteFileRow,
        DeleteObject, CreateStore, DeleteStore, Cascade, tables, TablesTypeOK
<1>2. ASSUME NEW a \in Attaches, AttachInsert(a) PROVE Goal
    BY <1>2, <1>type DEF AttachInsert, TablesTypeOK
<1>3. ASSUME NEW a \in Attaches, AttachSelect(a) \/ SyncTimeout(a) \/ SyncReturn(a)
      PROVE  UNCHANGED listed
    BY <1>3 DEF AttachSelect, SyncTimeout, SyncReturn, tableVars, tables
<1>4. ASSUME NEW i \in Ingests, IngestRequest(i) PROVE UNCHANGED listed
    BY <1>4 DEF IngestRequest, tableVars, tables
<1>5. ASSUME NEW j \in Jobs, Ingest(j) PROVE Goal
  <2>1. CASE Filename(j) \/ Download(j) \/ Upsert(j)
    BY <2>1 DEF Filename, Download, Upsert, tableVars, tables
  <2>2. CASE Begin(j)
    BY <2>2, <1>type DEF Begin, SetStatus, TablesTypeOK, CallsTypeOK
  <2>3. CASE Complete(j)
    <3>1. job[j].pair = p /\ listed[p] # "absent" /\ listed'[p] = "completed"
      BY <2>3, <1>type DEF Complete, SetStatus, TablesTypeOK, CallsTypeOK
    <3> QED
      BY <2>3, <3>1
  <2>4. CASE Fail(j)
    BY <2>4, <1>type DEF Fail, SetStatus, TablesTypeOK, CallsTypeOK
  <2> QED
    BY <1>5, <2>1, <2>2, <2>3, <2>4 DEF Ingest
<1>6. ASSUME NEW d \in Detaches, DetachRow(d) \/ Purge(d) PROVE Goal
    BY <1>6, <1>type DEF DetachRow, Purge, TablesTypeOK
<1>7. CASE Restart
    BY <1>7 DEF Restart, tables
<1>8. CASE UNCHANGED vars
    BY <1>8 DEF vars, tableVars, tables
<1> QED
    BY <1>1, <1>2, <1>3, <1>4, <1>5, <1>6, <1>7, <1>8 DEF Next

\* A job gets to "complete" from its download or from its upsert.
LEMMA CompletingStep ==
    ASSUME TypeOK, [Next]_vars, NEW j \in Jobs, job'[j].at = "complete"
    PROVE  \/ job'[j] = job[j]
           \/ job'[j].pair = job[j].pair /\ (Download(j) \/ Upsert(j))
<1>type. CallsTypeOK
    BY DEF TypeOK, CallsTypeOK
<1>1. ASSUME NEW a \in Attaches, AttachSelect(a) PROVE job'[j] = job[j]
    BY <1>1, <1>type DEF AttachSelect, CallsTypeOK, Jobs
<1>2. ASSUME NEW a \in Attaches, SyncTimeout(a) PROVE job'[j] = job[j]
    BY <1>2, <1>type DEF SyncTimeout, CallsTypeOK, Jobs
<1>3. ASSUME NEW i \in Ingests, IngestRequest(i) PROVE job'[j] = job[j]
    BY <1>3, <1>type DEF IngestRequest, CallsTypeOK, Jobs
<1>4. ASSUME NEW k \in Jobs, Begin(k) \/ Filename(k) \/ Complete(k) \/ Fail(k) PROVE job'[j] = job[j]
    BY <1>4, <1>type DEF Begin, Filename, Complete, Fail, Step, CallsTypeOK
<1>5. ASSUME NEW k \in Jobs, Download(k) \/ Upsert(k)
      PROVE  \/ job'[j] = job[j]
             \/ job'[j].pair = job[j].pair /\ (Download(j) \/ Upsert(j))
  <2>1. \E at \in {"upsert", "complete", "fail"} : job' = [job EXCEPT ![k].at = at]
    <3>1. kind[job[k].pair[2]] \in Kinds
      BY <1>type DEF TypeOK, TablesTypeOK, CallsTypeOK, Pairs
    <3>2. \E at \in {"upsert", "complete", "fail"} : Step(k, at)
      BY <1>5, <3>1 DEF Download, Upsert, Kinds
    <3> QED
      BY <3>2 DEF Step
  <2> QED
    BY <1>5, <2>1, <1>type DEF CallsTypeOK
<1>6. CASE Restart
    BY <1>6, <1>type DEF Restart, CallsTypeOK
<1>7. ASSUME UNCHANGED job PROVE job'[j] = job[j]
    BY <1>7
<1>8. ASSUME NEW a \in Attaches, AttachInsert(a) \/ SyncReturn(a) PROVE UNCHANGED job
    BY <1>8 DEF AttachInsert, SyncReturn
<1>9. ASSUME NEW d \in Detaches, DetachRow(d) \/ Purge(d) PROVE UNCHANGED job
    BY <1>9 DEF DetachRow, Purge
<1> QED
    BY <1>1, <1>2, <1>3, <1>4, <1>5, <1>6, <1>7, <1>8, <1>9 DEF Next, Ingest, vars, callVars

\* Completed is a promise: the chunks are there, unless a detach took them.
Kept ==
    /\ Attached
    /\ KnownCalls
    /\ \A p \in Pairs : listed[p] # "absent" => Known(p)
    /\ Ready
    /\ \A p \in Pairs : listed[p] = "completed" => Searchable(p)

LEMMA KeptStep ==
    ASSUME TypeOK, Kept, [Next]_vars
    PROVE  Kept'
<1>type. TablesTypeOK /\ CallsTypeOK /\ TypeOK'
    BY TypeStep DEF TypeOK, CallsTypeOK
<1>1. Attached' /\ KnownCalls'
    BY AttachedStep, KnownStep DEF Kept
<1>2. ASSUME NEW p \in Pairs, listed'[p] # "absent" PROVE Known(p)'
  <2>1. Known(p)
    BY <1>2, RowStep DEF Kept
  <2> QED
    BY <2>1, KnownForEver
<1>3. ASSUME NEW j \in Jobs, job'[j].at = "complete" PROVE Searchable(job[j].pair)' /\ job'[j].pair = job[j].pair
  <2>pair. job[j].pair \in Pairs
    BY <1>type DEF CallsTypeOK
  <2>1. CASE job'[j] = job[j]
    <3>1. Known(job[j].pair) /\ Searchable(job[j].pair)
      BY <1>3, <2>1 DEF Kept, KnownCalls, Ready
    <3> QED
      BY <2>1, <2>pair, <3>1, SearchableStep
  <2>2. CASE job'[j].pair = job[j].pair /\ Download(j)
    <3>1. kind'[job[j].pair[2]] = "blank"
      <4>1. kind[job[j].pair[2]] \in Kinds
        BY <2>pair, <1>type DEF TablesTypeOK, Pairs
      <4>2. \/ kind[job[j].pair[2]] = "text" /\ Step(j, "upsert")
            \/ kind[job[j].pair[2]] = "blank" /\ Step(j, "complete")
            \/ Step(j, "fail")
        BY <2>2, <4>1 DEF Download, Kinds
      <4>4. \A at \in {"upsert", "fail"} : ~Step(j, at)
        BY <1>3, <1>type DEF Step, CallsTypeOK
      <4>3. kind' = kind
        BY <2>2 DEF Download, tableVars
      <4> QED
        BY <4>2, <4>3, <4>4
    <3> QED
      BY <2>2, <3>1 DEF Searchable
  <2>3. CASE job'[j].pair = job[j].pair /\ Upsert(j)
    <3>1. job[j].pair \in chunks'
      BY <1>3, <2>3, <1>type DEF Upsert, Step, CallsTypeOK
    <3> QED
      BY <2>3, <3>1 DEF Searchable
  <2> QED
    BY <1>3, <2>1, <2>2, <2>3, CompletingStep
<1>4. ASSUME NEW p \in Pairs, listed'[p] = "completed" PROVE Searchable(p)'
  <2>1. Known(p) /\ Searchable(p)
    <3>1. CASE listed[p] = "completed"
      BY <3>1 DEF Kept
    <3>2. CASE listed[p] # "completed"
      <4>1. listed[p] # "absent" /\ \E j \in Jobs : Complete(j) /\ job[j].pair = p
        BY <1>4, <3>2, RowStep
      <4> QED
        BY <4>1 DEF Kept, Ready, Complete
    <3> QED
      BY <3>1, <3>2
  <2> QED
    BY <2>1, SearchableStep
<1> QED
    BY <1>1, <1>2, <1>3, <1>4 DEF Kept, Ready

\* A file that is listed as completed can be found, whatever was attached,
\* deleted, detached or restarted meanwhile, unless a detach purged its chunks.
THEOREM CompletedFilesAreSearchable == Spec => []CompletedIsSearchable
<1>1. Init => TypeOK /\ Kept
    BY InitType DEF Init, TablesInit, Kept, Attached, KnownCalls, Ready, TypeOK
<1>2. TypeOK /\ Kept /\ [Next]_vars => (TypeOK /\ Kept)'
    BY TypeStep, KeptStep
<1>3. Kept => CompletedIsSearchable
    BY DEF Kept, Attached, Searchable, CompletedIsSearchable
<1> QED
    BY <1>1, <1>2, <1>3, PTL DEF Spec

-----------------------------------------------------------------------------
(* Rows that are queued or processing. *)

RunBy(p) == \E j \in Jobs : Busy(j) /\ job[j].pair = p
CalledBy(p) == \E a \in Attaches : attach[a].at = "select" /\ attach[a].pair = p

\* A call that has not decided yet has no job, so that no job is overwritten;
\* a processing row has a job, and a queued one a job or a call.
Owned ==
    /\ \A a \in Attaches : attach[a].at \in {"idle", "select"} => job[a].at = "none"
    /\ \A p \in Pairs : listed[p] = "processing" => p \in lost \/ RunBy(p)
    /\ \A p \in Pairs : listed[p] = "queued" => p \in lost \/ RunBy(p) \/ CalledBy(p)

LEMMA UndecidedStep ==
    ASSUME TypeOK, Owned, [Next]_vars, NEW a \in Attaches, attach'[a].at \in {"idle", "select"}
    PROVE  job'[a].at = "none"
<1>type. CallsTypeOK /\ Attaches \subseteq Jobs /\ Ingests \subseteq Jobs
    BY DEF TypeOK, CallsTypeOK, Jobs
<1>none. attach[a].at \in {"idle", "select"} => job[a].at = "none"
    BY DEF Owned
<1>1. ASSUME NEW b \in Attaches, AttachInsert(b) PROVE job'[a].at = "none"
    BY <1>1, <1>type, <1>none DEF AttachInsert, CallsTypeOK
<1>2. ASSUME NEW b \in Attaches, AttachSelect(b) PROVE job'[a].at = "none"
    BY <1>2, <1>type, <1>none DEF AttachSelect, CallsTypeOK
<1>3. ASSUME NEW b \in Attaches, SyncTimeout(b) \/ SyncReturn(b) PROVE job'[a].at = "none"
    BY <1>3, <1>type, <1>none DEF SyncTimeout, SyncReturn, CallsTypeOK
<1>4. ASSUME NEW i \in Ingests, IngestRequest(i) PROVE job'[a].at = "none"
    BY <1>4, <1>type, <1>none, CallsAssumption DEF IngestRequest, CallsTypeOK
<1>5. ASSUME NEW j \in Jobs, Ingest(j) PROVE job'[a].at = "none"
  <2>1. Busy(j) /\ attach' = attach /\ \A k \in Jobs : k # j => job'[k] = job[k]
    BY <1>5, <1>type DEF Ingest, Begin, Filename, Download, Upsert, Complete, Fail, Step,
        Busy, Working, CallsTypeOK
  <2> QED
    BY <2>1, <1>type, <1>none DEF Busy, Working
<1>6. ASSUME UNCHANGED <<attach, job>> PROVE job'[a].at = "none"
    BY <1>6, <1>none
<1>7. ASSUME NEW d \in Detaches, DetachRow(d) \/ Purge(d) PROVE UNCHANGED <<attach, job>>
    BY <1>7 DEF DetachRow, Purge
<1>8. CASE Restart
    BY <1>8, <1>type, <1>none DEF Restart, Busy, Working, CallsTypeOK
<1> QED
    BY <1>1, <1>2, <1>3, <1>4, <1>5, <1>6, <1>7, <1>8 DEF Next, vars, callVars

\* A job ends with a status, or is remembered as lost.
LEMMA RunStep ==
    ASSUME TypeOK, Owned, [Next]_vars, NEW p \in Pairs, RunBy(p), Unfinished(p)'
    PROVE  p \in lost' \/ RunBy(p)'
<1>type. CallsTypeOK /\ TablesTypeOK /\ Attaches \subseteq Jobs /\ Ingests \subseteq Jobs
    BY DEF TypeOK, CallsTypeOK, Jobs
<1>j. PICK j \in Jobs : Busy(j) /\ job[j].pair = p
    BY DEF RunBy
<1> DEFINE Same == job'[j].at \in Working /\ job'[j].pair = p
<1>same. Same => RunBy(p)'
    BY DEF RunBy, Busy
<1>1. ASSUME NEW a \in Attaches, AttachSelect(a) PROVE Same
  <2>1. a # j
    BY <1>1, <1>j DEF AttachSelect, Owned, Busy, Working
  <2> QED
    BY <1>1, <1>j, <1>type, <2>1 DEF AttachSelect, CallsTypeOK, Busy
<1>2. ASSUME NEW a \in Attaches, SyncTimeout(a) PROVE Same
    BY <1>2, <1>j, <1>type DEF SyncTimeout, CallsTypeOK, Busy, Working
<1>3. ASSUME NEW i \in Ingests, IngestRequest(i) PROVE Same
    BY <1>3, <1>j, <1>type DEF IngestRequest, CallsTypeOK, Busy, Working
<1>4. ASSUME NEW k \in Jobs, Ingest(k) PROVE p \in lost' \/ RunBy(p)'
  <2>1. CASE k # j
    <3>1. job'[j] = job[j]
      BY <1>4, <1>type, <2>1 DEF Ingest, Begin, Filename, Download, Upsert, Complete, Fail,
          Step, CallsTypeOK
    <3> QED
      BY <3>1, <1>j, <1>same DEF Busy
  <2>2. CASE k = j /\ (Begin(j) \/ Filename(j) \/ Upsert(j))
    BY <2>2, <1>j, <1>type, <1>same DEF Begin, Filename, Upsert, Step, Working, CallsTypeOK
  <2>3. CASE k = j /\ Download(j)
    <3>1. kind[p[2]] \in Kinds
      BY <1>type DEF TablesTypeOK, Pairs
    <3>2. \E at \in {"upsert", "complete", "fail"} : Step(j, at)
      BY <2>3, <3>1, <1>j DEF Download, Kinds
    <3> QED
      BY <3>2, <1>j, <1>type, <1>same DEF Step, Working, CallsTypeOK
  <2>4. CASE k = j /\ Complete(j)
    BY <2>4, <1>j, <1>type, <1>same DEF Complete, SetStatus, Step, Working, CallsTypeOK,
        TablesTypeOK, Unfinished
  <2>5. CASE k = j /\ Fail(j)
    BY <2>5, <1>j, <1>type DEF Fail, SetStatus, TablesTypeOK, Unfinished
  <2> QED
    BY <1>4, <2>1, <2>2, <2>3, <2>4, <2>5 DEF Ingest
<1>5. CASE Restart
    BY <1>5, <1>j DEF Restart
<1>6. ASSUME UNCHANGED job PROVE Same
    BY <1>6, <1>j DEF Busy
<1>7. ASSUME NEW a \in Attaches, AttachInsert(a) \/ SyncReturn(a) PROVE UNCHANGED job
    BY <1>7 DEF AttachInsert, SyncReturn
<1>8. ASSUME NEW d \in Detaches, DetachRow(d) \/ Purge(d) PROVE UNCHANGED job
    BY <1>8 DEF DetachRow, Purge
<1> QED
    BY <1>same, <1>1, <1>2, <1>3, <1>4, <1>5, <1>6, <1>7, <1>8 DEF Next, vars, callVars

\* A call hands a queued row on to its job, or is remembered as lost.
LEMMA CallStep ==
    ASSUME TypeOK, [Next]_vars, NEW p \in Pairs, CalledBy(p), listed[p] = "queued"
    PROVE  p \in lost' \/ RunBy(p)' \/ CalledBy(p)'
<1>type. CallsTypeOK /\ Attaches \subseteq Jobs
    BY DEF TypeOK, CallsTypeOK, Jobs
<1>a. PICK a \in Attaches : attach[a].at = "select" /\ attach[a].pair = p
    BY DEF CalledBy
<1>same. attach'[a] = attach[a] => CalledBy(p)'
    BY <1>a DEF CalledBy
<1>1. ASSUME NEW b \in Attaches, AttachInsert(b) \/ SyncTimeout(b) \/ SyncReturn(b)
      PROVE  attach'[a] = attach[a]
    BY <1>1, <1>a, <1>type DEF AttachInsert, SyncTimeout, SyncReturn, CallsTypeOK
<1>2. ASSUME NEW b \in Attaches, AttachSelect(b) PROVE p \in lost' \/ RunBy(p)' \/ CalledBy(p)'
  <2>1. CASE b = a
    <3>1. p \in lost' \/ job' = [job EXCEPT ![a] = [at |-> "begin", pair |-> p]]
      BY <1>2, <1>a, <2>1 DEF AttachSelect
    <3> QED
      BY <3>1, <1>type DEF RunBy, Busy, Working, CallsTypeOK
  <2>2. CASE b # a
    BY <1>2, <1>same, <1>type, <2>2 DEF AttachSelect, CallsTypeOK
  <2> QED
    BY <2>1, <2>2
<1>3. ASSUME NEW j \in Jobs, Ingest(j) PROVE UNCHANGED attach
    BY <1>3 DEF Ingest, Begin, Filename, Download, Upsert, Complete, Fail
<1>4. CASE Restart
    BY <1>4, <1>a DEF Restart
<1>5. ASSUME NEW d \in Detaches, DetachRow(d) \/ Purge(d) PROVE UNCHANGED attach
    BY <1>5 DEF DetachRow, Purge
<1>6. ASSUME NEW i \in Ingests, IngestRequest(i) PROVE UNCHANGED attach
    BY <1>6 DEF IngestRequest
<1> QED
    BY <1>same, <1>1, <1>2, <1>3, <1>4, <1>5, <1>6 DEF Next, vars, callVars

\* A row that becomes queued is inserted by a call, one that becomes processing
\* is begun by a job.
LEMMA OpenStep ==
    ASSUME TypeOK, [Next]_vars, NEW p \in Pairs, listed'[p] # listed[p]
    PROVE  /\ listed'[p] = "queued" => CalledBy(p)'
           /\ listed'[p] = "processing" => RunBy(p)'
<1>type. TablesTypeOK /\ CallsTypeOK /\ Attaches \subseteq Jobs
    BY DEF TypeOK, CallsTypeOK, Jobs
<1> DEFINE Goal == /\ listed'[p] = "queued" => CalledBy(p)'
                   /\ listed'[p] = "processing" => RunBy(p)'
<1>1. ASSUME ManageFiles PROVE Goal
    BY <1>1, <1>type DEF ManageFiles, PutObject, InsertFile, FindFile, DeleteFileRow,
        DeleteObject, CreateStore, DeleteStore, Cascade, tables, TablesTypeOK
<1>2. ASSUME NEW a \in Attaches, AttachInsert(a) PROVE Goal
    BY <1>2, <1>type DEF AttachInsert, CalledBy, TablesTypeOK, CallsTypeOK
<1>3. ASSUME NEW a \in Attaches, AttachSelect(a) \/ SyncTimeout(a) \/ SyncReturn(a)
      PROVE  UNCHANGED listed
    BY <1>3 DEF AttachSelect, SyncTimeout, SyncReturn, tableVars, tables
<1>4. ASSUME NEW i \in Ingests, IngestRequest(i) PROVE UNCHANGED listed
    BY <1>4 DEF IngestRequest, tableVars, tables
<1>5. ASSUME NEW j \in Jobs, Ingest(j) PROVE Goal
  <2>1. CASE Filename(j) \/ Download(j) \/ Upsert(j)
    BY <2>1 DEF Filename, Download, Upsert, tableVars, tables
  <2>2. CASE Begin(j)
    <3>1. p = job[j].pair /\ listed'[p] = "processing" /\ Step(j, "filename")
      BY <2>2, <1>type DEF Begin, SetStatus, TablesTypeOK, CallsTypeOK
    <3> QED
      BY <3>1, <1>type DEF Step, RunBy, Busy, Working, CallsTypeOK
  <2>3. CASE Complete(j) \/ Fail(j)
    BY <2>3, <1>type DEF Complete, Fail, SetStatus, TablesTypeOK, CallsTypeOK
  <2> QED
    BY <1>5, <2>1, <2>2, <2>3 DEF Ingest
<1>6. ASSUME NEW d \in Detaches, DetachRow(d) \/ Purge(d) PROVE Goal
    BY <1>6, <1>type DEF DetachRow, Purge, TablesTypeOK, CallsTypeOK
<1>7. CASE Restart
    BY <1>7 DEF Restart, tables
<1>8. CASE UNCHANGED vars
    BY <1>8 DEF vars, tableVars, tables
<1> QED
    BY <1>1, <1>2, <1>3, <1>4, <1>5, <1>6, <1>7, <1>8 DEF Next

\* What is remembered as lost stays so.
LEMMA LostForEver == [Next]_vars => lost \subseteq lost'
BY DEF Next, vars, callVars, history, AttachInsert, AttachSelect, SyncTimeout, SyncReturn,
    IngestRequest, Ingest, Begin, Filename, Download, Upsert, Complete, Fail, DetachRow,
    Purge, Restart

LEMMA OwnedStep ==
    ASSUME TypeOK, Owned, [Next]_vars
    PROVE  Owned'
<1>1. ASSUME NEW p \in Pairs, listed'[p] = "processing" PROVE p \in lost' \/ RunBy(p)'
  <2>1. CASE listed[p] = "processing"
    <3>1. p \in lost \/ RunBy(p)
      BY <2>1 DEF Owned
    <3> QED
      BY <1>1, <3>1, RunStep, LostForEver DEF Unfinished
  <2>2. CASE listed[p] # "processing"
    BY <1>1, <2>2, OpenStep
  <2> QED
    BY <2>1, <2>2
<1>2. ASSUME NEW p \in Pairs, listed'[p] = "queued"
      PROVE  p \in lost' \/ RunBy(p)' \/ CalledBy(p)'
  <2>1. CASE listed[p] = "queued"
    <3>1. p \in lost \/ RunBy(p) \/ CalledBy(p)
      BY <2>1 DEF Owned
    <3> QED
      BY <1>2, <2>1, <3>1, RunStep, CallStep, LostForEver DEF Unfinished
  <2>2. CASE listed[p] # "queued"
    BY <1>2, <2>2, OpenStep
  <2> QED
    BY <2>1, <2>2
<1> QED
    BY <1>1, <1>2, UndecidedStep DEF Owned

\* A row that is queued or processing has a call that will start its ingestion
\* or a job that runs it, unless the process died or a status update failed.
THEOREM UnfinishedFilesAreOwned == Spec => []UnfinishedIsOwned
<1>1. Init => TypeOK /\ Owned
    BY InitType DEF Init, TablesInit, Owned, Jobs
<1>2. TypeOK /\ Owned /\ [Next]_vars => (TypeOK /\ Owned)'
    BY TypeStep, OwnedStep
<1>3. TypeOK /\ Owned => UnfinishedIsOwned
    BY DEF Owned, RunBy, CalledBy, Unfinished, UnfinishedIsOwned
<1> QED
    BY <1>1, <1>2, <1>3, PTL DEF Spec

-----------------------------------------------------------------------------
(* Attached files come to an end. *)

Settled(p) == ~Unfinished(p) \/ p \in lost
Runs(j, p) == Busy(j) /\ job[j].pair = p
Calls(a, p) == attach[a].at = "select" /\ attach[a].pair = p

\* The steps a job has before it; a synchronous attach may start it over once.
StepsLeft(j) ==
    LET own == CASE job[j].at = "begin" -> 6
                 [] job[j].at = "filename" -> 5
                 [] job[j].at = "download" -> 4
                 [] job[j].at = "upsert" -> 3
                 [] job[j].at = "complete" -> 2
                 [] OTHER -> 1
    IN  IF j \in Attaches /\ attach[j].at = "sync" THEN own + 6 ELSE own

\* The job j is through with p, or has at most n steps before it.
Within(j, p, n) == Settled(p) \/ (Runs(j, p) /\ StepsLeft(j) <= n)

LEMMA StepsLeftBounds == \A j : StepsLeft(j) \in 1..12
BY DEF StepsLeft

\* A step of a job settles its pair or takes the job on.
LEMMA IngestGoesOn ==
    ASSUME TypeOK, NEW j \in Jobs, NEW p \in Pairs, Runs(j, p), Ingest(j)
    PROVE  Settled(p)' \/ (Runs(j, p)' /\ StepsLeft(j)' < StepsLeft(j))
<1> USE DEF Runs
<1>type. CallsTypeOK /\ TablesTypeOK /\ p[2] \in Files
    BY DEF TypeOK, CallsTypeOK, Pairs
<1>att. attach' = attach
    BY DEF Ingest, Begin, Filename, Download, Upsert, Complete, Fail
<1>to. ASSUME NEW at \in Working, Step(j, at) PROVE Busy(j)' /\ job'[j].pair = p /\ job'[j].at = at
    BY <1>to, <1>type DEF Step, Busy, CallsTypeOK
<1>1. CASE Begin(j)
  <2>1. Step(j, "filename") \/ Step(j, "fail")
    BY <1>1 DEF Begin
  <2> QED
    BY <1>1, <1>att, <1>to, <2>1 DEF Begin, StepsLeft, Working
<1>2. CASE Filename(j)
  <2>1. Step(j, "download") \/ Step(j, "fail")
    BY <1>2 DEF Filename
  <2> QED
    BY <1>2, <1>att, <1>to, <2>1 DEF Filename, StepsLeft, Working
<1>3. CASE Download(j)
  <2>1. kind[p[2]] \in Kinds
    BY <1>type DEF TablesTypeOK
  <2>2. Step(j, "upsert") \/ Step(j, "complete") \/ Step(j, "fail")
    BY <1>3, <2>1 DEF Download, Kinds
  <2> QED
    BY <1>3, <1>att, <1>to, <2>2 DEF Download, StepsLeft, Working
<1>4. CASE Upsert(j)
  <2>1. Step(j, "complete") \/ Step(j, "fail")
    BY <1>4 DEF Upsert
  <2> QED
    BY <1>4, <1>att, <1>to, <2>1 DEF Upsert, StepsLeft, Working
<1>5. CASE Complete(j)
  <2>1. CASE SetStatus(p, "completed")
    BY <2>1, <1>type DEF SetStatus, Settled, Unfinished, TablesTypeOK
  <2>2. CASE Step(j, "fail")
    BY <1>5, <1>att, <1>to, <2>2 DEF Complete, StepsLeft, Working
  <2> QED
    BY <1>5, <2>1, <2>2 DEF Complete
<1>6. CASE Fail(j)
    BY <1>6, <1>type DEF Fail, SetStatus, Settled, Unfinished, TablesTypeOK
<1> QED
    BY <1>1, <1>2, <1>3, <1>4, <1>5, <1>6 DEF Ingest

\* Nothing else that happens takes a job back, but the timeout of its own attach,
\* which can come once.
LEMMA JobGoesOn ==
    ASSUME TypeOK, Owned, [Next]_vars, NEW j \in Jobs, NEW p \in Pairs, Runs(j, p)
    PROVE  Settled(p)' \/ (Runs(j, p)' /\ StepsLeft(j)' <= StepsLeft(j))
<1> USE DEF Runs
<1>type. CallsTypeOK /\ Attaches \subseteq Jobs /\ Ingests \subseteq Jobs
    BY DEF TypeOK, CallsTypeOK, Jobs
<1>left. StepsLeft(j) \in 1..12
    BY StepsLeftBounds
<1>none. job[j].at # "none"
    BY DEF Busy, Working
<1>same. ASSUME job'[j] = job[j], j \in Attaches => attach'[j].at = attach[j].at
         PROVE  Runs(j, p)' /\ StepsLeft(j)' <= StepsLeft(j)
    BY <1>same, <1>left DEF Busy, StepsLeft
<1>1. ASSUME NEW a \in Attaches, AttachInsert(a) PROVE Runs(j, p)' /\ StepsLeft(j)' <= StepsLeft(j)
  <2>1. a # j
    BY <1>1, <1>none DEF AttachInsert, Owned
  <2> QED
    BY <1>1, <1>same, <1>type, <2>1 DEF AttachInsert, CallsTypeOK
<1>2. ASSUME NEW a \in Attaches, AttachSelect(a) PROVE Runs(j, p)' /\ StepsLeft(j)' <= StepsLeft(j)
  <2>1. a # j
    BY <1>2, <1>none DEF AttachSelect, Owned
  <2> QED
    BY <1>2, <1>same, <1>type, <2>1 DEF AttachSelect, CallsTypeOK
<1>3. ASSUME NEW a \in Attaches, SyncTimeout(a) PROVE Runs(j, p)' /\ StepsLeft(j)' <= StepsLeft(j)
  <2>1. CASE a = j
    <3>1. job'[j].at = "begin" /\ job'[j].pair = p /\ attach'[j].at = "done" /\ attach[j].at = "sync"
      BY <1>3, <1>type, <2>1 DEF SyncTimeout, CallsTypeOK
    <3> QED
      BY <2>1, <3>1 DEF Busy, Working, StepsLeft
  <2>2. CASE a # j
    BY <1>3, <1>same, <1>type, <2>2 DEF SyncTimeout, CallsTypeOK
  <2> QED
    BY <2>1, <2>2
<1>4. ASSUME NEW a \in Attaches, SyncReturn(a) PROVE Runs(j, p)' /\ StepsLeft(j)' <= StepsLeft(j)
    BY <1>4, <1>same, <1>type DEF SyncReturn, CallsTypeOK
<1>5. ASSUME NEW i \in Ingests, IngestRequest(i) PROVE Runs(j, p)' /\ StepsLeft(j)' <= StepsLeft(j)
    BY <1>5, <1>same, <1>type, <1>none DEF IngestRequest, CallsTypeOK
<1>6. ASSUME NEW k \in Jobs, Ingest(k), k # j PROVE Runs(j, p)' /\ StepsLeft(j)' <= StepsLeft(j)
  <2>1. job'[j] = job[j] /\ attach' = attach
    BY <1>6, <1>type DEF Ingest, Begin, Filename, Download, Upsert, Complete, Fail, Step, CallsTypeOK
  <2> QED
    BY <1>same, <2>1
<1>7. CASE Ingest(j)
  <2>1. Settled(p)' \/ (Runs(j, p)' /\ StepsLeft(j)' < StepsLeft(j))
    BY <1>7, IngestGoesOn
  <2>2. StepsLeft(j)' \in 1..12
    BY DEF StepsLeft
  <2> QED
    BY <1>left, <2>1, <2>2
<1>8. CASE Restart
    BY <1>8 DEF Restart, Settled
<1>9. ASSUME UNCHANGED <<attach, job>> PROVE Runs(j, p)' /\ StepsLeft(j)' <= StepsLeft(j)
    BY <1>9, <1>same
<1>10. ASSUME NEW d \in Detaches, DetachRow(d) \/ Purge(d) PROVE UNCHANGED <<attach, job>>
    BY <1>10 DEF DetachRow, Purge
<1> QED
    BY <1>1, <1>2, <1>3, <1>4, <1>5, <1>6, <1>7, <1>8, <1>9, <1>10 DEF Next, vars, callVars

Sound == TypeOK /\ Owned

LEMMA SoundAlways == Spec => []Sound
<1>1. Init => TypeOK /\ Owned
    BY InitType DEF Init, TablesInit, Owned, Jobs
<1>2. TypeOK /\ Owned /\ [Next]_vars => (TypeOK /\ Owned)'
    BY TypeStep, OwnedStep
<1> QED
    BY <1>1, <1>2, PTL DEF Spec, Sound

GoesDown(j, p, m, n) == Within(j, p, m) ~> Within(j, p, n)

\* A fair job that is not stuck has less before it sooner or later.
LEMMA JobGoesDown ==
    ASSUME NEW j \in Jobs, NEW p \in Pairs, NEW m \in 1..12, NEW n \in 0..11, m = n + 1
    PROVE  []Sound /\ [][Next]_vars /\ []JobsCanGoOn /\ FairJob(j) => GoesDown(j, p, m, n)
<1> DEFINE Here == Runs(j, p) /\ StepsLeft(j) = m
<1> USE DEF Sound
<1>0. Within(j, p, m) => Here \/ Within(j, p, n)
    BY StepsLeftBounds DEF Within
<1>1. Sound /\ Here /\ [Next]_vars => Here' \/ Within(j, p, n)'
  <2> SUFFICES ASSUME Sound, Here, [Next]_vars PROVE Here' \/ Within(j, p, n)'
    OBVIOUS
  <2>1. Settled(p)' \/ (Runs(j, p)' /\ StepsLeft(j)' <= m)
    BY JobGoesOn
  <2>2. StepsLeft(j)' \in 1..12
    BY DEF StepsLeft
  <2> QED
    BY <2>1, <2>2 DEF Within
<1>2. Sound /\ Here /\ <<Ingest(j)>>_vars => Within(j, p, n)'
  <2> SUFFICES ASSUME Sound, Here, Ingest(j) PROVE Within(j, p, n)'
    OBVIOUS
  <2>1. Settled(p)' \/ (Runs(j, p)' /\ StepsLeft(j)' < m)
    BY IngestGoesOn
  <2>2. StepsLeft(j)' \in 1..12
    BY DEF StepsLeft
  <2> QED
    BY <2>1, <2>2 DEF Within
<1>3. JobsCanGoOn /\ Here => ENABLED <<Ingest(j)>>_vars
    BY DEF JobsCanGoOn, Runs
<1>4. FairJob(j) => WF_vars(Ingest(j))
    BY PTL DEF FairJob
<1> QED
    BY <1>0, <1>1, <1>2, <1>3, <1>4, PTL DEF GoesDown

Ends(j, p) == Runs(j, p) ~> Settled(p)

LEMMA JobEnds ==
    ASSUME NEW j \in Jobs, NEW p \in Pairs
    PROVE  []Sound /\ [][Next]_vars /\ []JobsCanGoOn /\ FairJob(j) => Ends(j, p)
<1> DEFINE Given == []Sound /\ [][Next]_vars /\ []JobsCanGoOn /\ FairJob(j)
<1>1. /\ Given => GoesDown(j, p, 12, 11)
      /\ Given => GoesDown(j, p, 11, 10)
      /\ Given => GoesDown(j, p, 10, 9)
      /\ Given => GoesDown(j, p, 9, 8)
      /\ Given => GoesDown(j, p, 8, 7)
      /\ Given => GoesDown(j, p, 7, 6)
    BY JobGoesDown
<1>2. /\ Given => GoesDown(j, p, 6, 5)
      /\ Given => GoesDown(j, p, 5, 4)
      /\ Given => GoesDown(j, p, 4, 3)
      /\ Given => GoesDown(j, p, 3, 2)
      /\ Given => GoesDown(j, p, 2, 1)
      /\ Given => GoesDown(j, p, 1, 0)
    BY JobGoesDown
<1>3. Runs(j, p) => Within(j, p, 12)
    BY StepsLeftBounds DEF Within
<1>4. Within(j, p, 0) => Settled(p)
    BY StepsLeftBounds DEF Within
<1> QED
    BY <1>1, <1>2, <1>3, <1>4, PTL DEF GoesDown, Ends

\* The call a is to find p queued.
Waits(a, p) == Calls(a, p) /\ listed[p] = "queued"

LEMMA WaitingGoesOn ==
    ASSUME TypeOK, [Next]_vars, NEW a \in Attaches, NEW p \in Pairs, Waits(a, p)
    PROVE  Waits(a, p)' \/ RunBy(p)' \/ Settled(p)'
<1> USE DEF Waits, Calls
<1>type. CallsTypeOK /\ Attaches \subseteq Jobs
    BY DEF TypeOK, CallsTypeOK, Jobs
<1>row. listed'[p] = "queued" \/ RunBy(p)' \/ Settled(p)'
  <2>1. CASE listed'[p] = "processing"
    BY <2>1, OpenStep
  <2>2. CASE listed'[p] \notin {"queued", "processing"}
    BY <2>2 DEF Settled, Unfinished
  <2> QED
    BY <2>1, <2>2
<1>same. CASE attach'[a] = attach[a]
    BY <1>same, <1>row
<1>1. ASSUME NEW b \in Attaches, AttachInsert(b) \/ SyncTimeout(b) \/ SyncReturn(b)
      PROVE  attach'[a] = attach[a]
    BY <1>1, <1>type DEF AttachInsert, SyncTimeout, SyncReturn, CallsTypeOK
<1>2. ASSUME NEW b \in Attaches, AttachSelect(b), b # a PROVE attach'[a] = attach[a]
    BY <1>2, <1>type DEF AttachSelect, CallsTypeOK
<1>3. CASE AttachSelect(a)
  <2>1. p \in lost' \/ job' = [job EXCEPT ![a] = [at |-> "begin", pair |-> p]]
    BY <1>3 DEF AttachSelect
  <2> QED
    BY <2>1, <1>type DEF RunBy, Busy, Working, CallsTypeOK, Settled
<1>4. ASSUME NEW j \in Jobs, Ingest(j) PROVE UNCHANGED attach
    BY <1>4 DEF Ingest, Begin, Filename, Download, Upsert, Complete, Fail
<1>5. CASE Restart
    BY <1>5 DEF Restart, Settled
<1>6. ASSUME NEW d \in Detaches, DetachRow(d) \/ Purge(d) PROVE UNCHANGED attach
    BY <1>6 DEF DetachRow, Purge
<1>7. ASSUME NEW i \in Ingests, IngestRequest(i) PROVE UNCHANGED attach
    BY <1>7 DEF IngestRequest
<1> QED
    BY <1>same, <1>1, <1>2, <1>3, <1>4, <1>5, <1>6, <1>7 DEF Next, vars, callVars

Starts(a, p) == Waits(a, p) ~> RunBy(p) \/ Settled(p)

\* A fair call that is not stuck hands its pair on to a job.
LEMMA CallStarts ==
    ASSUME NEW a \in Attaches, NEW p \in Pairs
    PROVE  []Sound /\ [][Next]_vars /\ []JobsCanGoOn /\ FairCall(a) => Starts(a, p)
<1> USE DEF Sound
<1>1. Sound /\ Waits(a, p) /\ [Next]_vars => Waits(a, p)' \/ RunBy(p)' \/ Settled(p)'
    BY WaitingGoesOn
<1>2. Sound /\ Waits(a, p) /\ <<AttachSelect(a)>>_vars => RunBy(p)' \/ Settled(p)'
  <2> SUFFICES ASSUME Sound, Waits(a, p), <<AttachSelect(a)>>_vars PROVE RunBy(p)' \/ Settled(p)'
    OBVIOUS
  <2>1. p \in lost' \/ job' = [job EXCEPT ![a] = [at |-> "begin", pair |-> p]]
    BY DEF AttachSelect, Waits, Calls
  <2>2. CallsTypeOK /\ a \in Jobs
    BY DEF TypeOK, CallsTypeOK, Jobs
  <2> QED
    BY <2>1, <2>2 DEF RunBy, Busy, Working, CallsTypeOK, Settled
<1>3. JobsCanGoOn /\ Waits(a, p) => ENABLED <<AttachSelect(a)>>_vars
    BY DEF JobsCanGoOn, Waits, Calls
<1>4. FairCall(a) => WF_vars(AttachSelect(a))
    BY PTL DEF FairCall
<1> QED
    BY <1>1, <1>2, <1>3, <1>4, PTL DEF Starts

EndsNow(j, p) == Runs(j, p) => <>Settled(p)
StartsNow(a, p) == Waits(a, p) => <>(RunBy(p) \/ Settled(p))

\* Every attached file comes to an end: it is completed, failed or gone, unless it
\* was lost, with any number of calls, detaches, deletions and timeouts, whatever
\* fails (attach_file, IngestPipeline.ingest).  Fairness is an assumption about the
\* whole run, and so holds of the rest of it at any time: []Fairness says no more.
THEOREM EveryFileSettles == Spec /\ []Fairness /\ []JobsCanGoOn => IngestSettles
<1> SUFFICES ASSUME NEW p \in Pairs
             PROVE  Spec /\ []Fairness /\ []JobsCanGoOn
                      => (Unfinished(p) ~> (~Unfinished(p) \/ p \in lost))
    BY DEF IngestSettles
<1> DEFINE Given == []Sound /\ [][Next]_vars /\ []JobsCanGoOn /\ Fairness
<1>1. Given => (RunBy(p) => <>Settled(p))
  <2>1. ASSUME NEW j \in Jobs PROVE Given => EndsNow(j, p)
    <3>1. Fairness => FairJob(j)
        BY DEF Fairness
    <3>2. []Sound /\ [][Next]_vars /\ []JobsCanGoOn /\ FairJob(j) => Ends(j, p)
        BY JobEnds
    <3> QED
        BY <3>1, <3>2, PTL DEF Ends, EndsNow
  <2> HIDE DEF Given
  <2>2. Given => \A j \in Jobs : EndsNow(j, p)
    BY <2>1
  <2> QED
    BY <2>2 DEF EndsNow, RunBy, Runs
<1>2. Given => ((\E a \in Attaches : Waits(a, p)) => <>(RunBy(p) \/ Settled(p)))
  <2>1. ASSUME NEW a \in Attaches PROVE Given => StartsNow(a, p)
    <3>1. Fairness => FairCall(a)
        BY DEF Fairness
    <3>2. []Sound /\ [][Next]_vars /\ []JobsCanGoOn /\ FairCall(a) => Starts(a, p)
        BY CallStarts
    <3> QED
        BY <3>1, <3>2, PTL DEF Starts, StartsNow
  <2> HIDE DEF Given
  <2>2. Given => \A a \in Attaches : StartsNow(a, p)
    BY <2>1
  <2> QED
    BY <2>2 DEF StartsNow
<1>3. Sound /\ Unfinished(p) => Settled(p) \/ RunBy(p) \/ \E a \in Attaches : Waits(a, p)
    BY DEF Sound, Owned, Unfinished, Settled, CalledBy, Waits, Calls
<1> QED
    BY <1>1, <1>2, <1>3, SoundAlways, PTL DEF Settled, Spec

=============================================================================
