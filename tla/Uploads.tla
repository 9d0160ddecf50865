------------------------------ MODULE Uploads -------------------------------
(* Objects (capabilities/storage), and one multipart upload
   (capabilities/storage/upload): the service, its
   task store in memory and its parts in a local directory or in MinIO.

   The service runs on one event loop; what a call does to the parts runs
   in a thread, and a step is one file or one request there.  The store
   answers without giving up the loop. *)
EXTENDS Naturals, FiniteSets, Sequences

CONSTANTS Storages,   \* which part storages: "local", "minio"
          LastPart,   \* total_chunks
          Puts, PutPart, PutData, \* calls of upload_part, and what they carry
          Completes,  \* calls of complete
          WithDigest, \* those that give the MD5 of an upload of "good" parts
          Cancels,    \* calls of cancel
          ObjectCalls,\* calls of an object storage, about one key
          ObjectTexts, MaxFiles \* what is put; bound: files that are made

ASSUME UploadsAssumption ==
  /\ Storages \subseteq {"local", "minio"} /\ LastPart \in Nat \ {0}
  /\ PutPart \in [Puts -> 1..LastPart] /\ PutData \in [Puts -> {"good", "other"}]
  /\ WithDigest \subseteq Completes /\ Cancels \cap (Puts \cup Completes) = {}
  /\ Puts \cap Completes = {}
  /\ MaxFiles \in Nat
  /\ \A t \in ObjectTexts : t # <<>> /\ t \in Seq({t[i] : i \in DOMAIN t})

VARIABLES storage, \* the part storage of the application
          task,    \* the task in the store: absent, INITIALIZED or COMPLETED
          marked,  \* its uploaded_parts
          old,     \* the task was created before the limit of cleanup_stale
          parts,   \* the data of each part in the storage, or Gone
          object,  \* what merge wrote: the data of its parts; or NoObject
          put,     \* where each upload_part is
          caller,  \* [at, got, left, then] of each complete, cancel
          raced,   \* ghost: two calls of complete overlapped
          emptied, \* ghost: somebody began to remove the parts
          files,   \* contents of files, in the order they were made
          named,   \* the file that has the name of the key, or 0
          access,  \* of each call: [at, op, file, data]
          latest,  \* ghost: of calls that were alone, the last text put, or NoText
          mixed    \* ghost: a put or a delete was not alone since then

uploadVars == <<storage, task, marked, old, parts, object, put, caller, raced, emptied>>
objectVars == <<files, named, access, latest, mixed>>

Gone == "gone"
Parts == 1..LastPart
NoParts == [n \in Parts |-> Gone]
NoObject == NoParts
Callers == Completes \cup Cancels
Idle == [at |-> "new", got |-> NoParts, left |-> {}, then |-> "none"]
Present == {n \in Parts : parts[n] # Gone}
Whole(o) == \A n \in Parts : o[n] \notin {Gone, "empty"}

UploadInit ==
  /\ storage \in Storages /\ task = "INITIALIZED" /\ marked = {} /\ old = FALSE
  /\ parts = NoParts /\ object = NoObject
  /\ put = [u \in Puts |-> "new"] /\ caller = [c \in Callers |-> Idle]
  /\ raced = FALSE /\ emptied = FALSE

----------------------------------------
(* upload_part: the task is looked at, then the part is saved, then marked. *)

(* A mutant: the part is marked before it is saved. *)
MarkFirst(u) ==
  /\ put[u] = "new" /\ task = "INITIALIZED"
  /\ put' = [put EXCEPT ![u] = "save"] /\ marked' = marked \cup {PutPart[u]}
  /\ UNCHANGED <<storage, task, old, parts, object, caller, raced, emptied>>

CheckPut(u) ==
  /\ put[u] = "new"
  /\ put' = [put EXCEPT ![u] = IF task = "INITIALIZED" THEN "save" ELSE "refused"]
  /\ UNCHANGED <<storage, task, marked, old, parts, object, caller, raced, emptied>>

(* MinIO takes a part as a whole. *)
SavePart(u) ==
  /\ storage = "minio" /\ put[u] = "save" /\ put' = [put EXCEPT ![u] = "mark"]
  /\ parts' = [parts EXCEPT ![PutPart[u]] = PutData[u]]
  /\ UNCHANGED <<storage, task, marked, old, object, caller, raced, emptied>>

(* On disk the file is made, or emptied, and then written; what is written
   into a file that was removed meanwhile is lost. *)
OpenPart(u) ==
  /\ storage = "local" /\ put[u] = "save" /\ put' = [put EXCEPT ![u] = "write"]
  /\ parts' = [parts EXCEPT ![PutPart[u]] = "empty"]
  /\ UNCHANGED <<storage, task, marked, old, object, caller, raced, emptied>>

WritePart(u) ==
  /\ put[u] \in {"write", "lost"} /\ put' = [put EXCEPT ![u] = "mark"]
  /\ parts' = IF put[u] = "lost" THEN parts ELSE [parts EXCEPT ![PutPart[u]] = PutData[u]]
  /\ UNCHANGED <<storage, task, marked, old, object, caller, raced, emptied>>

(* A local directory is removed. *)
RemoveDirectory ==
  /\ parts' = NoParts
  /\ put' = [u \in Puts |-> IF put[u] = "write" THEN "lost" ELSE put[u]]

MarkPart(u) ==
  /\ put[u] = "mark" /\ put' = [put EXCEPT ![u] = "done"]
  /\ marked' = IF task = "absent" THEN marked ELSE marked \cup {PutPart[u]}
  /\ UNCHANGED <<storage, task, old, parts, object, caller, raced, emptied>>

----------------------------------------
(* complete and cancel. *)

Working(c) == caller[c].at \notin {"new", "returned", "failed"}
CompletesBeside(c) == c \in Completes /\ \E d \in Completes \ {c} : Working(d)
To(c, place) == caller' = [caller EXCEPT ![c].at = place]
Begin(c, place, then) ==
  /\ caller' = [caller EXCEPT ![c].at = place, ![c].then = then]
  /\ raced' = (raced \/ CompletesBeside(c))

(* The checks of complete. *)
CheckComplete(c) ==
  /\ c \in Completes /\ caller[c].at = "new"
  /\ CASE task = "COMPLETED" -> To(c, "returned") /\ UNCHANGED raced
       [] task = "absent" \/ (task # "COMPLETED" /\ marked # Parts) ->
            To(c, "failed") /\ UNCHANGED raced
       [] OTHER -> Begin(c, IF c \in WithDigest THEN "digest" ELSE "list", "none")
  /\ UNCHANGED <<storage, task, marked, old, parts, object, put, emptied>>

(* remove_task begins; `then` says what comes after it. *)
Remove(c, then) ==
  /\ caller' = [caller EXCEPT ![c].at = "remove", ![c].then = then]
  /\ emptied' = TRUE

(* list_parts, before the digest is computed. *)
ListForDigest(c) ==
  /\ caller[c].at = "digest"
  /\ caller' = [caller EXCEPT ![c].at = "reading", ![c].left = Present]
  /\ UNCHANGED <<storage, task, marked, old, parts, object, put, raced, emptied>>

(* read_part, in order; one that has gone since makes the reading fail. *)
ReadPart(c) ==
  /\ caller[c].at = "reading" /\ caller[c].left # {}
  /\ LET n == CHOOSE m \in caller[c].left : \A k \in caller[c].left : m <= k
     IN  IF parts[n] = Gone THEN To(c, "failed")
         ELSE caller' = [caller EXCEPT ![c].got[n] = parts[n], ![c].left = @ \ {n}]
  /\ UNCHANGED <<storage, task, marked, old, parts, object, put, raced, emptied>>

(* A digest that does not match removes the parts. *)
EndDigest(c) ==
  /\ caller[c].at = "reading" /\ caller[c].left = {}
  /\ IF \A m \in Parts : caller[c].got[m] = "good"
     THEN To(c, "list") /\ UNCHANGED emptied
     ELSE Remove(c, "failed")
  /\ UNCHANGED <<storage, task, marked, old, parts, object, put, raced>>

(* merge lists the parts; without any it fails.  The local one begins a
   new file. *)
ListParts(c) ==
  /\ caller[c].at = "list"
  /\ IF Present = {} THEN To(c, "failed") /\ UNCHANGED object
     ELSE /\ caller' = [caller EXCEPT ![c].at = "merge", ![c].got =
                          [n \in Parts |-> IF n \in Present THEN "listed" ELSE Gone]]
          /\ object' = IF storage = "local" THEN NoObject ELSE object
  /\ UNCHANGED <<storage, task, marked, old, parts, put, raced, emptied>>

Listed(c) == {n \in Parts : caller[c].got[n] = "listed"}

(* The local merge appends one listed part after the other. *)
AppendPart(c) ==
  /\ caller[c].at = "merge" /\ storage = "local" /\ Listed(c) # {}
  /\ LET n == CHOOSE m \in Listed(c) : \A k \in Listed(c) : m <= k
     IN  IF parts[n] = Gone THEN To(c, "failed") /\ UNCHANGED object
         ELSE /\ caller' = [caller EXCEPT ![c].got[n] = parts[n]]
              /\ object' = [object EXCEPT ![n] = parts[n]]
  /\ UNCHANGED <<storage, task, marked, old, parts, put, raced, emptied>>

(* MinIO composes the listed parts into the object at once. *)
Compose(c) ==
  /\ caller[c].at = "merge" /\ storage = "minio" /\ Listed(c) # {}
  /\ IF Listed(c) \subseteq Present
     THEN LET o == [n \in Parts |-> IF n \in Listed(c) THEN parts[n] ELSE Gone]
          IN  object' = o /\ caller' = [caller EXCEPT ![c].got = o]
     ELSE To(c, "failed") /\ UNCHANGED object
  /\ UNCHANGED <<storage, task, marked, old, parts, put, raced, emptied>>

(* merge ends with removing the parts.  MinIO is asked for the size of
   whatever is the object by then. *)
EndMerge(c) ==
  /\ caller[c].at = "merge" /\ Listed(c) = {}
  /\ caller' = [caller EXCEPT ![c].at = "remove", ![c].then = "measure",
                             ![c].got = IF storage = "minio" THEN object ELSE @]
  /\ emptied' = TRUE
  /\ UNCHANGED <<storage, task, marked, old, parts, object, put, raced>>

(* The parts go: the local directory as a whole, on MinIO what is listed
   now, one object after the other.  The local remove_task takes the
   merged file with them; the end of merge does not. *)
ListForRemoval(c) ==
  /\ caller[c].at = "remove"
  /\ IF storage = "local"
     THEN /\ RemoveDirectory /\ To(c, caller[c].then)
          /\ object' = IF caller[c].then = "measure" THEN object ELSE NoObject
     ELSE /\ caller' = [caller EXCEPT ![c].at = "removing", ![c].left = Present]
          /\ UNCHANGED <<parts, object, put>>
  /\ UNCHANGED <<storage, task, marked, old, raced, emptied>>

RemovePart(c) ==
  /\ caller[c].at = "removing"
  /\ IF caller[c].left = {} THEN To(c, caller[c].then) /\ UNCHANGED parts
     ELSE \E n \in caller[c].left :
            /\ parts' = [parts EXCEPT ![n] = Gone]
            /\ caller' = [caller EXCEPT ![c].left = @ \ {n}]
  /\ UNCHANGED <<storage, task, marked, old, object, put, raced, emptied>>

(* A merge of the wrong size fails; otherwise the store records the end,
   and what is left of the parts is removed once more. *)
Measure(c) ==
  /\ caller[c].at = "measure"
  /\ IF Whole(caller[c].got)
     THEN /\ task' = IF task = "absent" THEN task ELSE "COMPLETED"
          /\ Remove(c, "returned")
     ELSE Remove(c, "failed") /\ UNCHANGED task
  /\ UNCHANGED <<storage, marked, old, parts, object, put, raced>>

(* cancel removes the parts, then the task. *)
CheckCancel(c) ==
  /\ c \in Cancels /\ caller[c].at = "new"
  /\ IF task = "absent" THEN To(c, "failed") /\ UNCHANGED <<raced, emptied>>
     ELSE Begin(c, "remove", "forget") /\ emptied' = TRUE
  /\ UNCHANGED <<storage, task, marked, old, parts, object, put>>
Forget(c) ==
  /\ caller[c].at = "forget" /\ To(c, "returned")
  /\ task' = "absent" /\ marked' = {}
  /\ UNCHANGED <<storage, old, parts, object, put, raced, emptied>>

----------------------------------------
(* cleanup_stale: tasks by their age, finished ones as well; and local
   directories nothing was saved to for as long. *)
Ages == /\ ~old /\ old' = TRUE
        /\ UNCHANGED <<storage, task, marked, parts, object, put, caller, raced, emptied>>

CleanupExpired ==
  \/ UNCHANGED <<parts, put, emptied>>
  \/ storage = "local" /\ RemoveDirectory /\ emptied' = TRUE

CleanupStale ==
  /\ old /\ task # "absent" /\ task' = "absent" /\ marked' = {}
  /\ CleanupExpired
  /\ UNCHANGED <<storage, old, object, caller, raced>>

UploadNext ==
  \/ \E u \in Puts : CheckPut(u) \/ SavePart(u) \/ OpenPart(u) \/ WritePart(u) \/ MarkPart(u)
  \/ \E c \in Callers :
       \/ CheckComplete(c) \/ ListForDigest(c) \/ ReadPart(c) \/ EndDigest(c) \/ ListParts(c) \/ AppendPart(c)
       \/ Compose(c) \/ EndMerge(c) \/ ListForRemoval(c) \/ RemovePart(c)
       \/ Measure(c) \/ CheckCancel(c) \/ Forget(c)
  \/ Ages \/ CleanupStale

UploadSpec == UploadInit /\ [][UploadNext]_uploadVars

----------------------------------------
(* LocalObjectStorage and MinioObjectStorage, one key.  Each call runs in
   a thread; on disk a file keeps its data after its name is gone, and a
   put empties the file it finds before it writes.  MinIO takes an object
   as a whole. *)

NoText == <<>>
NoAccess == [at |-> "new", op |-> "none", file |-> 0, data |-> NoText, alone |-> TRUE]
InWork(c) == access[c].at \notin {"new", "returned", "absent", "failed"}
Changing == {c \in ObjectCalls : InWork(c) /\ access[c].op \in {"put", "delete"}}

ObjectsInit ==
  /\ storage \in Storages /\ files = <<>> /\ named = 0
  /\ access = [c \in ObjectCalls |-> NoAccess] /\ latest = NoText /\ mixed = FALSE

Comes(c, to) ==
  /\ access[c].at = "new"
  /\ access' = [d \in ObjectCalls |->
       IF d = c THEN [to EXCEPT !.alone = Changing = {}]
       ELSE IF InWork(d) /\ to.op \in {"put", "delete"} THEN [access[d] EXCEPT !.alone = FALSE]
       ELSE access[d]]

EndsAccess(c, at, data) ==
  access' = [access EXCEPT ![c] = [NoAccess EXCEPT !.at = at, !.data = data,
                                                   !.alone = at # "failed" \/ access[c].alone]]

(* A mutant: the file is opened as it is, and written from its start. *)
OpenedAsItIs(file) == file

(* open(path, "wb"). *)
OpenedForPut(file) == <<>>

(* LocalObjectStorage.put: the file is made, or emptied, and then written. *)
PutOpens(c, text) ==
  /\ storage = "local"
  /\ named # 0 \/ Len(files) < MaxFiles
  /\ Comes(c, [NoAccess EXCEPT !.at = "writing", !.op = "put", !.data = text,
                               !.file = IF named # 0 THEN named ELSE Len(files) + 1])
  /\ IF named # 0 THEN files' = [files EXCEPT ![named] = OpenedForPut(@)] /\ UNCHANGED named
     ELSE files' = Append(files, <<>>) /\ named' = Len(files')
  /\ UNCHANGED <<latest, mixed>>

(* What another has written further on stays. *)
PutWrites(c) ==
  LET text == access[c].data
      before == files[access[c].file]
  IN  /\ access[c].at = "writing"
      /\ files' = [files EXCEPT ![access[c].file] =
                    text \o SubSeq(before, Len(text) + 1, Len(before))]
      /\ EndsAccess(c, "returned", NoText)
      /\ latest' = text /\ mixed' = ~access[c].alone
      /\ UNCHANGED named

(* get looks for the name, and then opens and reads; without a name it
   raises then. *)
GetLooks(c) ==
  /\ storage = "local"
  /\ Comes(c, [NoAccess EXCEPT !.at = IF named = 0 THEN "absent" ELSE "reading", !.op = "get"])
  /\ UNCHANGED <<files, named, latest, mixed>>

GetReads(c) ==
  /\ access[c].at = "reading"
  /\ IF named = 0 THEN EndsAccess(c, "failed", NoText) ELSE EndsAccess(c, "returned", files[named])
  /\ UNCHANGED <<files, named, latest, mixed>>

(* delete looks for the name, and then removes it. *)
DeleteLooks(c) ==
  /\ storage = "local"
  /\ Comes(c, [NoAccess EXCEPT !.at = IF named = 0 THEN "absent" ELSE "removing", !.op = "delete"])
  /\ UNCHANGED <<files, named, latest, mixed>>

DeleteRemoves(c) ==
  /\ access[c].at = "removing" /\ named' = 0
  /\ EndsAccess(c, IF named = 0 THEN "failed" ELSE "returned", NoText)
  /\ latest' = NoText /\ mixed' = ~access[c].alone
  /\ UNCHANGED files

(* MinioObjectStorage.put. *)
MinioPuts(c, text) ==
  /\ storage = "minio" /\ Len(files) < MaxFiles
  /\ Comes(c, [NoAccess EXCEPT !.at = "returned", !.op = "put"])
  /\ files' = Append(files, text) /\ named' = Len(files') /\ latest' = text /\ mixed' = FALSE

(* get: whatever goes wrong, there is no object. *)
MinioGets(c, fails) ==
  /\ storage = "minio"
  /\ Comes(c, [NoAccess EXCEPT !.at = IF named = 0 \/ fails THEN "absent" ELSE "returned",
                               !.op = "get",
                               !.data = IF named = 0 \/ fails THEN NoText ELSE files[named]])
  /\ UNCHANGED <<files, named, latest, mixed>>

MinioDeletes(c) ==
  /\ storage = "minio"
  /\ Comes(c, [NoAccess EXCEPT !.at = "returned", !.op = "delete"])
  /\ named' = 0 /\ latest' = NoText /\ mixed' = FALSE /\ UNCHANGED files

(* A caller comes again. *)
ComesAgain(c) ==
  /\ access[c].at \in {"returned", "absent", "failed"}
  /\ access' = [access EXCEPT ![c] = NoAccess] /\ UNCHANGED <<files, named, latest, mixed>>

ObjectsNext ==
  \E c \in ObjectCalls :
    \/ \E text \in ObjectTexts : PutOpens(c, text) \/ MinioPuts(c, text)
    \/ PutWrites(c) \/ GetLooks(c) \/ GetReads(c) \/ DeleteLooks(c) \/ DeleteRemoves(c)
    \/ \E fails \in BOOLEAN : MinioGets(c, fails)
    \/ MinioDeletes(c) \/ ComesAgain(c)

----------------------------------------
(* Properties. *)

Contents == {"good", "other", "empty", "listed", Gone}
UploadTypeOK ==
  /\ storage \in Storages /\ task \in {"absent", "INITIALIZED", "COMPLETED"}
  /\ marked \subseteq Parts /\ {old, raced, emptied} \subseteq BOOLEAN
  /\ parts \in [Parts -> Contents \ {"listed"}]
  /\ object \in [Parts -> Contents \ {"listed"}]
  /\ put \in [Puts -> {"new", "save", "write", "lost", "mark", "done", "refused"}]
  /\ caller \in [Callers -> [at : {"new", "digest", "reading", "list", "merge", "remove", "removing",
                                   "measure", "forget", "returned", "failed"},
                             got : [Parts -> Contents], left : SUBSET Parts,
                             then : {"none", "measure", "forget", "returned", "failed"}]]

(* The object of an upload that is COMPLETED has all its parts. *)
CompletedHasObject == task = "COMPLETED" => Whole(object)

(* A part that list_uploaded_parts reports is there to be merged, until
   somebody removes the parts; on MinIO the object of a completed upload
   is whole, unless complete was called beside another complete: one may
   compose what the other has not removed yet, over the whole object. *)
UploadKept ==
  /\ task = "INITIALIZED" /\ ~emptied => marked \subseteq Present
  /\ storage = "minio" /\ ~raced => CompletedHasObject

(* What was put last, and beside no other put or delete, is what a get
   that is beside none returns, whole; on MinIO a get returns nothing but
   what somebody put; and on disk a get or a delete raises only when
   another call took the name away (LocalObjectStorage,
   MinioObjectStorage: put, get, delete). *)
ObjectsKept ==
  /\ ~mixed /\ Changing = {} => latest = IF named = 0 THEN NoText ELSE files[named]
  /\ \A c \in ObjectCalls :
       /\ storage = "minio" => access[c].data \in ObjectTexts \cup {NoText}
       /\ access[c].at = "failed" => storage = "local" /\ ~access[c].alone

(* Parts that are reported are there to be merged, and an object that was
   put is read whole, but for calls that overlapped
   (MultipartUploadService, LocalObjectStorage, MinioObjectStorage). *)
UploadsSound == UploadTypeOK /\ UploadKept /\ ObjectsKept
=============================================================================
