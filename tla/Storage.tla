------------------------------ MODULE Storage ------------------------------
(***************************************************************************)
(* The files of a workspace: assets and their quota, the objects behind    *)
(* them, the import and export jobs of a board and the workers that run    *)
(* them, the cleanup worker, and the purge of the workspace.               *)
(*                                                                         *)
(* Every transaction below locks the workspace row before it decides, so a *)
(* transaction is one step.  The object store takes no part in it: what a  *)
(* transaction wrote or removed there stays when the transaction rolls     *)
(* back, because a call failed, its time was over or the process died.     *)
(* Between its transactions a worker holds nothing but a leased job.       *)
(***************************************************************************)
EXTENDS Naturals, FiniteSets, FiniteSetsExt

CONSTANTS Uploads,      \* assets that clients reserve
          Jobs, Parts,  \* jobs, and the attachments in an import's archive
          Workers,      \* transfer workers, of all processes
          None,
          Size,         \* bytes of each asset
          Quota,        \* bytes of the plan
          MaxActive,    \* unfinished jobs of one user: 3
          MaxRunning,   \* running jobs: 2
          MaxAttempts   \* attempts of one job: 5

(* The assets of a job have identities derived from the job's, so that a   *)
(* retry finds what an earlier attempt has prepared.                       *)
Assets == Uploads \cup (Jobs \X Parts)

ASSUME StorageAssumption ==
  /\ Size \in [Assets -> Nat \ {0}] /\ Quota \in Nat
  /\ MaxActive \in Nat \ {0} /\ MaxRunning \in Nat \ {0} /\ MaxAttempts \in Nat \ {0}
  /\ IsFiniteSet(Uploads) /\ IsFiniteSet(Jobs) /\ IsFiniteSet(Parts) /\ Parts # {}
  /\ Uploads \cap (Jobs \X Parts) = {}
  /\ None \notin Assets \cup Jobs

VARIABLES
  asset,      \* the rows of assets: status, purpose, accounted; expired: its deadline is over
  objects,    \* the objects of each asset: its "stage" and its "final" one
  used, reserved, \* workspace_usage
  job,        \* the rows of transfer_jobs
  worker,     \* what each transfer worker holds between transactions
  candidate,  \* what the cleanup worker has picked without a lock
  board,      \* "initializing", "active" or "deleting"
  refs,       \* the attachments the board's document refers to
  access,     \* what the user may do: "write", "read" or "none"
  lifecycle   \* "ready", "purging" or "deleted"

files == <<asset, objects, used, reserved>>
place == <<board, refs, access, lifecycle>>
vars == <<files, job, worker, candidate, place>>

Total(S) == MapThenSumSet(LAMBDA a : Size[a], S)

Is(status) == {a \in Assets : asset[a].status = status}
Unexpired(a) == ~ asset[a].expired
Fresh(purpose, status) ==
  [status |-> status, purpose |-> purpose, accounted |-> FALSE, expired |-> FALSE]

CanWriteEver == access = "write"
CanWrite == lifecycle = "ready" /\ access = "write"
ContentReadable == lifecycle = "ready" /\ access # "none" /\ board = "active"
BoardReadable == ContentReadable \/ (board = "initializing" /\ CanWrite)

-----------------------------------------------------------------------------
(* The object store.  A name holds the bytes that its asset promises, or   *)
(* nothing: both are compared before and after every write.                *)

Put(o, name) == o \cup {name}
Stage(o) == Put(o, "stage")

(* Finalize copies the staged object, or finds that this was done before,  *)
(* and removes the staged one.                                             *)
Finalizable(o) == o # {}
Finalized(o) == Put(o, "final") \ {"stage"}
(* What a Finalize that fails on its way can leave.                        *)
Unfinished(o) == {o, Put(o, "final"), Finalized(o)}

(* Remove deletes whatever is under the name of the asset, one by one.     *)
RemovedSome(o) == SUBSET o

-----------------------------------------------------------------------------
(* Requests of a user.                                                     *)

Fits(n) == used + reserved + n <= Quota
Purposes == {"attachment", "import_source"}

(* reserve_asset.                                                          *)
Reserve(a) ==
  /\ asset[a].status = "none"
  /\ CanWrite /\ board \in {"active", "initializing"}
  /\ Fits(Size[a])
  /\ \E p \in Purposes :
       asset' = [asset EXCEPT ![a] = Fresh(p, "pending")]
  /\ reserved' = reserved + Size[a]
  /\ UNCHANGED <<objects, used, job, worker, candidate, place>>

(* lock_asset: a read or a write under the lock of the workspace.          *)
Locked(a, writing) ==
  /\ asset[a].status # "none" /\ BoardReadable
  /\ writing => CanWrite /\ asset[a].purpose # "export_artifact"

(* What Upload and Complete require of the row.  The user of an import may *)
(* also upload what the import prepared.                                   *)
Writable(a) == Locked(a, TRUE) /\ asset[a].status = "pending" /\ Unexpired(a)

Upload(a) ==
  /\ Writable(a)
  /\ objects' = [objects EXCEPT ![a] = Stage(@)]
  /\ UNCHANGED <<asset, used, reserved, job, worker, candidate, place>>

(* Bytes of an attachment are used once it is available; those of a source *)
(* stay reserved until it is deleted.                                      *)
Complete(a) ==
  /\ Writable(a) /\ Finalizable(objects[a])
  /\ objects' = [objects EXCEPT ![a] = Finalized(@)]
  /\ LET counts == asset[a].purpose = "attachment"
         moved == IF counts THEN Size[a] ELSE 0
     IN  /\ asset' = [asset EXCEPT ![a].status = "available", ![a].accounted = counts]
         /\ reserved' = reserved - moved /\ used' = used + moved
  /\ UNCHANGED <<job, worker, candidate, place>>

CompleteFailsCommitted(a) ==
  /\ Writable(a) /\ Finalizable(objects[a])
  /\ \E o \in Unfinished(objects[a]) : objects' = [objects EXCEPT ![a] = o]
  /\ asset' = [asset EXCEPT ![a].status = "available"]
  /\ UNCHANGED <<used, reserved, job, worker, candidate, place>>

CompleteFails(a) ==
  /\ Writable(a) /\ Finalizable(objects[a])
  /\ \E o \in Unfinished(objects[a]) : objects' = [objects EXCEPT ![a] = o]
  /\ UNCHANGED <<asset, used, reserved, job, worker, candidate, place>>

(* Download serves an attachment for ever, any other file until its        *)
(* deadline.                                                               *)
Download(a) ==
  /\ Locked(a, FALSE) /\ asset[a].status = "available"
  /\ asset[a].purpose = "attachment" \/ Unexpired(a)

-----------------------------------------------------------------------------
(* Jobs.                                                                   *)

Active == {j \in Jobs : job[j].status \in {"queued", "running"}}

Enqueued(kind, source, input) ==
  [kind |-> kind, status |-> "queued", attempts |-> 0, source |-> source, input |-> input,
   due |-> TRUE, live |-> FALSE, aged |-> FALSE]

MayEnqueue(j) == job[j].status = "none" /\ Cardinality(Active) < MaxActive

EnqueueImport(j) ==
  /\ MayEnqueue(j)
  /\ CanWrite /\ board = "initializing"
  /\ \A k \in Jobs : job[k].kind = "import" => job[k].status = "failed"
  /\ \E s \in Is("available") :
       /\ asset[s].purpose = "import_source" /\ Unexpired(s)
       /\ job' = [job EXCEPT ![j] = Enqueued("import", s, {})]
  /\ UNCHANGED <<files, worker, candidate, place>>

(* An export pins the document it was asked for.                           *)
EnqueueExport(j) ==
  /\ MayEnqueue(j)
  /\ ContentReadable
  /\ job' = [job EXCEPT ![j] = Enqueued("export", None, refs)]
  /\ UNCHANGED <<files, worker, candidate, place>>

(* A job that is over is only read for its kind and its result.            *)
Over(r, status) == [Enqueued(r.kind, r.source, {}) EXCEPT !.status = status,
                                                          !.attempts = r.attempts]

(* An attempt that is over: the job waits for the next one or has failed.  *)
Retried(r, final) ==
  IF final \/ r.attempts >= MaxAttempts THEN Over(r, "failed")
  ELSE [r EXCEPT !.status = "queued", !.live = FALSE]

(* A job that waits for its backoff.                                       *)
Again(r) == [r EXCEPT !.due = r.status # "queued"]

(* lease_transfer first takes back the leases that are over and ends the   *)
(* jobs that are a day old.                                                *)
Recovered(r) ==
  LET back == IF r.status = "running" /\ ~ r.live THEN Retried(r, r.aged) ELSE r
  IN  IF back.status = "queued" /\ back.aged THEN Over(back, "failed") ELSE back

(* The token of a lease is fresh; the attempt identifies it.               *)
Lease(w) ==
  /\ worker[w] = None
  /\ LET rows == [j \in Jobs |-> Recovered(job[j])]
         room == Cardinality({j \in Jobs : rows[j].status = "running"}) < MaxRunning
         ready == {j \in Jobs : rows[j].status = "queued" /\ rows[j].due}
     IN  IF room /\ ready # {}
         THEN \E j \in ready :
                /\ job' = [rows EXCEPT ![j].status = "running", ![j].live = TRUE,
                                       ![j].attempts = @ + 1]
                /\ worker' = [worker EXCEPT ![w] =
                     [job |-> j, lease |-> rows[j].attempts + 1, step |-> "leased", code |-> None]]
         ELSE job' = rows /\ UNCHANGED worker
  /\ UNCHANGED <<files, candidate, place>>

-----------------------------------------------------------------------------
(* The two transactions of a worker, both under transfer_context.          *)

HoldsJob(w) == LET r == job[worker[w].job] IN r.status = "running" /\ r.live

Holds(w) ==
  LET r == job[worker[w].job]
  IN  r.status = "running" /\ r.live /\ r.attempts = worker[w].lease

Permitted(j) ==
  IF job[j].kind = "import" THEN CanWrite /\ board = "initializing" ELSE ContentReadable

(* The files of an archive, or of a native file, become assets whose       *)
(* identities are derived from the job and the file; an export makes one.  *)
Derived(j, S) == {j} \X S
Artifact(j) == <<j, CHOOSE p \in Parts : TRUE>>
Manifest(j) == IF job[j].kind = "import" THEN Derived(j, Parts) ELSE {Artifact(j)}
Purpose(j) == IF job[j].kind = "import" THEN "attachment" ELSE "export_artifact"

(* transfer_context offers the source while it is available and unexpired, *)
(* and importPlan reads it.                                                *)
ImportPlanned(j) ==
  LET s == job[j].source
  IN  asset[s].status = "available" /\ Unexpired(s) /\ "final" \in objects[s]

(* It offers the board's available attachments whose deadline is not over, *)
(* and the pinned document must not refer to any other; those it refers to *)
(* are read.                                                               *)
Offered == {a \in Is("available") : asset[a].purpose = "attachment" /\ Unexpired(a)}
ExportPlanned(j) ==
  /\ job[j].input \subseteq Offered
  /\ \A a \in job[j].input : "final" \in objects[a]

Planned(j) == IF job[j].kind = "import" THEN ImportPlanned(j) ELSE ExportPlanned(j)

ArchiveRefusals == {"invalid_transfer", "permission_denied"}

(* Where the transaction of a worker goes wrong, and the code it reports.  *)
(* A store that does not answer may stop any attempt.  An import also      *)
(* stops at an archive that is not valid or needs a premium plan, and an   *)
(* export at files that are too large, or a page or file it does not find. *)
Refusals(w) ==
  LET j == worker[w].job IN
  IF ~ Holds(w) THEN {"dependency_unavailable"}
  ELSE IF ~ Permitted(j) THEN {"permission_denied"}
  ELSE IF ~ Planned(j) THEN {"invalid_transfer"}
  ELSE {"dependency_unavailable"} \cup
       (IF job[j].kind = "import" THEN ArchiveRefusals ELSE {"invalid_transfer"})

Runs(w) == LET j == worker[w].job IN Holds(w) /\ Permitted(j) /\ Planned(j)
Stops(w, code) == worker' = [worker EXCEPT ![w].step = "failing", ![w].code = code]

(* prepare_transfer: assets that an earlier attempt prepared must still    *)
(* wait, the others are reserved.  An export's artifact takes no quota.    *)
Prepare(w) ==
  LET j == worker[w].job
      new == {a \in Manifest(j) : asset[a].status = "none"}
      bytes == IF job[j].kind = "import" THEN Total(new) ELSE 0
  IN  /\ worker[w] # None /\ worker[w].step = "leased" /\ Runs(w)
      /\ \A a \in Manifest(j) \ new : asset[a].status = "pending"
      /\ Fits(bytes)
      /\ asset' = [a \in Assets |-> IF a \in new THEN Fresh(Purpose(j), "pending")
                                                 ELSE asset[a]]
      /\ reserved' = reserved + bytes
      /\ worker' = [worker EXCEPT ![w].step = "prepared"]
      /\ UNCHANGED <<objects, used, job, candidate, place>>

PrepareFails(w) ==
  /\ worker[w] # None /\ worker[w].step = "leased"
  /\ \E code \in Refusals(w) : Stops(w, code)
  /\ UNCHANGED <<files, job, candidate, place>>

(* Every file is staged and finalized, and then complete_transfer makes    *)
(* the assets and, for an import, the document visible together.           *)
Waiting(j) == \A a \in Manifest(j) : asset[a].status = "pending" /\ Unexpired(a)

Publish(w) ==
  LET j == worker[w].job
      import == job[j].kind = "import"
      bytes == IF import THEN Total(Manifest(j)) ELSE 0
  IN  /\ worker[w] # None /\ worker[w].step = "prepared" /\ Runs(w) /\ Waiting(j)
      /\ objects' = [a \in Assets |-> IF a \in Manifest(j) THEN Finalized(Stage(objects[a])) ELSE objects[a]]
      /\ asset' = [a \in Assets |->
           IF a \in Manifest(j) THEN [asset[a] EXCEPT !.status = "available", !.accounted = import]
           ELSE IF a = job[j].source THEN [asset[a] EXCEPT !.status = "deleting"]
           ELSE asset[a]]
      /\ reserved' = reserved - bytes /\ used' = used + bytes
      /\ job' = [job EXCEPT ![j] = Over(@, "succeeded")]
      /\ worker' = [worker EXCEPT ![w] = None]
      /\ IF import THEN board' = "active" /\ refs' = Derived(j, Parts) ELSE UNCHANGED <<board, refs>>
      /\ UNCHANGED <<candidate, access, lifecycle>>

(* The transaction rolls back after some of the files were written.        *)
PublishFails(w) ==
  LET j == worker[w].job IN
  /\ worker[w] # None /\ worker[w].step = "prepared"
  /\ \E code \in Refusals(w) : Stops(w, code)
  /\ IF Runs(w)
     THEN \E done \in SUBSET Manifest(j), last \in Manifest(j) :
            objects' = [a \in Assets |-> IF a \in done THEN Finalized(Stage(objects[a]))
                                         ELSE IF a = last THEN Stage(objects[a])
                                         ELSE objects[a]]
     ELSE UNCHANGED objects
  /\ UNCHANGED <<asset, used, reserved, job, candidate, place>>

(* fail_transfer, by the holder of the token, also when its time is over.  *)
Fail(w) ==
  /\ worker[w] # None /\ worker[w].step = "failing"
  /\ LET j == worker[w].job  r == job[j]
         final == worker[w].code \in {"invalid_transfer", "permission_denied"}
     IN  job' = IF r.status = "running" /\ r.attempts = worker[w].lease
                THEN [job EXCEPT ![j] = Again(Retried(r, final))]
                ELSE job
  /\ worker' = [worker EXCEPT ![w] = None]
  /\ UNCHANGED <<files, candidate, place>>

(* What the download of a job points to.                                   *)
Result(j) ==
  IF job[j].status = "succeeded" /\ job[j].kind = "export" THEN Artifact(j) ELSE None

WorkerDies(w) ==
  /\ worker[w] # None
  /\ worker' = [worker EXCEPT ![w] = None]
  /\ UNCHANGED <<files, job, candidate, place>>

-----------------------------------------------------------------------------
(* The cleanup worker picks an asset, and only then locks the workspace    *)
(* and looks again.                                                        *)

RemovableExpired(a) ==
  \/ board = "deleting" /\ asset[a].status \notin {"none", "deleted"}
  \/ asset[a].status = "deleting"
  \/ asset[a].expired /\ asset[a].status \in {"pending", "available"}

Removable(a) ==
  \/ board = "deleting" /\ asset[a].status \notin {"none", "deleted"}
  \/ asset[a].status = "deleting"
  \/ /\ asset[a].expired
     /\ \/ asset[a].status = "pending"
        \/ asset[a].status = "available" /\ asset[a].purpose \in {"import_source", "export_artifact"}

Pick(a) ==
  /\ candidate = None /\ Removable(a)
  /\ candidate' = a
  /\ UNCHANGED <<files, job, worker, place>>

(* The objects go first; the row and the bytes follow in the same          *)
(* transaction.                                                            *)
CleanUnlocked ==
  /\ candidate # None
  /\ LET a == candidate  r == asset[a] IN
     /\ objects' = [objects EXCEPT ![a] = {}]
     /\ asset' = [asset EXCEPT ![a] = Fresh(r.purpose, "deleted")]
     /\ used' = used - (IF r.accounted THEN Size[a] ELSE 0)
     /\ reserved' = reserved - (IF r.accounted THEN 0 ELSE Size[a])
  /\ candidate' = None
  /\ UNCHANGED <<job, worker, place>>

Clean ==
  /\ candidate # None /\ Removable(candidate)
  /\ LET a == candidate  r == asset[a] IN
     /\ objects' = [objects EXCEPT ![a] = {}]
     /\ asset' = [asset EXCEPT ![a] = Fresh(r.purpose, "deleted")]
     /\ used' = used - (IF r.accounted THEN Size[a] ELSE 0)
     /\ reserved' = reserved - (IF r.accounted \/ r.purpose = "export_artifact" THEN 0 ELSE Size[a])
  /\ candidate' = None
  /\ UNCHANGED <<job, worker, place>>

(* Some objects may be gone when the removal fails.                        *)
CleanFails ==
  /\ candidate # None /\ Removable(candidate)
  /\ \E o \in RemovedSome(objects[candidate]) : objects' = [objects EXCEPT ![candidate] = o]
  /\ candidate' = None
  /\ UNCHANGED <<asset, used, reserved, job, worker, place>>

(* The asset has changed, or the workspace is locked and is skipped.       *)
CleanSkips ==
  /\ candidate # None
  /\ candidate' = None
  /\ UNCHANGED <<files, job, worker, place>>

-----------------------------------------------------------------------------
(* Time, and what the rest of the program does.                            *)

Expires(a) ==
  /\ asset[a].status \in {"pending", "available"} /\ Unexpired(a)
  /\ asset' = [asset EXCEPT ![a].expired = TRUE]
  /\ UNCHANGED <<objects, used, reserved, job, worker, candidate, place>>

LeaseExpires(j) ==
  /\ job[j].status = "running" /\ job[j].live
  /\ job' = [job EXCEPT ![j].live = FALSE]
  /\ UNCHANGED <<files, worker, candidate, place>>

BackoffEnds(j) ==
  /\ job[j].status = "queued" /\ ~ job[j].due
  /\ job' = [job EXCEPT ![j].due = TRUE]
  /\ UNCHANGED <<files, worker, candidate, place>>

DayPasses(j) ==
  /\ j \in Active /\ ~ job[j].aged
  /\ job' = [job EXCEPT ![j].aged = TRUE]
  /\ UNCHANGED <<files, worker, candidate, place>>

(* A saved change may refer to any attachment that is available.           *)
Edit ==
  /\ ContentReadable /\ CanWrite
  /\ \E S \in SUBSET {a \in Is("available") : asset[a].purpose = "attachment"} : refs' = S
  /\ UNCHANGED <<files, job, worker, candidate, board, access, lifecycle>>

DeleteBoard ==
  /\ CanWrite /\ board # "deleting"
  /\ board' = "deleting"
  /\ UNCHANGED <<files, job, worker, candidate, refs, access, lifecycle>>

AccessChanges ==
  /\ access' \in {"write", "read", "none"} \ {access}
  /\ UNCHANGED <<files, job, worker, candidate, board, refs, lifecycle>>

(* billing_maintenance: a workspace whose retention is over is purged, one *)
(* part of it in each run.                                                 *)
PurgeStarts ==
  /\ lifecycle = "ready" /\ access = "none"
  /\ lifecycle' = "purging"
  /\ UNCHANGED <<files, job, worker, candidate, board, refs, access>>

Doomed(r) == IF r.status \in {"queued", "running"} THEN Over(r, "failed") ELSE r
PurgeStep ==
  /\ lifecycle = "purging"
  /\ asset' = [a \in Assets |->
       IF asset[a].status \in {"pending", "available"} THEN [asset[a] EXCEPT !.status = "deleting"]
       ELSE asset[a]]
  /\ job' = [j \in Jobs |-> Doomed(job[j])]
  /\ IF \E a \in Assets : asset[a].status \notin {"none", "deleted"}
     THEN UNCHANGED <<board, lifecycle>>
     ELSE IF board # "deleting"
     THEN board' = "deleting" /\ UNCHANGED lifecycle
     ELSE lifecycle' = "deleted" /\ UNCHANGED board
  /\ UNCHANGED <<objects, used, reserved, worker, candidate, refs, access>>

-----------------------------------------------------------------------------
(* A board that waits for an import, or one with a first document.         *)
Init ==
  /\ asset = [a \in Assets |-> Fresh("attachment", "none")]
  /\ objects = [a \in Assets |-> {}]
  /\ used = 0 /\ reserved = 0
  /\ job = [j \in Jobs |-> [Enqueued("none", None, {}) EXCEPT !.status = "none"]]
  /\ worker = [w \in Workers |-> None]
  /\ candidate = None
  /\ board \in {"initializing", "active"} /\ refs = {}
  /\ access = "write" /\ lifecycle = "ready"

ReserveRequest == \E a \in Uploads : Reserve(a)
UploadRequest == \E a \in Assets : Upload(a)
CompleteRequest == \E a \in Assets : Complete(a) \/ CompleteFails(a)
CreateRequest == \E j \in Jobs : EnqueueImport(j) \/ EnqueueExport(j)
Request == \/ ReserveRequest \/ UploadRequest \/ CompleteRequest \/ CreateRequest
           \/ Edit \/ DeleteBoard
Transfer == \E w \in Workers : \/ Lease(w) \/ Prepare(w) \/ PrepareFails(w) \/ Publish(w)
                               \/ PublishFails(w) \/ Fail(w) \/ WorkerDies(w)
Cleanup == (\E a \in Assets : Pick(a)) \/ Clean \/ CleanFails \/ CleanSkips
Time == \/ \E a \in Assets : Expires(a)
        \/ \E j \in Jobs : LeaseExpires(j) \/ BackoffEnds(j) \/ DayPasses(j)
Maintenance == AccessChanges \/ PurgeStarts \/ PurgeStep

Next == Request \/ Transfer \/ Cleanup \/ Time \/ Maintenance

Spec == Init /\ [][Next]_vars

-----------------------------------------------------------------------------
(* Properties.                                                             *)

Kept == {a \in Assets : asset[a].status \notin {"none", "deleted"}}

(* The counters of a workspace are what its assets take, whatever          *)
(* reservation, completion, import, retry, expiry, cleanup and purge do in *)
(* whichever order: no path releases bytes twice, or never.                *)
Conserved ==
  /\ used = Total({a \in Kept : asset[a].accounted})
  /\ reserved = Total({a \in Kept : ~ asset[a].accounted /\ asset[a].purpose # "export_artifact"})

(* What a download would serve is there: the row of an asset that can be   *)
(* read is never ahead of the object, although removals and copies are not *)
(* part of the transactions, and a job that has succeeded never points at  *)
(* an artifact that is still to be written.                                *)
ServedIsStored ==
  /\ \A a \in Assets : Download(a) => "final" \in objects[a]
  /\ \A j \in Jobs : Result(j) # None => asset[Result(j)].status \notin {"none", "pending"}

(* An import appears whole or not at all: every file that the document of  *)
(* an active board refers to is an attachment of the board with its bytes, *)
(* and at most one import has ever been published.                         *)
ReferencesResolve ==
  /\ board = "active" /\ lifecycle = "ready" =>
       \A a \in refs : /\ asset[a].status = "available" /\ asset[a].purpose = "attachment"
                       /\ "final" \in objects[a]
  /\ Cardinality({j \in Jobs : job[j].kind = "import" /\ job[j].status = "succeeded"}) <= 1

(* A worker whose job has been leased again since changes nothing any      *)
(* more, in whatever step its lease was lost.                              *)
LateWorkersChangeNothing ==
  [][\A w \in Workers :
       /\ worker[w] # None /\ worker'[w] # worker[w]
       /\ job[worker[w].job].attempts > worker[w].lease
       => UNCHANGED <<asset, used, reserved, job, board, refs>>]_vars

(* A purge is not undone by a request, an import or a renewal in its       *)
(* middle, and no object is written once it has begun.  When the workspace *)
(* is deleted no file is left, no byte is counted, no job could run, and   *)
(* no object of an upload is left.  Objects of a job's own files may be:   *)
(* those that a worker wrote after cleanup had removed their rows, before  *)
(* the purge began (PublishFails), which nothing ever looks for.           *)
PurgeStands ==
  [][lifecycle # "ready" =>
       /\ lifecycle' # "ready" /\ board' \in {board, "deleting"}
       /\ \A a \in Assets : /\ asset'[a].status \in {asset[a].status, "deleting", "deleted"}
                            /\ objects'[a] \subseteq objects[a]
       /\ lifecycle' = "deleted" => /\ Kept' = {} /\ used' = 0 /\ reserved' = 0
                                    /\ Active' = {} /\ \A a \in Uploads : objects'[a] = {}]_vars
=============================================================================
