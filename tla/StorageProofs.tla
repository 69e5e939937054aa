--------------------------- MODULE StorageProofs ---------------------------
(***************************************************************************)
(* Proofs about Storage.  The invariant says, for every asset, what its    *)
(* status allows, for every derived asset, what its job makes of it, and   *)
(* that the counters of the workspace are sums over the rows: see Sums.    *)
(*                                                                         *)
(* Most steps move jobs or assets forward and nothing else; JobsGo is what *)
(* they may do to the jobs.                                                *)
(***************************************************************************)
EXTENDS Storage, Sums

-----------------------------------------------------------------------------
(* The invariant.                                                          *)

Statuses == {"none", "pending", "available", "deleting", "deleted"}
AssetRow == [status : Statuses, purpose : Purposes \cup {"export_artifact"},
             accounted : BOOLEAN, expired : BOOLEAN]
JobStatuses == {"none", "queued", "running", "succeeded", "failed"}
JobRow == [kind : {"none", "import", "export"}, status : JobStatuses, attempts : Nat,
           source : Assets \cup {None}, input : SUBSET Assets,
           due : BOOLEAN, live : BOOLEAN, aged : BOOLEAN]
LeasedJob == [job : Jobs, lease : Nat, step : {"leased", "prepared", "failing"},
           code : ArchiveRefusals \cup {"dependency_unavailable", None}]

Types ==
  /\ asset \in [Assets -> AssetRow]
  /\ objects \in [Assets -> SUBSET {"stage", "final"}]
  /\ job \in [Jobs -> JobRow]
  /\ DOMAIN worker = Workers /\ \A w \in Workers : worker[w] # None => worker[w] \in LeasedJob
  /\ candidate \in Assets \cup {None} /\ refs \subseteq Assets
  /\ board \in {"initializing", "active", "deleting"}
  /\ lifecycle \in {"ready", "purging", "deleted"}

(* What waits is reserved, not used.                                       *)
PendingIsReserved == \A a \in Assets : asset[a].status = "pending" => asset[a].accounted = FALSE

(* What is derived from a job is for what the job is.                      *)
DerivedFits ==
  \A j \in Jobs, p \in Parts :
    asset[<<j, p>>].status # "none" =>
      job[j].kind # "none" /\ asset[<<j, p>>].purpose = Purpose(j)

(* A job has a kind; an import has a source, which is one.                 *)
JobsFit ==
  \A j \in Jobs :
    /\ (job[j].status = "none") <=> (job[j].kind = "none")
    /\ (job[j].kind = "import") <=> (job[j].source # None)
    /\ job[j].source # None =>
         /\ asset[job[j].source].status # "none"
         /\ asset[job[j].source].purpose = "import_source"

ResultsExist ==
  \A j \in Jobs : job[j].status = "succeeded" /\ job[j].kind = "export" =>
                    asset[Artifact(j)].status \notin {"none", "pending"}

OneImport ==
  \A j, k \in Jobs : job[j].kind = "import" /\ job[j].status # "failed"
                     /\ job[k].kind = "import" /\ job[k].status # "failed" => j = k

(* Nothing that can be served has lost its bytes.                          *)
BytesStay ==
  board # "deleting" =>
    \A a \in Assets :
      asset[a].status = "available" /\ (asset[a].purpose = "attachment" \/ ~ asset[a].expired)
        => "final" \in objects[a]

ReferencesStay ==
  board = "active" /\ lifecycle = "ready" =>
    \A a \in refs : asset[a].status = "available" /\ asset[a].purpose = "attachment"

(* An upload without a row has no objects.                                 *)
UploadsLeaveNothing ==
  \A a \in Uploads : asset[a].status \in {"none", "deleted"} => objects[a] = {}

DeletedIsEmpty == lifecycle = "deleted" => Kept = {} /\ Active = {}

(* The four parts that speak of files, and the four that speak of jobs.    *)
FilesInv == PendingIsReserved /\ BytesStay /\ ReferencesStay /\ UploadsLeaveNothing
JobsInv == DerivedFits /\ JobsFit /\ ResultsExist /\ OneImport

RowsInv == Types /\ FilesInv /\ JobsInv /\ DeletedIsEmpty

StorageInv == RowsInv /\ Conserved

-----------------------------------------------------------------------------
(* Rows.                                                                   *)

Aged(r) == [r EXCEPT !.expired = TRUE]
As(r, status) == [r EXCEPT !.status = status]
Counted(r, counts) == [r EXCEPT !.status = "available", !.accounted = counts]

(* A row of assets stays one: when its deadline ends,                      *)
LEMMA AgedRow ==
  ASSUME NEW r \in AssetRow
  PROVE  /\ Aged(r) \in AssetRow /\ Aged(r).status = r.status /\ Aged(r).purpose = r.purpose
         /\ Aged(r).accounted = r.accounted /\ Aged(r).expired = TRUE
  BY DEF AssetRow, Statuses, Aged

(* when the asset is to be deleted,                                            *)
LEMMA DeletingRow ==
  ASSUME NEW r \in AssetRow
  PROVE  /\ As(r, "deleting") \in AssetRow /\ As(r, "deleting").status = "deleting"
         /\ As(r, "deleting").purpose = r.purpose /\ As(r, "deleting").accounted = r.accounted
         /\ As(r, "deleting").expired = r.expired
  BY DEF AssetRow, Statuses, As

(* and when the asset is complete.                                             *)
LEMMA CountedRow ==
  ASSUME NEW r \in AssetRow, NEW b \in BOOLEAN
  PROVE  /\ Counted(r, b) \in AssetRow /\ Counted(r, b).status = "available"
         /\ Counted(r, b).purpose = r.purpose /\ Counted(r, b).accounted = b
         /\ Counted(r, b).expired = r.expired
  BY DEF AssetRow, Statuses, Counted

(* So is a fresh one.                                                      *)
LEMMA FreshRow ==
  ASSUME NEW p \in Purposes \cup {"export_artifact"}, NEW s \in Statuses
  PROVE  /\ Fresh(p, s) \in AssetRow /\ Fresh(p, s).status = s /\ Fresh(p, s).purpose = p
         /\ Fresh(p, s).accounted = FALSE /\ Fresh(p, s).expired = FALSE
  BY DEF Fresh, AssetRow, Statuses

(* What a job that nobody publishes may become.                            *)
Moves(r, s) ==
  /\ s \in JobRow /\ s.kind = r.kind /\ s.source = r.source
  /\ r.status \in {"none", "succeeded", "failed"} => s.status = r.status
  /\ r.status \in {"queued", "running"} => s.status \in {"queued", "running", "failed"}

(* One field of a row of jobs at a time.                                   *)
LEMMA JobFields ==
  ASSUME NEW r \in JobRow, NEW s \in JobStatuses, NEW b \in BOOLEAN, NEW n \in Nat
  PROVE  /\ [r EXCEPT !.status = s] \in JobRow
         /\ [r EXCEPT !.status = s].kind = r.kind /\ [r EXCEPT !.status = s].source = r.source
         /\ [r EXCEPT !.status = s].status = s
         /\ [r EXCEPT !.live = b] \in JobRow
         /\ [r EXCEPT !.live = b].kind = r.kind /\ [r EXCEPT !.live = b].source = r.source
         /\ [r EXCEPT !.live = b].status = r.status
         /\ [r EXCEPT !.due = b] \in JobRow
         /\ [r EXCEPT !.due = b].kind = r.kind /\ [r EXCEPT !.due = b].source = r.source
         /\ [r EXCEPT !.due = b].status = r.status
         /\ [r EXCEPT !.aged = b] \in JobRow
         /\ [r EXCEPT !.aged = b].kind = r.kind /\ [r EXCEPT !.aged = b].source = r.source
         /\ [r EXCEPT !.aged = b].status = r.status
         /\ [r EXCEPT !.attempts = n] \in JobRow
         /\ [r EXCEPT !.attempts = n].kind = r.kind /\ [r EXCEPT !.attempts = n].source = r.source
         /\ [r EXCEPT !.attempts = n].status = r.status
<1>1. /\ [r EXCEPT !.status = s] \in JobRow
      /\ [r EXCEPT !.status = s].kind = r.kind /\ [r EXCEPT !.status = s].source = r.source
      /\ [r EXCEPT !.status = s].status = s
  BY DEF JobRow
<1>2. /\ [r EXCEPT !.live = b] \in JobRow
      /\ [r EXCEPT !.live = b].kind = r.kind /\ [r EXCEPT !.live = b].source = r.source
      /\ [r EXCEPT !.live = b].status = r.status
  BY DEF JobRow
<1>3. /\ [r EXCEPT !.due = b] \in JobRow
      /\ [r EXCEPT !.due = b].kind = r.kind /\ [r EXCEPT !.due = b].source = r.source
      /\ [r EXCEPT !.due = b].status = r.status
  BY DEF JobRow
<1>4. /\ [r EXCEPT !.aged = b] \in JobRow
      /\ [r EXCEPT !.aged = b].kind = r.kind /\ [r EXCEPT !.aged = b].source = r.source
      /\ [r EXCEPT !.aged = b].status = r.status
  BY DEF JobRow
<1>5. /\ [r EXCEPT !.attempts = n] \in JobRow
      /\ [r EXCEPT !.attempts = n].kind = r.kind /\ [r EXCEPT !.attempts = n].source = r.source
      /\ [r EXCEPT !.attempts = n].status = r.status
  BY DEF JobRow
<1> QED
  BY <1>1, <1>2, <1>3, <1>4, <1>5

(* A new job, and one that is over, are rows of jobs.                      *)
LEMMA JobRows ==
  ASSUME NEW kind \in {"none", "import", "export"}, NEW source \in Assets \cup {None},
         NEW input \in SUBSET Assets, NEW r \in JobRow, NEW s \in JobStatuses
  PROVE  /\ Enqueued(kind, source, input) \in JobRow
         /\ Enqueued(kind, source, input).kind = kind
         /\ Enqueued(kind, source, input).source = source
         /\ Enqueued(kind, source, input).status = "queued"
         /\ Over(r, s) \in JobRow /\ Over(r, s).kind = r.kind /\ Over(r, s).source = r.source
         /\ Over(r, s).status = s
<1>1. \A k \in {"none", "import", "export"}, x \in Assets \cup {None}, i \in SUBSET Assets :
        /\ Enqueued(k, x, i) \in JobRow /\ Enqueued(k, x, i).kind = k
        /\ Enqueued(k, x, i).source = x /\ Enqueued(k, x, i).status = "queued"
  BY DEF Enqueued, JobRow, JobStatuses
<1> DEFINE e == Enqueued(r.kind, r.source, {})
           q == [e EXCEPT !.status = s]
<1>2. r.kind \in {"none", "import", "export"} /\ r.source \in Assets \cup {None} /\ r.attempts \in Nat
      /\ {} \in SUBSET Assets
  BY DEF JobRow
<1>3. e \in JobRow /\ e.kind = r.kind /\ e.source = r.source
  BY <1>1, <1>2
<1> HIDE DEF e
<1>4. q \in JobRow /\ q.kind = r.kind /\ q.source = r.source /\ q.status = s
  BY <1>3, TRUE \in BOOLEAN, JobFields, <1>2
<1> HIDE DEF q
<1>5. /\ [q EXCEPT !.attempts = r.attempts] \in JobRow
      /\ [q EXCEPT !.attempts = r.attempts].kind = r.kind
      /\ [q EXCEPT !.attempts = r.attempts].source = r.source
      /\ [q EXCEPT !.attempts = r.attempts].status = s
  BY <1>2, <1>4, TRUE \in BOOLEAN, JobFields
<1>6. Over(r, s) = [q EXCEPT !.attempts = r.attempts]
  BY DEF Over, e, q
<1> QED
  BY <1>1, <1>5, <1>6

(* A job that is over has failed, as far as Moves is concerned.            *)
LEMMA OverMoves ==
  ASSUME NEW r \in JobRow
  PROVE  /\ Over(r, "failed") \in JobRow /\ Over(r, "failed").kind = r.kind
         /\ Over(r, "failed").source = r.source /\ Over(r, "failed").status = "failed"
<1>1. {} \in SUBSET Assets /\ None \in Assets \cup {None} /\ "failed" \in JobStatuses
      /\ "none" \in {"none", "import", "export"}
  BY DEF JobStatuses
<1> QED
  BY <1>1, JobRows

(* Or it has succeeded.                                                    *)
LEMMA OverSucceeds ==
  ASSUME NEW r \in JobRow
  PROVE  /\ Over(r, "succeeded") \in JobRow /\ Over(r, "succeeded").kind = r.kind
         /\ Over(r, "succeeded").source = r.source /\ Over(r, "succeeded").status = "succeeded"
<1>1. {} \in SUBSET Assets /\ None \in Assets \cup {None} /\ "succeeded" \in JobStatuses
      /\ "none" \in {"none", "import", "export"}
  BY DEF JobStatuses
<1> QED
  BY <1>1, JobRows

(* An attempt that ends leaves a job that waits, or that has failed.       *)
LEMMA RetriedMoves ==
  ASSUME NEW r \in JobRow, NEW final \in BOOLEAN
  PROVE  /\ Retried(r, final) \in JobRow /\ Retried(r, final).kind = r.kind
         /\ Retried(r, final).source = r.source /\ Retried(r, final).status \in {"queued", "failed"}
<1> DEFINE q == [r EXCEPT !.status = "queued"]
<1>1. "queued" \in JobStatuses /\ FALSE \in BOOLEAN /\ 0 \in Nat
  BY DEF JobStatuses
<1>2. q \in JobRow /\ q.kind = r.kind /\ q.source = r.source /\ q.status = "queued"
  BY <1>1, JobFields
<1> HIDE DEF q
<1>3. /\ [q EXCEPT !.live = FALSE] \in JobRow /\ [q EXCEPT !.live = FALSE].kind = r.kind
      /\ [q EXCEPT !.live = FALSE].source = r.source /\ [q EXCEPT !.live = FALSE].status = "queued"
  BY <1>1, <1>2, JobFields
<1>4. Retried(r, final) = IF final \/ r.attempts >= MaxAttempts THEN Over(r, "failed")
                          ELSE [q EXCEPT !.live = FALSE]
  BY DEF Retried, q
<1> QED
  BY <1>3, <1>4, OverMoves

(* What leases, failures, deadlines and the purge do to a job.             *)
LEMMA JobMoves ==
  ASSUME NEW r \in JobRow, NEW final \in BOOLEAN
  PROVE  /\ Moves(r, r)
         /\ r.status \in {"queued", "running"} => Moves(r, Again(Retried(r, final)))
         /\ Moves(r, Recovered(r)) /\ Moves(r, Doomed(r))
         /\ Doomed(r).status \notin {"queued", "running"}
         /\ Moves(r, [r EXCEPT !.live = FALSE]) /\ Moves(r, [r EXCEPT !.due = TRUE])
         /\ Moves(r, [r EXCEPT !.aged = TRUE])
<1>1. r.status \in JobStatuses /\ Moves(r, r)
  BY DEF Moves, JobRow, JobStatuses
<1>2. r.status \in {"queued", "running"} => Moves(r, Again(Retried(r, final)))
  <2> DEFINE s == Retried(r, final)
             b == s.status # "queued"
  <2>1. s \in JobRow /\ s.kind = r.kind /\ s.source = r.source /\ s.status \in {"queued", "failed"}
    BY RetriedMoves
  <2>2. b \in BOOLEAN /\ 0 \in Nat
    OBVIOUS
  <2>3. Again(s) = [s EXCEPT !.due = b]
    BY DEF Again
  <2> HIDE DEF s, b
  <2>4. /\ [s EXCEPT !.due = b] \in JobRow /\ [s EXCEPT !.due = b].kind = r.kind
        /\ [s EXCEPT !.due = b].source = r.source /\ [s EXCEPT !.due = b].status = s.status
    BY <1>1, <2>1, <2>2, JobFields
  <2>5. Moves(r, Again(s)) <=> Moves(r, [s EXCEPT !.due = b])
    BY <2>3
  <2>6. r.status \in {"queued", "running"} => Moves(r, [s EXCEPT !.due = b])
    BY <2>1, <2>4 DEF Moves
  <2> QED
    BY <2>5, <2>6 DEF s
<1>3. Moves(r, Recovered(r))
  <2> DEFINE back == IF r.status = "running" /\ ~ r.live THEN Retried(r, r.aged) ELSE r
  <2>1. Moves(r, back)
    <3>1. r.aged \in BOOLEAN
      BY DEF JobRow
    <3>2. /\ Retried(r, r.aged) \in JobRow /\ Retried(r, r.aged).kind = r.kind
          /\ Retried(r, r.aged).source = r.source
          /\ Retried(r, r.aged).status \in {"queued", "failed"}
      BY <3>1, RetriedMoves
    <3>3. r.status = "running" => Moves(r, Retried(r, r.aged))
      BY <3>2 DEF Moves
    <3> QED
      BY <1>1, <3>3
  <2>2. Recovered(r) = IF back.status = "queued" /\ back.aged THEN Over(back, "failed") ELSE back
    BY DEF Recovered
  <2> HIDE DEF back
  <2>3. back \in JobRow
    BY <2>1 DEF Moves
  <2>4. /\ Over(back, "failed") \in JobRow /\ Over(back, "failed").kind = back.kind
        /\ Over(back, "failed").source = back.source /\ Over(back, "failed").status = "failed"
    BY <2>3, OverMoves
  <2>5. back.status = "queued" => Moves(r, Over(back, "failed"))
    BY <1>1, <2>1, <2>4 DEF Moves, JobStatuses
  <2> QED
    BY <2>1, <2>2, <2>5
<1>4. Moves(r, Doomed(r)) /\ Doomed(r).status \notin {"queued", "running"}
  BY <1>1, OverMoves DEF Doomed, Moves
<1>5. /\ Moves(r, [r EXCEPT !.live = FALSE]) /\ Moves(r, [r EXCEPT !.due = TRUE])
      /\ Moves(r, [r EXCEPT !.aged = TRUE])
  <2>1. TRUE \in BOOLEAN /\ FALSE \in BOOLEAN /\ 0 \in Nat
    OBVIOUS
  <2>2. /\ [r EXCEPT !.live = FALSE] \in JobRow /\ [r EXCEPT !.live = FALSE].kind = r.kind
        /\ [r EXCEPT !.live = FALSE].source = r.source /\ [r EXCEPT !.live = FALSE].status = r.status
    BY <1>1, <2>1, JobFields
  <2>3. /\ [r EXCEPT !.due = TRUE] \in JobRow /\ [r EXCEPT !.due = TRUE].kind = r.kind
        /\ [r EXCEPT !.due = TRUE].source = r.source /\ [r EXCEPT !.due = TRUE].status = r.status
    BY <1>1, <2>1, JobFields
  <2>4. /\ [r EXCEPT !.aged = TRUE] \in JobRow /\ [r EXCEPT !.aged = TRUE].kind = r.kind
        /\ [r EXCEPT !.aged = TRUE].source = r.source /\ [r EXCEPT !.aged = TRUE].status = r.status
    BY <1>1, <2>1, JobFields
  <2> QED
    BY <2>2, <2>3, <2>4, Zenon DEF Moves
<1> QED
  BY <1>1, <1>2, <1>3, <1>4, <1>5

-----------------------------------------------------------------------------
(* What steps may do to the rows.                                          *)

WorkersFit(f) == DOMAIN f = Workers /\ \A w \in Workers : f[w] # None => f[w] \in LeasedJob

JobsGo(f, g) == g \in [Jobs -> JobRow] /\ \A j \in Jobs : Moves(f[j], g[j])

(* Assets keep their purpose and never become new again; only requests of  *)
(* users, and Prepare, make a new row.                                     *)
RowGoes(a, r, s) ==
  /\ r.status # "none" => s.status # "none" /\ s.purpose = r.purpose
  /\ r.status \notin {"none", "pending"} => s.status \notin {"none", "pending"}
  /\ r.status = "none" /\ a \notin Uploads => s.status = "none"
AssetsGo(f, g) == g \in [Assets -> AssetRow] /\ \A a \in Assets : RowGoes(a, f[a], g[a])

(* The artifact of a job is one of the job's assets, and no upload.        *)
LEMMA ArtifactIsDerived ==
  ASSUME NEW j \in Jobs
  PROVE  /\ Artifact(j) \in Assets \ Uploads /\ Artifact(j) \in Derived(j, Parts)
         /\ \E p \in Parts : Artifact(j) = <<j, p>>
<1> DEFINE q == CHOOSE p \in Parts : TRUE
<1>1. q \in Parts
  BY StorageAssumption, Zenon DEF StorageAssumption
<1>2. Artifact(j) = <<j, q>>
  BY DEF Artifact
<1> HIDE DEF q
<1> QED
  BY <1>1, <1>2, StorageAssumption DEF StorageAssumption, Assets, Derived

(* Derived assets are assets, no uploads, and each has one job.            *)
LEMMA DerivedAssets ==
  ASSUME NEW j \in Jobs, NEW p \in Parts
  PROVE  <<j, p>> \in Assets /\ <<j, p>> \notin Uploads
  BY StorageAssumption DEF StorageAssumption, Assets

(* The files that a worker of a job writes are the job's.                  *)
LEMMA ManifestIsDerived ==
  ASSUME NEW j \in Jobs
  PROVE  /\ Manifest(j) \subseteq Assets \ Uploads /\ Manifest(j) # {}
         /\ \A a \in Manifest(j) : \E p \in Parts : a = <<j, p>>
         /\ job[j].kind = "import" => \A p \in Parts : <<j, p>> \in Manifest(j)
         /\ job[j].kind # "import" => Manifest(j) = {Artifact(j)}
<1>1. CASE job[j].kind = "import"
  <2>1. Manifest(j) = {j} \X Parts
    BY <1>1 DEF Manifest, Derived
  <2>2. Parts # {}
    BY StorageAssumption DEF StorageAssumption
  <2>3. \A a \in Manifest(j) : \E p \in Parts : a = <<j, p>>
    BY <2>1
  <2>4. \A p \in Parts : <<j, p>> \in Manifest(j)
    BY <2>1
  <2>5. Manifest(j) # {}
    BY <2>2, <2>4
  <2>6. Manifest(j) \subseteq Assets \ Uploads
    BY <2>3, DerivedAssets
  <2> QED
    BY <1>1, <2>3, <2>4, <2>5, <2>6
<1>2. CASE job[j].kind # "import"
  BY <1>2, ArtifactIsDerived DEF Manifest
<1> QED
  BY <1>1, <1>2

(* What is known of jobs stays so while jobs and assets only move on.      *)
LEMMA JobsInvKept ==
  ASSUME Types, JobsInv, AssetsGo(asset, asset'), JobsGo(job, job')
  PROVE  JobsInv'
<1>1. DerivedFits'
  <2> SUFFICES ASSUME NEW j \in Jobs, NEW p \in Parts, asset'[<<j, p>>].status # "none"
               PROVE  job'[j].kind # "none" /\ asset'[<<j, p>>].purpose = Purpose(j)'
    BY DEF DerivedFits
  <2>1. <<j, p>> \in Assets /\ <<j, p>> \notin Uploads
    BY DerivedAssets
  <2>2. /\ asset[<<j, p>>].status # "none"
        /\ asset'[<<j, p>>].purpose = asset[<<j, p>>].purpose
    BY <2>1 DEF AssetsGo, RowGoes
  <2>3. job'[j].kind = job[j].kind
    BY DEF JobsGo, Moves
  <2> QED
    BY <2>2, <2>3 DEF JobsInv, DerivedFits, Purpose
<1>2. JobsFit'
  <2> SUFFICES ASSUME NEW j \in Jobs
               PROVE  /\ (job'[j].status = "none") <=> (job'[j].kind = "none")
                      /\ (job'[j].kind = "import") <=> (job'[j].source # None)
                      /\ job'[j].source # None =>
                           /\ asset'[job'[j].source].status # "none"
                           /\ asset'[job'[j].source].purpose = "import_source"
    BY DEF JobsFit
  <2>1. /\ job'[j].kind = job[j].kind /\ job'[j].source = job[j].source
        /\ (job'[j].status = "none") <=> (job[j].status = "none")
    <3>1. job[j].status \in JobStatuses
      BY DEF Types, JobRow
    <3> QED
      BY <3>1 DEF JobsGo, Moves, JobStatuses
  <2>2. job[j].source \in Assets \cup {None}
    BY DEF Types, JobRow
  <2>3. job[j].source # None =>
          /\ asset[job[j].source].status # "none"
          /\ asset[job[j].source].purpose = "import_source"
    BY DEF JobsInv, JobsFit
  <2>4. job[j].source # None =>
          /\ asset'[job[j].source].status # "none"
          /\ asset'[job[j].source].purpose = "import_source"
    BY <2>2, <2>3 DEF AssetsGo, RowGoes
  <2> QED
    BY <2>1, <2>4 DEF JobsInv, JobsFit
<1>3. ResultsExist'
  <2> SUFFICES ASSUME NEW j \in Jobs, job'[j].status = "succeeded", job'[j].kind = "export"
               PROVE  asset'[Artifact(j)].status \notin {"none", "pending"}
    BY Zenon DEF ResultsExist, Artifact
  <2>1. job[j].status = "succeeded" /\ job[j].kind = "export"
    <3>1. job[j].status \in JobStatuses
      BY DEF Types, JobRow
    <3> QED
      BY <3>1 DEF JobsGo, Moves, JobStatuses
  <2>2. asset[Artifact(j)].status \notin {"none", "pending"}
    BY <2>1, Zenon DEF JobsInv, ResultsExist
  <2> QED
    BY <2>2, ArtifactIsDerived DEF AssetsGo, RowGoes
<1>4. OneImport'
  <2> SUFFICES ASSUME NEW j \in Jobs, NEW k \in Jobs,
                      job'[j].kind = "import", job'[j].status # "failed",
                      job'[k].kind = "import", job'[k].status # "failed"
               PROVE  j = k
    BY DEF OneImport
  <2>1. \A i \in Jobs : /\ job'[i].kind = job[i].kind
                        /\ job[i].status = "failed" => job'[i].status = "failed"
    BY DEF JobsGo, Moves
  <2> QED
    BY <2>1 DEF JobsInv, OneImport
<1> QED
  BY <1>1, <1>2, <1>3, <1>4 DEF JobsInv

(* Assets that do not change go nowhere; neither do jobs.                  *)
LEMMA Unmoved ==
  ASSUME Types
  PROVE  /\ asset' = asset => AssetsGo(asset, asset')
         /\ job' = job => JobsGo(job, job')
<1>1. ASSUME asset' = asset PROVE AssetsGo(asset, asset')
  BY <1>1 DEF Types, AssetsGo, RowGoes
<1>2. ASSUME job' = job PROVE JobsGo(job, job')
  <2>1. \A j \in Jobs : Moves(job[j], job[j])
    <3> TAKE j \in Jobs
    <3>1. job[j] \in JobRow /\ TRUE \in BOOLEAN
      BY DEF Types
    <3> QED
      BY <3>1, JobMoves
  <2> QED
    BY <1>2, <2>1 DEF Types, JobsGo
<1> QED
  BY <1>1, <1>2

(* No job becomes active by moving on.                                     *)
LEMMA ActiveShrinks ==
  ASSUME Types, JobsGo(job, job')
  PROVE  Active' \subseteq Active
<1> SUFFICES ASSUME NEW j \in Jobs, job'[j].status \in {"queued", "running"}
             PROVE  job[j].status \in {"queued", "running"}
  BY DEF Active
<1>1. job[j].status \in JobStatuses
  BY DEF Types, JobRow
<1> QED
  BY <1>1 DEF JobsGo, Moves, JobStatuses

(* A step that leaves the files and the board alone.                       *)
Still ==
  /\ UNCHANGED <<asset, objects, used, reserved, board, refs, lifecycle>>
  /\ JobsGo(job, job') /\ WorkersFit(worker') /\ candidate' \in Assets \cup {None}


(* The invariant survives it.                                              *)
LEMMA StillKeeps ==
  ASSUME StorageInv, Still
  PROVE  StorageInv'
<1>1. Types'
  BY DEF StorageInv, RowsInv, Types, Still, JobsGo, WorkersFit
<1>2. FilesInv'
  BY DEF StorageInv, RowsInv, FilesInv, Still, PendingIsReserved, BytesStay, ReferencesStay,
         UploadsLeaveNothing
<1>3. JobsInv'
  BY JobsInvKept, Unmoved DEF StorageInv, RowsInv, Still
<1>4. DeletedIsEmpty'
  <2>1. Kept' = Kept
    BY DEF Kept, Still
  <2> QED
    BY <2>1, ActiveShrinks DEF StorageInv, RowsInv, DeletedIsEmpty, Still
<1>5. Conserved'
  <2>1. Kept' = Kept
    BY DEF Kept, Still
  <2> QED
    BY <2>1 DEF StorageInv, Conserved, Still
<1> QED
  BY <1>1, <1>2, <1>3, <1>4, <1>5 DEF StorageInv, RowsInv

-----------------------------------------------------------------------------
(* The steps that leave the files and the board alone.                     *)

(* One field of one job at a time.                                         *)
LEMMA JobAt ==
  ASSUME NEW f \in [Jobs -> JobRow], NEW j \in Jobs, NEW r \in JobRow
  PROVE  /\ [f EXCEPT ![j] = r] \in [Jobs -> JobRow] /\ [f EXCEPT ![j] = r][j] = r
         /\ \A k \in Jobs \ {j} : [f EXCEPT ![j] = r][k] = f[k]
  OBVIOUS

(* A worker that takes another step is still one.                          *)
LEMMA WorkersStep ==
  ASSUME Types, NEW w \in Workers, NEW v, v = None \/ v \in LeasedJob
  PROVE  /\ WorkersFit([worker EXCEPT ![w] = v])
         /\ \A u \in Workers : u # w => [worker EXCEPT ![w] = v][u] = worker[u]
  BY DEF Types, WorkersFit

(* The lease, the failures, the deadlines, and the picking of a candidate. *)
LEMMA JobsMove ==
  ASSUME Types,
         \/ \E w \in Workers : Fail(w)
         \/ \E j \in Jobs : LeaseExpires(j) \/ BackoffEnds(j) \/ DayPasses(j)
  PROVE  JobsGo(job, job')
<1>1. \A j \in Jobs : job[j] \in JobRow /\ Moves(job[j], job[j])
  <2> TAKE j \in Jobs
  <2>1. job[j] \in JobRow /\ TRUE \in BOOLEAN
    BY DEF Types
  <2> QED
    BY <2>1, JobMoves
<1>2. \A j \in Jobs : \A r : Moves(job[j], r) => JobsGo(job, [job EXCEPT ![j] = r])
  <2> SUFFICES ASSUME NEW j \in Jobs, NEW r, Moves(job[j], r)
               PROVE  JobsGo(job, [job EXCEPT ![j] = r])
    OBVIOUS
  <2>1. r \in JobRow
    BY DEF Moves
  <2>2. /\ [job EXCEPT ![j] = r] \in [Jobs -> JobRow] /\ [job EXCEPT ![j] = r][j] = r
        /\ \A k \in Jobs \ {j} : [job EXCEPT ![j] = r][k] = job[k]
    BY <2>1 DEF Types
  <2> QED
    BY <1>1, <2>2 DEF JobsGo
<1>3. ASSUME NEW w \in Workers, Fail(w) PROVE JobsGo(job, job')
  <2> DEFINE j == worker[w].job
             final == worker[w].code \in {"invalid_transfer", "permission_denied"}
  <2>1. /\ j \in Jobs /\ final \in BOOLEAN
        /\ job' = IF job[j].status = "running" /\ job[j].attempts = worker[w].lease
                  THEN [job EXCEPT ![j] = Again(Retried(job[j], final))] ELSE job
    <3>1. worker[w] \in LeasedJob
      BY <1>3 DEF Types, Fail
    <3> QED
      BY <1>3, <3>1 DEF Fail, LeasedJob
  <2> HIDE DEF j, final
  <2>2. job[j].status = "running" => Moves(job[j], Again(Retried(job[j], final)))
    BY <1>1, <2>1, JobMoves
  <2> QED
    BY <1>2, <2>1, <2>2, Unmoved
<1>4. ASSUME NEW j \in Jobs, LeaseExpires(j) \/ BackoffEnds(j) \/ DayPasses(j)
      PROVE  JobsGo(job, job')
  <2>1. /\ Moves(job[j], [job[j] EXCEPT !.live = FALSE]) /\ Moves(job[j], [job[j] EXCEPT !.due = TRUE])
        /\ Moves(job[j], [job[j] EXCEPT !.aged = TRUE])
    <3>1. job[j] \in JobRow /\ TRUE \in BOOLEAN
      BY <1>1
    <3> QED
      BY <3>1, JobMoves
  <2>2. \/ job' = [job EXCEPT ![j] = [job[j] EXCEPT !.live = FALSE]]
        \/ job' = [job EXCEPT ![j] = [job[j] EXCEPT !.due = TRUE]]
        \/ job' = [job EXCEPT ![j] = [job[j] EXCEPT !.aged = TRUE]]
    BY <1>4, Zenon DEF LeaseExpires, BackoffEnds, DayPasses
  <2> HIDE DEF JobsGo, Moves
  <2> QED
    BY <1>2, <2>1, <2>2, Zenon
<1> QED
  BY <1>3, <1>4

(* Taking back leases and giving one out.                                  *)
LEMMA LeaseMoves ==
  ASSUME Types, NEW w \in Workers, Lease(w)
  PROVE  JobsGo(job, job') /\ WorkersFit(worker')
<1> DEFINE rows == [j \in Jobs |-> Recovered(job[j])]
           ready == {j \in Jobs : rows[j].status = "queued" /\ rows[j].due}
           room == Cardinality({j \in Jobs : rows[j].status = "running"}) < MaxRunning
<1>1. /\ worker[w] = None
      /\ \/ \E j \in ready :
              /\ job' = [rows EXCEPT ![j].status = "running", ![j].live = TRUE,
                                     ![j].attempts = @ + 1]
              /\ worker' = [worker EXCEPT ![w] =
                   [job |-> j, lease |-> rows[j].attempts + 1, step |-> "leased", code |-> None]]
         \/ job' = rows /\ UNCHANGED worker
  BY Zenon DEF Lease
<1>2. JobsGo(job, rows)
  <2>1. \A j \in Jobs : Moves(job[j], Recovered(job[j]))
    <3> TAKE j \in Jobs
    <3>1. job[j] \in JobRow /\ TRUE \in BOOLEAN
      BY DEF Types
    <3> QED
      BY <3>1, JobMoves
  <2>2. \A j \in Jobs : rows[j] = Recovered(job[j]) /\ Recovered(job[j]) \in JobRow
    BY <2>1 DEF Moves
  <2>3. rows \in [Jobs -> JobRow]
    BY <2>2
  <2> HIDE DEF rows
  <2> QED
    BY <2>1, <2>2, <2>3 DEF JobsGo
<1>3. ready \subseteq Jobs /\ \A j \in ready : rows[j].status = "queued"
  OBVIOUS
<1> HIDE DEF rows, ready
<1>4. ASSUME NEW j \in ready,
             job' = [rows EXCEPT ![j].status = "running", ![j].live = TRUE, ![j].attempts = @ + 1],
             worker' = [worker EXCEPT ![w] =
               [job |-> j, lease |-> rows[j].attempts + 1, step |-> "leased", code |-> None]]
      PROVE  JobsGo(job, job') /\ WorkersFit(worker')
  <2> DEFINE f == [rows EXCEPT ![j].status = "running"]
             g == [f EXCEPT ![j].live = TRUE]
             h == [g EXCEPT ![j].attempts = @ + 1]
  <2>1. j \in Jobs /\ rows \in [Jobs -> JobRow] /\ rows[j] \in JobRow /\ "running" \in JobStatuses
        /\ rows[j].attempts \in Nat /\ TRUE \in BOOLEAN
    BY <1>2, <1>3 DEF JobsGo, JobRow, JobStatuses
  <2>2. /\ f \in [Jobs -> JobRow] /\ f[j] = [rows[j] EXCEPT !.status = "running"]
        /\ \A k \in Jobs \ {j} : f[k] = rows[k]
    <3>1. [rows[j] EXCEPT !.status = "running"] \in JobRow
      BY <2>1, JobFields
    <3> HIDE DEF JobRow
    <3> QED
      BY <2>1, <3>1
  <2>3. f[j] \in JobRow /\ f[j].status = "running" /\ f[j].kind = rows[j].kind
        /\ f[j].source = rows[j].source
    BY <2>1, <2>2, JobFields
  <2> HIDE DEF f
  <2>4. /\ g \in [Jobs -> JobRow] /\ g[j] = [f[j] EXCEPT !.live = TRUE]
        /\ \A k \in Jobs \ {j} : g[k] = rows[k]
    <3>1. [f[j] EXCEPT !.live = TRUE] \in JobRow
      BY <2>1, <2>3, JobFields
    <3> HIDE DEF JobRow
    <3> QED
      BY <2>1, <2>2, <3>1
  <2>5. g[j] \in JobRow /\ g[j].status = "running" /\ g[j].kind = rows[j].kind
        /\ g[j].source = rows[j].source
    BY <2>1, <2>3, <2>4, JobFields
  <2> HIDE DEF g
  <2>6. g[j].attempts + 1 \in Nat
    BY <2>5 DEF JobRow
  <2>7. /\ h \in [Jobs -> JobRow] /\ h[j] = [g[j] EXCEPT !.attempts = g[j].attempts + 1]
        /\ \A k \in Jobs \ {j} : h[k] = rows[k]
    <3>1. [g[j] EXCEPT !.attempts = g[j].attempts + 1] \in JobRow
      BY <2>1, <2>5, <2>6, JobFields
    <3> HIDE DEF JobRow
    <3> QED
      BY <2>1, <2>4, <3>1
  <2>8. h[j] \in JobRow /\ h[j].status = "running" /\ h[j].kind = rows[j].kind
        /\ h[j].source = rows[j].source
    BY <2>1, <2>5, <2>6, <2>7, JobFields
  <2>9. job' = h
    BY <1>4, Zenon DEF f, g
  <2> HIDE DEF h
  <2>10. Moves(job[j], h[j])
    <3>1. Moves(job[j], rows[j]) /\ rows[j].status = "queued" /\ job[j].status \in JobStatuses
      BY <1>2, <1>3, <2>1 DEF JobsGo, Types, JobRow
    <3> QED
      BY <2>8, <3>1 DEF Moves, JobStatuses
  <2>11. JobsGo(job, h)
    BY <1>2, <2>7, <2>10 DEF JobsGo
  <2>12. [job |-> j, lease |-> rows[j].attempts + 1, step |-> "leased", code |-> None] \in LeasedJob
    BY <2>1 DEF LeasedJob
  <2> QED
    BY <1>4, <2>9, <2>11, <2>12, WorkersStep
<1>5. CASE job' = rows /\ UNCHANGED worker
  BY <1>2, <1>5 DEF Types, WorkersFit
<1> QED
  BY <1>1, <1>4, <1>5

(* The step of a worker that fails.                                        *)
LEMMA FailingWorker ==
  ASSUME Types, NEW w \in Workers, worker[w] # None, NEW code \in Refusals(w), Stops(w, code)
  PROVE  WorkersFit(worker')
<1> DEFINE v == worker[w]
           p == [v EXCEPT !.step = "failing"]
           q == [p EXCEPT !.code = code]
<1>1. v \in LeasedJob
  BY DEF Types
<1>2. code \in ArchiveRefusals \cup {"dependency_unavailable"}
  BY DEF Refusals, ArchiveRefusals
<1>3. worker' = [[worker EXCEPT ![w].step = "failing"] EXCEPT ![w].code = code]
  BY DEF Stops
<1>4. p \in LeasedJob
  BY <1>1 DEF LeasedJob
<1>5. [worker EXCEPT ![w].step = "failing"] = [worker EXCEPT ![w] = p]
  OBVIOUS
<1> HIDE DEF p
<1>6. q \in LeasedJob
  BY <1>2, <1>4 DEF LeasedJob
<1> DEFINE f == [worker EXCEPT ![w] = p]
<1>7. WorkersFit(f) /\ f[w] = p
  BY <1>4 DEF Types, WorkersFit
<1> HIDE DEF f
<1>8. worker' = [f EXCEPT ![w].code = code]
  BY <1>3, <1>5 DEF f
<1>9. [f EXCEPT ![w].code = code] = [f EXCEPT ![w] = q]
  BY <1>7
<1> HIDE DEF q
<1> QED
  BY <1>6, <1>7, <1>8, <1>9 DEF WorkersFit

(* The steps that are Still.                                               *)
LEMMA StillSteps ==
  ASSUME Types,
         \/ \E w \in Workers : Lease(w) \/ PrepareFails(w) \/ Fail(w) \/ WorkerDies(w)
         \/ \E a \in Assets : Pick(a)
         \/ CleanSkips \/ AccessChanges \/ UNCHANGED vars
         \/ \E j \in Jobs : LeaseExpires(j) \/ BackoffEnds(j) \/ DayPasses(j)
  PROVE  Still
<1> USE DEF files, place
<1>1. WorkersFit(worker) /\ candidate \in Assets \cup {None}
  BY DEF Types, WorkersFit
<1>2. ASSUME NEW w \in Workers, Lease(w) PROVE Still
  BY <1>1, <1>2, LeaseMoves DEF Still, Lease
<1>3. ASSUME NEW w \in Workers, PrepareFails(w) PROVE Still
  BY <1>1, <1>3, FailingWorker, Unmoved DEF Still, PrepareFails
<1>4. ASSUME NEW w \in Workers, Fail(w) PROVE Still
  <2>1. JobsGo(job, job')
    BY <1>4, JobsMove
  <2>2. WorkersFit(worker')
    BY <1>4, WorkersStep DEF Fail
  <2> QED
    BY <1>1, <1>4, <2>1, <2>2 DEF Still, Fail
<1>5. ASSUME NEW w \in Workers, WorkerDies(w) PROVE Still
  BY <1>1, <1>5, WorkersStep, Unmoved DEF Still, WorkerDies
<1>6. CASE (\E a \in Assets : Pick(a)) \/ CleanSkips \/ AccessChanges \/ UNCHANGED vars
  BY <1>1, <1>6, Unmoved DEF Still, Pick, CleanSkips, AccessChanges, vars
<1>7. ASSUME NEW j \in Jobs, LeaseExpires(j) \/ BackoffEnds(j) \/ DayPasses(j) PROVE Still
  <2>1. JobsGo(job, job')
    BY <1>7, JobsMove
  <2> QED
    BY <1>1, <1>7, <2>1 DEF Still, LeaseExpires, BackoffEnds, DayPasses
<1> QED
  BY <1>2, <1>3, <1>4, <1>5, <1>6, <1>7

-----------------------------------------------------------------------------
(* The counters.                                                           *)

Uses(r) == r.status \notin {"none", "deleted"} /\ r.accounted
Reserves(r) == /\ r.status \notin {"none", "deleted"}
               /\ ~ r.accounted /\ r.purpose # "export_artifact"
UsedBy(f) == {a \in Assets : Uses(f[a])}
ReservedBy(f) == {a \in Assets : Reserves(f[a])}

(* The two sets of Conserved.                                              *)
LEMMA CountedRows ==
  /\ {a \in Kept : asset[a].accounted} = UsedBy(asset)
  /\ {a \in Kept : ~ asset[a].accounted /\ asset[a].purpose # "export_artifact"} = ReservedBy(asset)
  BY DEF Kept, UsedBy, ReservedBy, Uses, Reserves

(* There are finitely many assets, each of some bytes.                     *)
LEMMA AssetsAreFinite ==
  /\ IsFiniteSet(Assets) /\ \A a \in Assets : Size[a] \in Int /\ Size[a] \in Nat
<1>1. IsFiniteSet(Jobs \X Parts)
  BY StorageAssumption, FS_Product DEF StorageAssumption
<1>2. IsFiniteSet(Assets)
  BY <1>1, StorageAssumption, FS_Union DEF StorageAssumption, Assets
<1> QED
  BY <1>2, StorageAssumption DEF StorageAssumption

(* What the total of some files is, with and without one or several more.  *)
LEMMA Totals ==
  ASSUME NEW S \in SUBSET Assets
  PROVE  /\ Total(S) = SumFunctionOnSet(Size, S) /\ Total(S) \in Nat
         /\ S = {} => Total(S) = 0
         /\ \A a \in S : Total(S \ {a}) = Total(S) - Size[a]
         /\ \A a \in Assets \ S : Total(S \cup {a}) = Total(S) + Size[a]
         /\ \A T \in SUBSET (Assets \ S) : Total(S \cup T) = Total(S) + Total(T)
         /\ \A T \in SUBSET S : Total(S \ T) = Total(S) - Total(T)
<1>1. \A T : Total(T) = SumFunctionOnSet(Size, T)
  BY Zenon DEF Total, MapThenSumSet, SumFunctionOnSet, FoldFunctionOnSet
<1>2. \A T \in SUBSET Assets : IsFiniteSet(T) /\ \A a \in T : Size[a] \in Int /\ Size[a] \in Nat
  BY AssetsAreFinite, FS_Subset
<1>3. \A T \in SUBSET Assets : Total(T) \in Nat /\ (T = {} => Total(T) = 0)
  BY <1>1, <1>2, SumNat, SumDefinition
<1>4. \A T \in SUBSET Assets : \A a \in Assets \ T : Total(T \cup {a}) = Total(T) + Size[a]
  BY <1>1, <1>2, AssetsAreFinite, SumAdd
<1>5. \A T, U \in SUBSET Assets : T \cap U = {} => Total(T \cup U) = Total(T) + Total(U)
  <2> SUFFICES ASSUME NEW T \in SUBSET Assets, NEW U \in SUBSET Assets,
                      T \cap U = {}
               PROVE  Total(T \cup U) = Total(T) + Total(U)
    OBVIOUS
  <2>1. IsFiniteSet(T) /\ IsFiniteSet(U) /\ \A a \in T \cup U : Size[a] \in Int
    BY <1>2
  <2> QED
    BY <1>1, <2>1, SumUnion
<1>6. ASSUME NEW a \in S PROVE Total(S \ {a}) = Total(S) - Size[a]
  <2>1. S = (S \ {a}) \cup {a} /\ S \ {a} \in SUBSET Assets /\ a \in Assets \ (S \ {a})
    OBVIOUS
  <2>2. Total(S) = Total(S \ {a}) + Size[a]
    BY <1>4, <2>1
  <2>3. Total(S \ {a}) \in Nat /\ Size[a] \in Nat
    BY <1>2, <1>3, <2>1
  <2> QED
    BY <2>2, <2>3
<1>7. ASSUME NEW T \in SUBSET S PROVE Total(S \ T) = Total(S) - Total(T)
  <2>1. S = (S \ T) \cup T /\ S \ T \in SUBSET Assets /\ T \in SUBSET Assets /\ (S \ T) \cap T = {}
    OBVIOUS
  <2>2. Total(S) = Total(S \ T) + Total(T)
    BY <1>5, <2>1
  <2> QED
    BY <1>3, <2>1, <2>2
<1>8. \A T \in SUBSET (Assets \ S) : Total(S \cup T) = Total(S) + Total(T)
  BY <1>5
<1> QED
  BY <1>1, <1>3, <1>4, <1>6, <1>7, <1>8

(* Conserved, over the rows; and what two sets of rows with the same uses  *)
(* have in common.                                                         *)
LEMMA ConservedRows ==
  /\ Conserved <=> used = Total(UsedBy(asset)) /\ reserved = Total(ReservedBy(asset))
  /\ Conserved' <=> used' = Total(UsedBy(asset')) /\ reserved' = Total(ReservedBy(asset'))
<1>1. Conserved <=> used = Total(UsedBy(asset)) /\ reserved = Total(ReservedBy(asset))
  BY CountedRows, Zenon DEF Conserved
<1>2. /\ {a \in Kept : asset[a].accounted}' = UsedBy(asset')
      /\ {a \in Kept : ~ asset[a].accounted /\ asset[a].purpose # "export_artifact"}'
           = ReservedBy(asset')
  BY DEF Kept, UsedBy, ReservedBy, Uses, Reserves
<1>3. Conserved' <=> used' = Total(UsedBy(asset')) /\ reserved' = Total(ReservedBy(asset'))
  BY <1>2 DEF Conserved
<1> QED
  BY <1>1, <1>3

(* Rows that take the same bytes take the same totals.                     *)
SameBytes(f, g) ==
  \A a \in Assets : (Uses(g[a]) <=> Uses(f[a])) /\ (Reserves(g[a]) <=> Reserves(f[a]))

(* So the counters stay what they are.                                     *)
LEMMA SameBytesSameTotals ==
  ASSUME Conserved, SameBytes(asset, asset'), UNCHANGED <<used, reserved>>
  PROVE  Conserved'
<1>1. UsedBy(asset') = UsedBy(asset) /\ ReservedBy(asset') = ReservedBy(asset)
  BY DEF SameBytes, UsedBy, ReservedBy
<1> QED
  BY <1>1, ConservedRows, Zenon

-----------------------------------------------------------------------------
(* The requests of users.                                                  *)

(* No request is answered in a workspace that has been deleted.            *)
LEMMA WritersAreReady ==
  ASSUME NEW a
  PROVE  /\ Writable(a) => /\ lifecycle = "ready" /\ asset[a].status = "pending"
                           /\ asset[a].purpose # "export_artifact" /\ ~ asset[a].expired
         /\ Reserve(a) => lifecycle = "ready"
  BY DEF Writable, Locked, CanWrite, Reserve, Unexpired

(* A reservation takes what the new row holds.                             *)
LEMMA ReserveKeeps ==
  ASSUME StorageInv, NEW a \in Uploads, Reserve(a)
  PROVE  StorageInv'
<1> USE DEF files, place
<1>1. PICK p \in Purposes : asset' = [asset EXCEPT ![a] = Fresh(p, "pending")]
  BY DEF Reserve
<1> DEFINE r == Fresh(p, "pending")
<1>2. /\ r \in AssetRow /\ r.status = "pending" /\ r.purpose = p
      /\ r.accounted = FALSE /\ r.expired = FALSE
  BY FreshRow DEF Statuses
<1>3. a \in Assets /\ asset \in [Assets -> AssetRow] /\ asset[a].status = "none"
  BY DEF Assets, StorageInv, RowsInv, Types, Reserve
<1> HIDE DEF r
<1>4. /\ asset' \in [Assets -> AssetRow] /\ asset'[a] = r
      /\ \A b \in Assets : b # a => asset'[b] = asset[b]
  <2> HIDE DEF AssetRow
  <2> QED
    BY <1>1, <1>2, <1>3 DEF r
<1>5. Types'
  BY <1>4 DEF StorageInv, RowsInv, Types, Reserve
<1>6. AssetsGo(asset, asset')
  <2>1. \A b \in Assets : RowGoes(b, asset[b], asset'[b])
    BY <1>2, <1>3, <1>4 DEF RowGoes
  <2> QED
    BY <1>4, <2>1 DEF AssetsGo
<1>7. JobsInv'
  BY <1>6, JobsInvKept, Unmoved DEF StorageInv, RowsInv, Reserve
<1>8. FilesInv'
  <2>1. PendingIsReserved' /\ BytesStay' /\ UploadsLeaveNothing'
    BY <1>2, <1>3, <1>4 DEF StorageInv, RowsInv, FilesInv, PendingIsReserved, BytesStay,
       UploadsLeaveNothing, Reserve, Assets
  <2>2. ReferencesStay'
    BY <1>2, <1>3, <1>4 DEF StorageInv, RowsInv, Types, FilesInv, ReferencesStay, Reserve
  <2> QED
    BY <2>1, <2>2 DEF FilesInv
<1>9. DeletedIsEmpty'
  BY WritersAreReady DEF Reserve, DeletedIsEmpty
<1>10. Conserved'
  <2>1. UsedBy(asset') = UsedBy(asset)
    BY <1>2, <1>3, <1>4 DEF UsedBy, Uses
  <2>2. ReservedBy(asset') = ReservedBy(asset) \cup {a} /\ a \notin ReservedBy(asset)
    BY <1>2, <1>3, <1>4 DEF ReservedBy, Reserves, Purposes
  <2>3. ReservedBy(asset) \in SUBSET Assets
    BY DEF ReservedBy
  <2>4. Total(ReservedBy(asset) \cup {a}) = Total(ReservedBy(asset)) + Size[a]
    BY <1>3, <2>2, <2>3, Totals
  <2> QED
    BY <2>1, <2>2, <2>4, ConservedRows DEF StorageInv, Reserve
<1> QED
  BY <1>5, <1>7, <1>8, <1>9, <1>10 DEF StorageInv, RowsInv

(* Objects that only ever gain their final bytes.                          *)
ObjectsGrow(f, g) ==
  /\ g \in [Assets -> SUBSET {"stage", "final"}]
  /\ \A a \in Assets : "final" \in f[a] => "final" \in g[a]

(* The object of one asset is written.                                     *)
LEMMA ObjectsWritten ==
  ASSUME Types, NEW a \in Assets, NEW o \in Unfinished(objects[a]) \cup {Stage(objects[a])},
         objects' = [objects EXCEPT ![a] = o]
  PROVE  ObjectsGrow(objects, objects') /\ \A b \in Assets : b # a => objects'[b] = objects[b]
<1>1. o \in SUBSET {"stage", "final"} /\ ("final" \in objects[a] => "final" \in o)
  BY DEF Types, Unfinished, Stage, Put, Finalized
<1> QED
  BY <1>1 DEF Types, ObjectsGrow

(* A step that writes objects, of assets that wait, and nothing else.      *)
LEMMA WritesKeep ==
  ASSUME StorageInv, ObjectsGrow(objects, objects'), WorkersFit(worker'),
         \A a \in Uploads : asset[a].status \in {"none", "deleted"} => objects'[a] = objects[a],
         UNCHANGED <<asset, used, reserved, job, candidate, place>>
  PROVE  StorageInv'
<1> USE DEF place
<1>1. Types'
  BY DEF StorageInv, RowsInv, Types, ObjectsGrow, WorkersFit
<1>2. FilesInv'
  BY DEF StorageInv, RowsInv, FilesInv, PendingIsReserved, BytesStay, ReferencesStay,
         UploadsLeaveNothing, ObjectsGrow
<1>3. JobsInv'
  BY JobsInvKept, Unmoved DEF StorageInv, RowsInv
<1>4. DeletedIsEmpty'
  BY DEF StorageInv, RowsInv, DeletedIsEmpty, Kept, Active
<1>5. Conserved'
  BY DEF StorageInv, Conserved, Kept
<1> QED
  BY <1>1, <1>2, <1>3, <1>4, <1>5 DEF StorageInv, RowsInv

(* Uploads, and completions that fail.                                     *)
LEMMA UploadKeeps ==
  ASSUME StorageInv, NEW a \in Assets, Upload(a) \/ CompleteFails(a)
  PROVE  StorageInv'
<1>1. PICK o \in Unfinished(objects[a]) \cup {Stage(objects[a])} :
        objects' = [objects EXCEPT ![a] = o]
  BY DEF Upload, CompleteFails
<1>2. asset[a].status = "pending"
  BY DEF Upload, CompleteFails, Writable
<1>3. Types /\ WorkersFit(worker')
  BY DEF StorageInv, RowsInv, Types, WorkersFit, Upload, CompleteFails
<1>4. ObjectsGrow(objects, objects') /\ \A b \in Assets : b # a => objects'[b] = objects[b]
  BY <1>1, <1>3, ObjectsWritten
<1>5. \A b \in Uploads : asset[b].status \in {"none", "deleted"} => objects'[b] = objects[b]
  BY <1>2, <1>4 DEF Assets
<1> QED
  BY <1>3, <1>4, <1>5, WritesKeep DEF Upload, CompleteFails

(* Two fields of the row of an asset that is complete.                     *)
LEMMA CountedAt ==
  ASSUME NEW f \in [Assets -> AssetRow], NEW a \in Assets, NEW b \in BOOLEAN
  PROVE  [f EXCEPT ![a].status = "available", ![a].accounted = b]
           = [f EXCEPT ![a] = Counted(f[a], b)]
<1> DEFINE r == [f[a] EXCEPT !.status = "available"]
           g == [f EXCEPT ![a] = r]
<1>1. [f EXCEPT ![a].status = "available"] = g
  OBVIOUS
<1>2. [g EXCEPT ![a].accounted = b] = [f EXCEPT ![a] = [r EXCEPT !.accounted = b]]
  <2>1. f \in [Assets -> AssetRow] /\ g = [f EXCEPT ![a] = r]
    OBVIOUS
  <2> HIDE DEF AssetRow, r, g
  <2>2. g[a] = r /\ DOMAIN g = Assets /\ \A c \in Assets : c # a => g[c] = f[c]
    BY <2>1
  <2>3. [g EXCEPT ![a].accounted = b] = [g EXCEPT ![a] = [r EXCEPT !.accounted = b]]
    BY <2>2
  <2> DEFINE v == [r EXCEPT !.accounted = b]
  <2> HIDE DEF v
  <2>4. [g EXCEPT ![a] = v] = [f EXCEPT ![a] = v]
    BY <2>1, <2>2
  <2> QED
    BY <2>3, <2>4 DEF v
<1>3. [f EXCEPT ![a].status = "available", ![a].accounted = b] = [g EXCEPT ![a].accounted = b]
  BY <1>1, Zenon
<1> QED
  BY <1>2, <1>3, Zenon DEF Counted

(* A completion moves the bytes of an attachment from reserved to used.    *)
LEMMA CompleteKeeps ==
  ASSUME StorageInv, NEW a \in Assets, Complete(a)
  PROVE  StorageInv'
<1> USE DEF files, place
<1> DEFINE counts == asset[a].purpose = "attachment"
           r == Counted(asset[a], counts)
<1>1. /\ Types /\ asset \in [Assets -> AssetRow] /\ asset[a] \in AssetRow
      /\ lifecycle = "ready" /\ asset[a].status = "pending" /\ asset[a].accounted = FALSE
      /\ asset[a].purpose # "export_artifact" /\ counts \in BOOLEAN
  BY WritersAreReady DEF StorageInv, RowsInv, Types, FilesInv, PendingIsReserved, Complete
<1>2. /\ r \in AssetRow /\ r.status = "available" /\ r.purpose = asset[a].purpose
      /\ r.accounted = counts /\ r.expired = asset[a].expired
  BY <1>1, CountedRow
<1>3. asset' = [asset EXCEPT ![a] = r]
  BY <1>1, CountedAt DEF Complete
<1>4. /\ counts => reserved' = reserved - Size[a] /\ used' = used + Size[a]
      /\ ~ counts => reserved' = reserved - 0 /\ used' = used + 0
  BY DEF Complete
<1>5. /\ objects' = [objects EXCEPT ![a] = Finalized(objects[a])]
      /\ UNCHANGED <<job, worker, candidate, place>>
  BY DEF Complete
<1> HIDE DEF r
<1>6. asset' \in [Assets -> AssetRow] /\ asset'[a] = r /\ \A b \in Assets : b # a => asset'[b] = asset[b]
  <2> HIDE DEF AssetRow
  <2> QED
    BY <1>1, <1>2, <1>3
<1>7. ObjectsGrow(objects, objects') /\ \A b \in Assets : b # a => objects'[b] = objects[b]
  <2>1. Finalized(objects[a]) \in Unfinished(objects[a])
    BY DEF Unfinished
  <2> QED
    BY <1>1, <1>5, <2>1, ObjectsWritten
<1>8. "final" \in objects'[a]
  BY <1>1, <1>5 DEF Types, Finalized, Put
<1>9. Types'
  BY <1>1, <1>5, <1>6, <1>7 DEF Types, ObjectsGrow
<1>10. AssetsGo(asset, asset')
  <2>1. \A b \in Assets : RowGoes(b, asset[b], asset'[b])
    BY <1>1, <1>2, <1>6 DEF RowGoes
  <2> QED
    BY <1>6, <2>1 DEF AssetsGo
<1>11. JobsInv'
  BY <1>1, <1>5, <1>10, JobsInvKept, Unmoved DEF StorageInv, RowsInv
<1>12. FilesInv'
  <2>1. PendingIsReserved' /\ UploadsLeaveNothing'
    BY <1>1, <1>2, <1>6, <1>7 DEF StorageInv, RowsInv, FilesInv, PendingIsReserved,
       UploadsLeaveNothing, Assets
  <2>2. BytesStay'
    BY <1>2, <1>5, <1>6, <1>7, <1>8 DEF StorageInv, RowsInv, FilesInv, BytesStay, ObjectsGrow
  <2>3. ReferencesStay'
    BY <1>1, <1>2, <1>5, <1>6 DEF StorageInv, RowsInv, Types, FilesInv, ReferencesStay
  <2> QED
    BY <2>1, <2>2, <2>3 DEF FilesInv
<1>13. DeletedIsEmpty'
  BY <1>1, <1>5 DEF DeletedIsEmpty
<1>14. Conserved'
  <2>1. CASE ~ counts
    <3>1. SameBytes(asset, asset')
      BY <1>1, <1>2, <1>6, <2>1 DEF SameBytes, Uses, Reserves
    <3>2. used \in Int /\ reserved \in Int
      <4>1. UsedBy(asset) \in SUBSET Assets /\ ReservedBy(asset) \in SUBSET Assets
        BY DEF UsedBy, ReservedBy
      <4> QED
        BY <4>1, ConservedRows, Totals DEF StorageInv
    <3>3. UNCHANGED <<used, reserved>>
      BY <1>4, <2>1, <3>2
    <3> QED
      BY <3>1, <3>3, SameBytesSameTotals DEF StorageInv
  <2>2. CASE counts
    <3>1. UsedBy(asset') = UsedBy(asset) \cup {a} /\ a \notin UsedBy(asset)
      BY <1>1, <1>2, <1>6, <2>2 DEF UsedBy, Uses
    <3>2. ReservedBy(asset') = ReservedBy(asset) \ {a} /\ a \in ReservedBy(asset)
      BY <1>1, <1>2, <1>6, <2>2 DEF ReservedBy, Reserves
    <3>3. UsedBy(asset) \in SUBSET Assets /\ ReservedBy(asset) \in SUBSET Assets
      BY DEF UsedBy, ReservedBy
    <3>4. /\ Total(UsedBy(asset) \cup {a}) = Total(UsedBy(asset)) + Size[a]
          /\ Total(ReservedBy(asset) \ {a}) = Total(ReservedBy(asset)) - Size[a]
      BY <3>1, <3>2, <3>3, Totals
    <3> QED
      BY <1>4, <2>2, <3>1, <3>2, <3>4, ConservedRows DEF StorageInv
  <2> QED
    BY <2>1, <2>2
<1> QED
  BY <1>9, <1>11, <1>12, <1>13, <1>14 DEF StorageInv, RowsInv

(* The counters are integers.                                              *)
LEMMA CountersAreNumbers ==
  ASSUME Conserved PROVE used \in Nat /\ reserved \in Nat
<1>1. UsedBy(asset) \in SUBSET Assets /\ ReservedBy(asset) \in SUBSET Assets
  BY DEF UsedBy, ReservedBy
<1> QED
  BY <1>1, ConservedRows, Totals

(* A new job: an import is the only one that has not failed.               *)
LEMMA EnqueueKeeps ==
  ASSUME StorageInv, NEW j \in Jobs, EnqueueImport(j) \/ EnqueueExport(j)
  PROVE  StorageInv'
<1> USE DEF files, place
<1>1. PICK kind \in {"import", "export"}, source \in Assets \cup {None}, input \in SUBSET Assets :
        /\ job' = [job EXCEPT ![j] = Enqueued(kind, source, input)]
        /\ (kind = "import") <=> (source # None)
        /\ source # None => /\ asset[source].status # "none"
                            /\ asset[source].purpose = "import_source"
        /\ kind = "import" =>
             \A k \in Jobs : job[k].kind = "import" => job[k].status = "failed"
  <2>1. CASE EnqueueImport(j)
    <3>1. PICK s \in Is("available") : /\ asset[s].purpose = "import_source"
                                      /\ job' = [job EXCEPT ![j] = Enqueued("import", s, {})]
      BY <2>1, Zenon DEF EnqueueImport
    <3>2. s \in Assets /\ s # None /\ asset[s].status = "available" /\ {} \in SUBSET Assets
      BY <3>1, StorageAssumption DEF Is, StorageAssumption
    <3>3. \A k \in Jobs : job[k].kind = "import" => job[k].status = "failed"
      BY <2>1, Zenon DEF EnqueueImport
    <3> QED
      BY <3>1, <3>2, <3>3
  <2>2. CASE EnqueueExport(j)
    <3>1. job' = [job EXCEPT ![j] = Enqueued("export", None, refs)]
      BY <2>2, Zenon DEF EnqueueExport
    <3>2. refs \in SUBSET Assets
      BY DEF StorageInv, RowsInv, Types
    <3> QED
      BY <3>1, <3>2
  <2> QED
    BY <2>1, <2>2
<1> DEFINE r == Enqueued(kind, source, input)
<1>2. /\ UNCHANGED <<files, worker, candidate, place>>
      /\ job[j].status = "none" /\ lifecycle = "ready"
  BY DEF EnqueueImport, EnqueueExport, MayEnqueue, CanWrite, ContentReadable
<1>3. r \in JobRow /\ r.kind = kind /\ r.source = source /\ r.status = "queued"
  <2>1. job[j] \in JobRow /\ "queued" \in JobStatuses
    BY DEF StorageInv, RowsInv, Types, JobStatuses
  <2> QED
    BY <2>1, JobRows
<1> HIDE DEF r
<1>4. job' \in [Jobs -> JobRow] /\ job'[j] = r /\ \A k \in Jobs : k # j => job'[k] = job[k]
  <2>1. job \in [Jobs -> JobRow] /\ job' = [job EXCEPT ![j] = r]
    BY <1>1 DEF StorageInv, RowsInv, Types, r
  <2> HIDE DEF JobRow
  <2> QED
    BY <1>3, <2>1
<1>5. Types'
  BY <1>2, <1>4 DEF StorageInv, RowsInv, Types
<1>6. FilesInv'
  BY <1>2 DEF StorageInv, RowsInv, FilesInv, PendingIsReserved, BytesStay, ReferencesStay,
     UploadsLeaveNothing
<1>7. job[j].kind = "none"
  BY <1>2 DEF StorageInv, RowsInv, JobsInv, JobsFit
<1>8. JobsInv'
  <2>1. DerivedFits'
    <3> SUFFICES ASSUME NEW k \in Jobs, NEW p \in Parts, asset[<<k, p>>].status # "none"
                 PROVE  job'[k].kind # "none" /\ asset[<<k, p>>].purpose = Purpose(k)'
      BY <1>2 DEF DerivedFits
    <3>1. job[k].kind # "none" /\ asset[<<k, p>>].purpose = Purpose(k)
      BY DEF StorageInv, RowsInv, JobsInv, DerivedFits
    <3>2. job'[k] = job[k]
      BY <1>4, <1>7, <3>1
    <3> QED
      BY <3>1, <3>2 DEF Purpose
  <2>2. JobsFit'
    <3>1. ASSUME NEW k \in Jobs
          PROVE  /\ (job'[k].status = "none") <=> (job'[k].kind = "none")
                 /\ (job'[k].kind = "import") <=> (job'[k].source # None)
                 /\ job'[k].source # None =>
                      /\ asset[job'[k].source].status # "none"
                      /\ asset[job'[k].source].purpose = "import_source"
      <4>1. CASE k = j
        BY <1>1, <1>3, <1>4, <4>1
      <4>2. CASE k # j
        BY <1>4, <4>2 DEF StorageInv, RowsInv, JobsInv, JobsFit
      <4> QED
        BY <4>1, <4>2
    <3> QED
      BY <1>2, <3>1 DEF JobsFit
  <2>3. ResultsExist'
    <3> SUFFICES ASSUME NEW k \in Jobs, job'[k].status = "succeeded", job'[k].kind = "export"
                 PROVE  asset[Artifact(k)].status \notin {"none", "pending"}
      BY <1>2, Zenon DEF ResultsExist, Artifact
    <3>1. job'[k] = job[k]
      BY <1>3, <1>4
    <3> QED
      BY <3>1, Zenon DEF StorageInv, RowsInv, JobsInv, ResultsExist
  <2>4. OneImport'
    BY <1>1, <1>3, <1>4 DEF StorageInv, RowsInv, JobsInv, OneImport
  <2> QED
    BY <2>1, <2>2, <2>3, <2>4 DEF JobsInv
<1>9. DeletedIsEmpty'
  BY <1>2 DEF DeletedIsEmpty
<1>10. Conserved'
  BY <1>2 DEF StorageInv, Conserved, Kept
<1> QED
  BY <1>5, <1>6, <1>8, <1>9, <1>10 DEF StorageInv, RowsInv

-----------------------------------------------------------------------------
(* The two transactions of a worker.                                       *)

(* A worker that runs has a running job of one of the two kinds, in a      *)
(* workspace that is not being purged; an import's board waits for it.     *)
LEMMA Running ==
  ASSUME StorageInv, NEW w \in Workers, worker[w] # None, Runs(w)
  PROVE  /\ worker[w] \in LeasedJob /\ worker[w].job \in Jobs
         /\ job[worker[w].job].status = "running" /\ lifecycle = "ready"
         /\ job[worker[w].job].kind \in {"import", "export"}
         /\ job[worker[w].job].kind = "import" => board = "initializing"
         /\ job[worker[w].job].attempts = worker[w].lease
<1>1. worker[w] \in LeasedJob /\ worker[w].job \in Jobs
  BY DEF StorageInv, RowsInv, Types, LeasedJob
<1>2. job[worker[w].job].status = "running" /\ job[worker[w].job].attempts = worker[w].lease
      /\ Permitted(worker[w].job)
  BY DEF Runs, Holds
<1>3. job[worker[w].job].kind # "none" /\ job[worker[w].job].kind \in {"none", "import", "export"}
  BY <1>1, <1>2 DEF StorageInv, RowsInv, Types, JobRow, JobsInv, JobsFit
<1>4. lifecycle = "ready" /\ (job[worker[w].job].kind = "import" => board = "initializing")
  BY <1>2, Zenon DEF Permitted, CanWrite, ContentReadable
<1>5. job[worker[w].job].kind \in {"import", "export"}
  BY <1>3, Zenon
<1> QED
  BY <1>1, <1>2, <1>4, <1>5, Zenon

(* A worker that goes on to its next step.                                 *)
LEMMA PreparedWorker ==
  ASSUME Types, NEW w \in Workers, worker[w] # None,
         worker' = [worker EXCEPT ![w].step = "prepared"]
  PROVE  WorkersFit(worker')
<1> DEFINE p == [worker[w] EXCEPT !.step = "prepared"]
<1>1. p \in LeasedJob
  BY DEF Types, LeasedJob
<1>2. worker' = [worker EXCEPT ![w] = p]
  OBVIOUS
<1> HIDE DEF p
<1>3. WorkersFit([worker EXCEPT ![w] = p])
  BY <1>1, WorkersStep
<1> QED
  BY <1>2, <1>3

(* What is prepared is reserved.                                           *)
LEMMA PrepareKeeps ==
  ASSUME StorageInv, NEW w \in Workers, Prepare(w)
  PROVE  StorageInv'
<1> USE DEF files, place
<1> DEFINE j == worker[w].job
           import == job[j].kind = "import"
           new == {a \in Manifest(j) : asset[a].status = "none"}
           bytes == IF import THEN Total(new) ELSE 0
           r == Fresh(Purpose(j), "pending")
<1>1. /\ worker[w] # None /\ Runs(w)
      /\ asset' = [a \in Assets |-> IF a \in new THEN r ELSE asset[a]]
      /\ reserved' = reserved + bytes
      /\ worker' = [worker EXCEPT ![w].step = "prepared"]
      /\ UNCHANGED <<objects, used, job, candidate, place>>
  BY Zenon DEF Prepare
<1>2. /\ j \in Jobs /\ lifecycle = "ready" /\ job[j].kind \in {"import", "export"}
  BY <1>1, Running
<1>3. /\ Manifest(j) \subseteq Assets \ Uploads
      /\ \A a \in Manifest(j) : \E p \in Parts : a = <<j, p>>
  BY <1>2, ManifestIsDerived
<1>4. /\ r \in AssetRow /\ r.status = "pending" /\ r.purpose = Purpose(j)
      /\ r.accounted = FALSE /\ r.expired = FALSE
  <2>1. Purpose(j) \in Purposes \cup {"export_artifact"} /\ "pending" \in Statuses
    BY DEF Purpose, Purposes, Statuses
  <2> QED
    BY <2>1, FreshRow
<1>5. Purpose(j) = IF import THEN "attachment" ELSE "export_artifact"
  BY DEF Purpose
<1>6. new \subseteq Manifest(j) /\ \A a \in new : asset[a].status = "none"
  OBVIOUS
<1>7. Types /\ asset \in [Assets -> AssetRow]
  BY DEF StorageInv, RowsInv, Types
<1> HIDE DEF new, r
<1>8. /\ asset' \in [Assets -> AssetRow] /\ \A a \in new : asset'[a] = r
      /\ \A a \in Assets : a \notin new => asset'[a] = asset[a]
  <2> HIDE DEF AssetRow
  <2> QED
    BY <1>1, <1>3, <1>4, <1>6, <1>7
<1>9. WorkersFit(worker')
  BY <1>1, <1>7, PreparedWorker
<1>10. Types'
  BY <1>1, <1>7, <1>8, <1>9 DEF Types, WorkersFit
<1>11. JobsInv'
  <2>1. DerivedFits'
    <3> SUFFICES ASSUME NEW k \in Jobs, NEW p \in Parts, asset'[<<k, p>>].status # "none"
                 PROVE  job[k].kind # "none" /\ asset'[<<k, p>>].purpose = Purpose(k)
      BY <1>1 DEF DerivedFits, Purpose
    <3>1. <<k, p>> \in Assets
      BY DerivedAssets
    <3>2. CASE <<k, p>> \in new
      <4>1. PICK q \in Parts : <<k, p>> = <<j, q>>
        BY <1>3, <1>6, <3>2
      <4>2. k = j
        BY <4>1
      <4> QED
        BY <1>2, <1>4, <1>8, <3>2, <4>2
    <3>3. CASE <<k, p>> \notin new
      BY <1>8, <3>1, <3>3 DEF StorageInv, RowsInv, JobsInv, DerivedFits
    <3> QED
      BY <3>2, <3>3
  <2>2. JobsFit'
    <3> SUFFICES ASSUME NEW k \in Jobs, job[k].source # None
                 PROVE  /\ asset'[job[k].source].status # "none"
                        /\ asset'[job[k].source].purpose = "import_source"
      BY <1>1 DEF StorageInv, RowsInv, JobsInv, JobsFit
    <3>1. job[k].source \in Assets
      BY <1>7 DEF Types, JobRow
    <3>2. asset[job[k].source].status # "none" /\ asset[job[k].source].purpose = "import_source"
      BY DEF StorageInv, RowsInv, JobsInv, JobsFit
    <3> QED
      BY <1>6, <1>8, <3>1, <3>2
  <2>3. ResultsExist'
    <3> SUFFICES ASSUME NEW k \in Jobs, job[k].status = "succeeded", job[k].kind = "export"
                 PROVE  asset'[Artifact(k)].status \notin {"none", "pending"}
      BY <1>1, Zenon DEF ResultsExist, Artifact
    <3>1. asset[Artifact(k)].status \notin {"none", "pending"}
      BY Zenon DEF StorageInv, RowsInv, JobsInv, ResultsExist
    <3> QED
      BY <1>6, <1>8, <3>1, ArtifactIsDerived
  <2>4. OneImport'
    BY <1>1 DEF StorageInv, RowsInv, JobsInv, OneImport
  <2> QED
    BY <2>1, <2>2, <2>3, <2>4 DEF JobsInv
<1>12. FilesInv'
  <2>1. PendingIsReserved'
    BY <1>4, <1>8 DEF StorageInv, RowsInv, FilesInv, PendingIsReserved
  <2>2. BytesStay'
    BY <1>1, <1>4, <1>8 DEF StorageInv, RowsInv, FilesInv, BytesStay
  <2>3. ReferencesStay'
    BY <1>1, <1>6, <1>7, <1>8 DEF StorageInv, RowsInv, FilesInv, Types, ReferencesStay
  <2>4. UploadsLeaveNothing'
    <3>1. \A a \in Uploads : a \in Assets /\ a \notin new
      BY <1>3, <1>6 DEF Assets
    <3> QED
      BY <1>1, <1>8, <3>1 DEF StorageInv, RowsInv, FilesInv, UploadsLeaveNothing
  <2> QED
    BY <2>1, <2>2, <2>3, <2>4 DEF FilesInv
<1>13. DeletedIsEmpty'
  BY <1>1, <1>2 DEF DeletedIsEmpty
<1>14. Conserved'
  <2>1. UsedBy(asset') = UsedBy(asset)
    BY <1>3, <1>4, <1>6, <1>8 DEF UsedBy, Uses
  <2>2. CASE import
    <3>1. ReservedBy(asset') = ReservedBy(asset) \cup new
      BY <1>3, <1>4, <1>5, <1>6, <1>8, <2>2 DEF ReservedBy, Reserves
    <3>2. new \in SUBSET (Assets \ ReservedBy(asset)) /\ ReservedBy(asset) \in SUBSET Assets
      BY <1>3, <1>6 DEF ReservedBy, Reserves
    <3>3. Total(ReservedBy(asset) \cup new) = Total(ReservedBy(asset)) + Total(new)
      BY <3>2, Totals
    <3>4. reserved' = reserved + Total(new)
      BY <1>1, <2>2
    <3> QED
      BY <1>1, <2>1, <3>1, <3>3, <3>4, ConservedRows DEF StorageInv
  <2>3. CASE ~ import
    <3>1. SameBytes(asset, asset')
      BY <1>3, <1>4, <1>5, <1>6, <1>8, <2>3 DEF SameBytes, Uses, Reserves
    <3>2. reserved' = reserved
      BY <1>1, <2>3, CountersAreNumbers DEF StorageInv
    <3> QED
      BY <1>1, <3>1, <3>2, SameBytesSameTotals DEF StorageInv
  <2> QED
    BY <2>2, <2>3
<1> QED
  BY <1>10, <1>11, <1>12, <1>13, <1>14 DEF StorageInv, RowsInv

(* What a worker writes and does not publish is written nowhere else.      *)
LEMMA PublishFailsKeeps ==
  ASSUME StorageInv, NEW w \in Workers, PublishFails(w)
  PROVE  StorageInv'
<1> DEFINE j == worker[w].job
<1>1. Types /\ worker[w] # None /\ objects \in [Assets -> SUBSET {"stage", "final"}]
      /\ \E code \in Refusals(w) : Stops(w, code)
      /\ UNCHANGED <<asset, used, reserved, job, candidate, place>>
  BY DEF StorageInv, RowsInv, Types, PublishFails
<1>2. WorkersFit(worker')
  BY <1>1, FailingWorker
<1>3. j \in Jobs
  BY <1>1 DEF Types, LeasedJob
<1>4. ObjectsGrow(objects, objects') /\ \A a \in Uploads : objects'[a] = objects[a]
  <2>1. CASE Runs(w)
    <3>1. PICK done \in SUBSET Manifest(j), last \in Manifest(j) :
            objects' = [a \in Assets |-> IF a \in done THEN Finalized(Stage(objects[a]))
                                         ELSE IF a = last THEN Stage(objects[a])
                                         ELSE objects[a]]
      BY <2>1, Zenon DEF PublishFails
    <3>2. Manifest(j) \subseteq Assets \ Uploads
      BY <1>3, ManifestIsDerived
    <3>3. \A a \in Assets :
            /\ Finalized(Stage(objects[a])) \in SUBSET {"stage", "final"}
            /\ Stage(objects[a]) \in SUBSET {"stage", "final"}
            /\ "final" \in objects[a] => /\ "final" \in Finalized(Stage(objects[a]))
                                         /\ "final" \in Stage(objects[a])
      BY <1>1 DEF Finalized, Stage, Put
    <3>4. \A a \in Uploads : a \in Assets /\ a \notin done /\ a # last
      BY <3>1, <3>2 DEF Assets
    <3> QED
      BY <1>1, <3>1, <3>3, <3>4 DEF ObjectsGrow
  <2>2. CASE ~ Runs(w)
    BY <1>1, <2>2 DEF PublishFails, ObjectsGrow, Assets
  <2> QED
    BY <2>1, <2>2
<1> QED
  BY <1>1, <1>2, <1>4, WritesKeep

(* A published transfer: the files of the job and, for an import, the      *)
(* document appear together, and the bytes that were reserved are used.    *)
LEMMA PublishKeeps ==
  ASSUME StorageInv, NEW w \in Workers, Publish(w)
  PROVE  StorageInv'
<1> USE DEF files, place
<1> DEFINE j == worker[w].job
           import == job[j].kind = "import"
           M == Manifest(j)
           bytes == IF import THEN Total(M) ELSE 0
           s == job[j].source
           r == Over(job[j], "succeeded")
<1>1. /\ worker[w] # None /\ Runs(w) /\ Waiting(j)
      /\ objects' = [a \in Assets |-> IF a \in M THEN Finalized(Stage(objects[a])) ELSE objects[a]]
      /\ asset' = [a \in Assets |->
           IF a \in M THEN Counted(asset[a], import)
           ELSE IF a = s THEN As(asset[a], "deleting") ELSE asset[a]]
      /\ reserved' = reserved - bytes /\ used' = used + bytes
      /\ job' = [job EXCEPT ![j] = r]
      /\ worker' = [worker EXCEPT ![w] = None]
      /\ IF import THEN board' = "active" /\ refs' = Derived(j, Parts) ELSE UNCHANGED <<board, refs>>
      /\ UNCHANGED <<candidate, access, lifecycle>>
  BY Zenon DEF Publish, Counted, As
<1>2. /\ j \in Jobs /\ lifecycle = "ready" /\ job[j].kind \in {"import", "export"}
      /\ job[j].status = "running" /\ (import => board = "initializing")
  BY <1>1, Running
<1>3. /\ M \subseteq Assets \ Uploads /\ \A a \in M : \E p \in Parts : a = <<j, p>>
      /\ ~ import => M = {Artifact(j)}
  BY <1>2, ManifestIsDerived
<1>4. Types /\ asset \in [Assets -> AssetRow] /\ job[j] \in JobRow /\ job \in [Jobs -> JobRow]
      /\ objects \in [Assets -> SUBSET {"stage", "final"}]
  BY <1>2 DEF StorageInv, RowsInv, Types
<1>5. \A a \in M : /\ asset[a].status = "pending" /\ ~ asset[a].expired
                   /\ asset[a].accounted = FALSE /\ asset[a].purpose = Purpose(j)
  <2> TAKE a \in M
  <2>1. asset[a].status = "pending" /\ ~ asset[a].expired
    BY <1>1 DEF Waiting, Unexpired
  <2>2. a \in Assets
    BY <1>3
  <2>3. asset[a].accounted = FALSE
    BY <2>1, <2>2 DEF StorageInv, RowsInv, FilesInv, PendingIsReserved
  <2>4. asset[a].purpose = Purpose(j)
    BY <1>2, <1>3, <2>1 DEF StorageInv, RowsInv, JobsInv, DerivedFits
  <2> QED
    BY <2>1, <2>3, <2>4
<1>6. Purpose(j) = IF import THEN "attachment" ELSE "export_artifact"
  BY DEF Purpose
<1>7. s \in Assets => s \notin M /\ asset[s].purpose = "import_source" /\ asset[s].status # "none"
  <2>1. s # None => asset[s].status # "none" /\ asset[s].purpose = "import_source"
    BY <1>2 DEF StorageInv, RowsInv, JobsInv, JobsFit
  <2>2. None \notin Assets
    BY StorageAssumption DEF StorageAssumption
  <2> QED
    BY <1>5, <1>6, <2>1, <2>2
<1>8. s \in Assets => import /\ asset[s].status = "available"
  <2>1. s \in Assets => import
    BY <1>2, StorageAssumption DEF StorageInv, RowsInv, JobsInv, JobsFit, StorageAssumption
  <2>2. import => asset[s].status = "available"
    BY <1>1 DEF Runs, Planned, ImportPlanned
  <2> QED
    BY <2>1, <2>2
<1>9. /\ \A a \in M : /\ Counted(asset[a], import) \in AssetRow
                      /\ Counted(asset[a], import).status = "available"
                      /\ Counted(asset[a], import).purpose = asset[a].purpose
                      /\ Counted(asset[a], import).accounted = import
      /\ s \in Assets => /\ As(asset[s], "deleting") \in AssetRow
                         /\ As(asset[s], "deleting").status = "deleting"
                         /\ As(asset[s], "deleting").purpose = asset[s].purpose
                         /\ As(asset[s], "deleting").accounted = asset[s].accounted
  <2>1. import \in BOOLEAN
    OBVIOUS
  <2>2. \A a \in Assets : asset[a] \in AssetRow
    BY <1>4
  <2>3. \A x \in AssetRow, b \in BOOLEAN :
          /\ Counted(x, b) \in AssetRow /\ Counted(x, b).status = "available"
          /\ Counted(x, b).purpose = x.purpose /\ Counted(x, b).accounted = b
    BY CountedRow
  <2>4. \A x \in AssetRow :
          /\ As(x, "deleting") \in AssetRow /\ As(x, "deleting").status = "deleting"
          /\ As(x, "deleting").purpose = x.purpose
          /\ As(x, "deleting").accounted = x.accounted
    BY DeletingRow
  <2> HIDE DEF import, s
  <2> QED
    BY <1>3, <2>1, <2>2, <2>3, <2>4
<1>10. /\ r \in JobRow /\ r.kind = job[j].kind /\ r.source = s /\ r.status = "succeeded"
  BY <1>4, OverSucceeds
<1> HIDE DEF M, r
<1>11. /\ asset' \in [Assets -> AssetRow] /\ \A a \in M : asset'[a] = Counted(asset[a], import)
       /\ s \in Assets => asset'[s] = As(asset[s], "deleting")
       /\ \A a \in Assets : a \notin M /\ a # s => asset'[a] = asset[a]
  <2> HIDE DEF AssetRow, s
  <2> QED
    BY <1>1, <1>3, <1>4, <1>7, <1>9
<1>12. job' \in [Jobs -> JobRow] /\ job'[j] = r /\ \A k \in Jobs : k # j => job'[k] = job[k]
  <2> HIDE DEF JobRow, j
  <2> QED
    BY <1>1, <1>2, <1>4, <1>10
<1>13. /\ ObjectsGrow(objects, objects') /\ \A a \in Assets : a \notin M => objects'[a] = objects[a]
       /\ \A a \in M : "final" \in objects'[a]
  <2>1. \A a \in Assets : /\ Finalized(Stage(objects[a])) \in SUBSET {"stage", "final"}
                          /\ "final" \in Finalized(Stage(objects[a]))
    BY <1>4 DEF Finalized, Stage, Put
  <2> QED
    BY <1>1, <1>3, <1>4, <2>1 DEF ObjectsGrow
<1>14. WorkersFit(worker')
  BY <1>1, <1>4, WorkersStep
<1> HIDE DEF s
<1>15. /\ refs' \subseteq Assets /\ board' \in {"initializing", "active", "deleting"}
       /\ board' = "deleting" <=> board = "deleting"
       /\ import => refs' \subseteq M
  <2>1. import => refs' = {j} \X Parts /\ \A p \in Parts : <<j, p>> \in M
    BY <1>1, <1>2, ManifestIsDerived DEF Derived, M
  <2>2. import => refs' \subseteq M
    BY <2>1
  <2> QED
    BY <1>1, <1>2, <1>3, <1>4, <2>2 DEF Types
<1>16. Types'
  BY <1>1, <1>4, <1>11, <1>12, <1>13, <1>14, <1>15 DEF Types, ObjectsGrow, WorkersFit
<1>17. AssetsGo(asset, asset')
  <2>1. \A a \in M : RowGoes(a, asset[a], asset'[a])
    BY <1>5, <1>9, <1>11 DEF RowGoes
  <2>2. s \in Assets => RowGoes(s, asset[s], asset'[s])
    BY <1>8, <1>9, <1>11 DEF RowGoes
  <2>3. \A a \in Assets : a \notin M /\ a # s => RowGoes(a, asset[a], asset'[a])
    BY <1>11 DEF RowGoes
  <2> QED
    BY <1>11, <2>1, <2>2, <2>3 DEF AssetsGo
<1>18. JobsInv'
  <2>1. DerivedFits'
    <3> SUFFICES ASSUME NEW k \in Jobs, NEW p \in Parts, asset'[<<k, p>>].status # "none"
                 PROVE  job'[k].kind # "none" /\ asset'[<<k, p>>].purpose = Purpose(k)'
      BY DEF DerivedFits
    <3>1. <<k, p>> \in Assets /\ <<k, p>> \notin Uploads
      BY DerivedAssets
    <3>2. /\ asset[<<k, p>>].status # "none"
          /\ asset'[<<k, p>>].purpose = asset[<<k, p>>].purpose
      BY <1>17, <3>1 DEF AssetsGo, RowGoes
    <3>3. job'[k].kind = job[k].kind
      BY <1>10, <1>12
    <3> QED
      BY <3>2, <3>3 DEF StorageInv, RowsInv, JobsInv, DerivedFits, Purpose
  <2>2. JobsFit'
    <3> SUFFICES ASSUME NEW k \in Jobs
                 PROVE  /\ (job'[k].status = "none") <=> (job'[k].kind = "none")
                        /\ (job'[k].kind = "import") <=> (job'[k].source # None)
                        /\ job'[k].source # None =>
                             /\ asset'[job'[k].source].status # "none"
                             /\ asset'[job'[k].source].purpose = "import_source"
      BY DEF JobsFit
    <3>1. /\ job'[k].kind = job[k].kind /\ job'[k].source = job[k].source
          /\ (job'[k].status = "none") <=> (job[k].status = "none")
      BY <1>2, <1>10, <1>12 DEF s
    <3>2. job[k].source \in Assets \cup {None}
      BY <1>4 DEF JobRow
    <3>3. job[k].source # None =>
            /\ asset[job[k].source].status # "none"
            /\ asset[job[k].source].purpose = "import_source"
      BY DEF StorageInv, RowsInv, JobsInv, JobsFit
    <3>4. job[k].source # None =>
            /\ asset'[job[k].source].status # "none"
            /\ asset'[job[k].source].purpose = "import_source"
      BY <1>17, <3>2, <3>3 DEF AssetsGo, RowGoes
    <3> QED
      BY <3>1, <3>4 DEF StorageInv, RowsInv, JobsInv, JobsFit
  <2>3. ResultsExist'
    <3> SUFFICES ASSUME NEW k \in Jobs, job'[k].status = "succeeded", job'[k].kind = "export"
                 PROVE  asset'[Artifact(k)].status \notin {"none", "pending"}
      BY Zenon DEF ResultsExist, Artifact
    <3>1. CASE k = j
      <4>1. ~ import
        BY <1>10, <1>12, <3>1
      <4>2. Artifact(j) \in M
        BY <1>3, <4>1
      <4> QED
        BY <1>9, <1>11, <3>1, <4>2
    <3>2. CASE k # j
      <4>1. asset[Artifact(k)].status \notin {"none", "pending"}
        <5>1. job'[k] = job[k]
          BY <1>12, <3>2
        <5> QED
          BY <5>1, Zenon DEF StorageInv, RowsInv, JobsInv, ResultsExist
      <4> QED
        BY <1>17, <4>1, ArtifactIsDerived DEF AssetsGo, RowGoes
    <3> QED
      BY <3>1, <3>2
  <2>4. OneImport'
    <3> SUFFICES ASSUME NEW i \in Jobs, NEW k \in Jobs,
                        job'[i].kind = "import", job'[i].status # "failed",
                        job'[k].kind = "import", job'[k].status # "failed"
                 PROVE  i = k
      BY DEF OneImport
    <3>1. \A x \in Jobs : /\ job'[x].kind = job[x].kind
                          /\ job[x].status = "failed" => job'[x].status = "failed"
      BY <1>2, <1>10, <1>12
    <3> QED
      BY <3>1 DEF StorageInv, RowsInv, JobsInv, OneImport
  <2> QED
    BY <2>1, <2>2, <2>3, <2>4 DEF JobsInv
<1>19. FilesInv'
  <2>1. PendingIsReserved'
    <3> SUFFICES ASSUME NEW a \in Assets, asset'[a].status = "pending"
                 PROVE  asset'[a].accounted = FALSE
      BY DEF PendingIsReserved
    <3>1. asset'[a] = asset[a]
      BY <1>9, <1>11
    <3> QED
      BY <3>1 DEF StorageInv, RowsInv, FilesInv, PendingIsReserved
  <2>2. BytesStay'
    <3> SUFFICES ASSUME board # "deleting", NEW a \in Assets, asset'[a].status = "available",
                        asset'[a].purpose = "attachment" \/ ~ asset'[a].expired
                 PROVE  "final" \in objects'[a]
      BY <1>15 DEF BytesStay
    <3>1. CASE a \in M
      BY <1>13, <3>1
    <3>2. CASE a \notin M
      <4>1. asset'[a] = asset[a]
        BY <1>9, <1>11, <3>2
      <4> QED
        BY <1>13, <4>1 DEF StorageInv, RowsInv, FilesInv, BytesStay, ObjectsGrow
    <3> QED
      BY <3>1, <3>2
  <2>3. ReferencesStay'
    <3>1. CASE import
      <4>1. \A a \in M : asset'[a].status = "available" /\ asset'[a].purpose = "attachment"
        BY <1>5, <1>6, <1>9, <1>11, <3>1
      <4> QED
        BY <1>15, <3>1, <4>1 DEF ReferencesStay
    <3>2. CASE ~ import
      <4>1. \A a \in refs : a \in Assets
        BY <1>4 DEF Types
      <4>2. ASSUME NEW a \in refs, asset[a].status = "available", asset[a].purpose = "attachment"
            PROVE  asset'[a] = asset[a]
        BY <1>5, <1>7, <1>11, <4>1, <4>2
      <4> QED
        BY <1>1, <3>2, <4>2 DEF StorageInv, RowsInv, FilesInv, ReferencesStay
    <3> QED
      BY <3>1, <3>2
  <2>4. UploadsLeaveNothing'
    <3> SUFFICES ASSUME NEW a \in Uploads, asset'[a].status \in {"none", "deleted"}
                 PROVE  objects'[a] = {}
      BY DEF UploadsLeaveNothing
    <3>1. a \in Assets /\ a \notin M
      BY <1>3 DEF Assets
    <3>2. asset'[a] = asset[a] /\ objects'[a] = objects[a]
      BY <1>9, <1>11, <1>13, <3>1
    <3> QED
      BY <3>2 DEF StorageInv, RowsInv, FilesInv, UploadsLeaveNothing
  <2> QED
    BY <2>1, <2>2, <2>3, <2>4 DEF FilesInv
<1>20. DeletedIsEmpty'
  BY <1>1, <1>2 DEF DeletedIsEmpty
<1>21. Conserved'
  <2>1. \A a \in Assets : a \notin M =>
          (Uses(asset'[a]) <=> Uses(asset[a])) /\ (Reserves(asset'[a]) <=> Reserves(asset[a]))
    <3> SUFFICES ASSUME NEW a \in Assets, a \notin M
                 PROVE  /\ Uses(asset'[a]) <=> Uses(asset[a])
                        /\ Reserves(asset'[a]) <=> Reserves(asset[a])
      OBVIOUS
    <3>1. CASE a = s
      BY <1>8, <1>9, <1>11, <3>1 DEF Uses, Reserves
    <3>2. CASE a # s
      BY <1>11, <3>2
    <3> QED
      BY <3>1, <3>2
  <2>2. CASE import
    <3>1. \A a \in M : ~ Uses(asset[a]) /\ Reserves(asset[a]) /\ Uses(asset'[a]) /\ ~ Reserves(asset'[a])
      BY <1>5, <1>6, <1>9, <1>11, <2>2 DEF Uses, Reserves
    <3>2. UsedBy(asset') = UsedBy(asset) \cup M /\ M \in SUBSET (Assets \ UsedBy(asset))
      BY <1>3, <2>1, <3>1 DEF UsedBy
    <3>3. ReservedBy(asset') = ReservedBy(asset) \ M /\ M \in SUBSET ReservedBy(asset)
      BY <1>3, <2>1, <3>1 DEF ReservedBy
    <3>4. UsedBy(asset) \in SUBSET Assets /\ ReservedBy(asset) \in SUBSET Assets
      BY DEF UsedBy, ReservedBy
    <3>5. /\ Total(UsedBy(asset) \cup M) = Total(UsedBy(asset)) + Total(M)
          /\ Total(ReservedBy(asset) \ M) = Total(ReservedBy(asset)) - Total(M)
      BY <3>2, <3>3, <3>4, Totals
    <3>6. reserved' = reserved - Total(M) /\ used' = used + Total(M)
      BY <1>1, <2>2
    <3> QED
      BY <3>2, <3>3, <3>5, <3>6, ConservedRows DEF StorageInv
  <2>3. CASE ~ import
    <3>1. \A a \in M : /\ (Uses(asset'[a]) <=> Uses(asset[a]))
                       /\ (Reserves(asset'[a]) <=> Reserves(asset[a]))
      BY <1>5, <1>6, <1>9, <1>11, <2>3 DEF Uses, Reserves
    <3>2. SameBytes(asset, asset')
      BY <2>1, <3>1 DEF SameBytes
    <3>3. reserved' = reserved - 0 /\ used' = used + 0
      BY <1>1, <2>3
    <3>4. UNCHANGED <<used, reserved>>
      BY <3>3, CountersAreNumbers DEF StorageInv
    <3> QED
      BY <3>2, <3>4, SameBytesSameTotals DEF StorageInv
  <2> QED
    BY <2>2, <2>3
<1> QED
  BY <1>16, <1>18, <1>19, <1>20, <1>21 DEF StorageInv, RowsInv

-----------------------------------------------------------------------------
(* The cleanup, time, the board and the purge.                             *)

(* What may be removed has a row that is kept, and is not served.          *)
LEMMA RemovableRows ==
  ASSUME Types, NEW a \in Assets, Removable(a)
  PROVE  /\ asset[a].status \notin {"none", "deleted"}
         /\ board # "deleting" =>
              \/ asset[a].status # "available"
              \/ asset[a].expired /\ asset[a].purpose \in {"import_source", "export_artifact"}
<1>1. asset[a].status \in Statuses
  BY DEF Types, AssetRow
<1> QED
  BY <1>1, Zenon DEF Removable

(* A removal takes the objects, the row and the bytes together.            *)
LEMMA CleanKeeps ==
  ASSUME StorageInv, Clean
  PROVE  StorageInv'
<1> USE DEF files, place
<1> DEFINE a == candidate
           r == Fresh(asset[a].purpose, "deleted")
           gone == asset[a].accounted \/ asset[a].purpose = "export_artifact"
<1>1. /\ a # None /\ Removable(a) /\ candidate' = None
      /\ objects' = [objects EXCEPT ![a] = {}]
      /\ asset' = [asset EXCEPT ![a] = r]
      /\ used' = used - (IF asset[a].accounted THEN Size[a] ELSE 0)
      /\ reserved' = reserved - (IF gone THEN 0 ELSE Size[a])
      /\ UNCHANGED <<job, worker, place>>
  BY Zenon DEF Clean
<1>2. /\ Types /\ a \in Assets /\ asset \in [Assets -> AssetRow]
      /\ asset[a].purpose \in Purposes \cup {"export_artifact"}
      /\ asset[a].accounted \in BOOLEAN
      /\ objects \in [Assets -> SUBSET {"stage", "final"}]
  BY <1>1 DEF StorageInv, RowsInv, Types, AssetRow
<1>3. /\ asset[a].status \notin {"none", "deleted"}
      /\ board # "deleting" => \/ asset[a].status # "available"
                               \/ asset[a].purpose # "attachment"
  BY <1>1, <1>2, RemovableRows
<1>4. /\ r \in AssetRow /\ r.status = "deleted" /\ r.purpose = asset[a].purpose
      /\ r.accounted = FALSE
  <2>1. "deleted" \in Statuses
    BY DEF Statuses
  <2> QED
    BY <1>2, <2>1, FreshRow
<1> HIDE DEF a, r
<1>5. asset' \in [Assets -> AssetRow] /\ asset'[a] = r /\ \A b \in Assets : b # a => asset'[b] = asset[b]
  <2> HIDE DEF AssetRow
  <2> QED
    BY <1>1, <1>2, <1>4
<1>6. /\ objects' \in [Assets -> SUBSET {"stage", "final"}] /\ objects'[a] = {}
      /\ \A b \in Assets : b # a => objects'[b] = objects[b]
  BY <1>1, <1>2
<1>7. Types'
  BY <1>1, <1>2, <1>5, <1>6 DEF Types
<1>8. AssetsGo(asset, asset')
  <2>1. \A b \in Assets : RowGoes(b, asset[b], asset'[b])
    BY <1>3, <1>4, <1>5 DEF RowGoes
  <2> QED
    BY <1>5, <2>1 DEF AssetsGo
<1>9. JobsInv'
  BY <1>1, <1>2, <1>8, JobsInvKept, Unmoved DEF StorageInv, RowsInv
<1>10. FilesInv'
  <2>1. PendingIsReserved'
    BY <1>4, <1>5 DEF StorageInv, RowsInv, FilesInv, PendingIsReserved
  <2>2. BytesStay'
    BY <1>1, <1>4, <1>5, <1>6 DEF StorageInv, RowsInv, FilesInv, BytesStay
  <2>3. ReferencesStay'
    BY <1>1, <1>2, <1>3, <1>5 DEF StorageInv, RowsInv, FilesInv, Types, ReferencesStay
  <2>4. UploadsLeaveNothing'
    BY <1>5, <1>6 DEF StorageInv, RowsInv, FilesInv, UploadsLeaveNothing, Assets
  <2> QED
    BY <2>1, <2>2, <2>3, <2>4 DEF FilesInv
<1>11. DeletedIsEmpty'
  <2>1. Kept' \subseteq Kept /\ Active' = Active
    BY <1>1, <1>3, <1>5, Zenon DEF Kept, Active
  <2> QED
    BY <1>1, <2>1 DEF StorageInv, RowsInv, DeletedIsEmpty
<1>12. Conserved'
  <2>1. \A b \in Assets : b # a => /\ Uses(asset'[b]) <=> Uses(asset[b])
                                   /\ Reserves(asset'[b]) <=> Reserves(asset[b])
    BY <1>5
  <2>2. ~ Uses(asset'[a]) /\ ~ Reserves(asset'[a])
    BY <1>4, <1>5 DEF Uses, Reserves
  <2>3. (Uses(asset[a]) <=> asset[a].accounted) /\ (Reserves(asset[a]) <=> ~ gone)
    BY <1>3 DEF Uses, Reserves
  <2>4. UsedBy(asset) \in SUBSET Assets /\ ReservedBy(asset) \in SUBSET Assets
    BY DEF UsedBy, ReservedBy
  <2>5. used \in Nat /\ reserved \in Nat
    BY CountersAreNumbers DEF StorageInv
  <2>6. used' = Total(UsedBy(asset'))
    <3>1. CASE asset[a].accounted
      <4>1. UsedBy(asset') = UsedBy(asset) \ {a} /\ a \in UsedBy(asset)
        BY <1>2, <2>1, <2>2, <2>3, <3>1 DEF UsedBy
      <4>2. Total(UsedBy(asset) \ {a}) = Total(UsedBy(asset)) - Size[a]
        BY <2>4, <4>1, Totals
      <4> QED
        BY <1>1, <3>1, <4>1, <4>2, ConservedRows DEF StorageInv
    <3>2. CASE ~ asset[a].accounted
      <4>1. UsedBy(asset') = UsedBy(asset)
        BY <2>1, <2>2, <2>3, <3>2 DEF UsedBy
      <4> QED
        BY <1>1, <2>5, <3>2, <4>1, ConservedRows DEF StorageInv
    <3> QED
      BY <3>1, <3>2
  <2>7. reserved' = Total(ReservedBy(asset'))
    <3>1. CASE ~ gone
      <4>1. ReservedBy(asset') = ReservedBy(asset) \ {a} /\ a \in ReservedBy(asset)
        BY <1>2, <2>1, <2>2, <2>3, <3>1 DEF ReservedBy
      <4>2. Total(ReservedBy(asset) \ {a}) = Total(ReservedBy(asset)) - Size[a]
        BY <2>4, <4>1, Totals
      <4>3. reserved' = reserved - Size[a]
        BY <1>1, <3>1
      <4> QED
        BY <4>1, <4>2, <4>3, ConservedRows DEF StorageInv
    <3>2. CASE gone
      <4>1. ReservedBy(asset') = ReservedBy(asset)
        BY <2>1, <2>2, <2>3, <3>2 DEF ReservedBy
      <4>2. reserved' = reserved - 0
        BY <1>1, <3>2
      <4> QED
        BY <2>5, <4>1, <4>2, ConservedRows DEF StorageInv
    <3> QED
      BY <3>1, <3>2
  <2> QED
    BY <2>6, <2>7, ConservedRows
<1> QED
  BY <1>7, <1>9, <1>10, <1>11, <1>12 DEF StorageInv, RowsInv

(* A removal that fails has taken objects that nobody is served any more.  *)
LEMMA CleanFailsKeeps ==
  ASSUME StorageInv, CleanFails
  PROVE  StorageInv'
<1> USE DEF place
<1> DEFINE a == candidate
<1>1. /\ a # None /\ Removable(a) /\ candidate' = None
      /\ \E o \in RemovedSome(objects[a]) : objects' = [objects EXCEPT ![a] = o]
      /\ UNCHANGED <<asset, used, reserved, job, worker, place>>
  BY Zenon DEF CleanFails
<1>2. /\ Types /\ a \in Assets /\ objects \in [Assets -> SUBSET {"stage", "final"}]
  BY <1>1 DEF StorageInv, RowsInv, Types
<1>3. /\ asset[a].status \notin {"none", "deleted"}
      /\ board # "deleting" => \/ asset[a].status # "available"
                               \/ asset[a].expired /\ asset[a].purpose # "attachment"
  BY <1>1, <1>2, RemovableRows
<1> HIDE DEF a
<1>4. /\ objects' \in [Assets -> SUBSET {"stage", "final"}]
      /\ \A b \in Assets : b # a => objects'[b] = objects[b]
  BY <1>1, <1>2 DEF RemovedSome
<1>5. Types'
  BY <1>1, <1>2, <1>4 DEF Types
<1>6. JobsInv'
  BY <1>1, <1>2, JobsInvKept, Unmoved DEF StorageInv, RowsInv
<1>7. FilesInv'
  <2>1. BytesStay'
    BY <1>1, <1>3, <1>4 DEF StorageInv, RowsInv, FilesInv, BytesStay
  <2>2. UploadsLeaveNothing'
    BY <1>1, <1>3, <1>4 DEF StorageInv, RowsInv, FilesInv, UploadsLeaveNothing, Assets
  <2> QED
    BY <1>1, <2>1, <2>2 DEF StorageInv, RowsInv, FilesInv, PendingIsReserved, ReferencesStay
<1>8. DeletedIsEmpty' /\ Conserved'
  BY <1>1 DEF StorageInv, RowsInv, DeletedIsEmpty, Conserved, Kept, Active
<1> QED
  BY <1>5, <1>6, <1>7, <1>8 DEF StorageInv, RowsInv

(* A deadline that is over.                                                *)
LEMMA ExpiresKeeps ==
  ASSUME StorageInv, NEW a \in Assets, Expires(a)
  PROVE  StorageInv'
<1> USE DEF files, place
<1> DEFINE r == Aged(asset[a])
<1>1. /\ asset' = [asset EXCEPT ![a] = r]
      /\ UNCHANGED <<objects, used, reserved, job, worker, candidate, place>>
  BY Zenon DEF Expires, Aged
<1>2. Types /\ asset \in [Assets -> AssetRow] /\ asset[a] \in AssetRow
  BY DEF StorageInv, RowsInv, Types
<1>3. /\ r \in AssetRow /\ r.status = asset[a].status /\ r.purpose = asset[a].purpose
      /\ r.accounted = asset[a].accounted /\ r.expired = TRUE
  BY <1>2, AgedRow
<1> HIDE DEF r
<1>4. asset' \in [Assets -> AssetRow] /\ asset'[a] = r /\ \A b \in Assets : b # a => asset'[b] = asset[b]
  <2> HIDE DEF AssetRow
  <2> QED
    BY <1>1, <1>2, <1>3
<1>5. \A b \in Assets : /\ asset'[b].status = asset[b].status /\ asset'[b].purpose = asset[b].purpose
                        /\ asset'[b].accounted = asset[b].accounted
                        /\ asset[b].expired => asset'[b].expired
  BY <1>3, <1>4
<1>6. Types'
  BY <1>1, <1>2, <1>4 DEF Types
<1>7. AssetsGo(asset, asset')
  BY <1>4, <1>5 DEF AssetsGo, RowGoes
<1>8. JobsInv'
  BY <1>1, <1>2, <1>7, JobsInvKept, Unmoved DEF StorageInv, RowsInv
<1>9. FilesInv'
  <2>1. PendingIsReserved' /\ BytesStay'
    BY <1>1, <1>5 DEF StorageInv, RowsInv, FilesInv, PendingIsReserved, BytesStay
  <2>2. ReferencesStay' /\ UploadsLeaveNothing'
    BY <1>1, <1>2, <1>5 DEF StorageInv, RowsInv, FilesInv, Types, ReferencesStay,
       UploadsLeaveNothing, Assets
  <2> QED
    BY <2>1, <2>2 DEF FilesInv
<1>10. DeletedIsEmpty'
  <2>1. Kept' = Kept /\ Active' = Active
    BY <1>1, <1>5 DEF Kept, Active
  <2> QED
    BY <1>1, <2>1 DEF StorageInv, RowsInv, DeletedIsEmpty
<1>11. Conserved'
  <2>1. SameBytes(asset, asset')
    BY <1>5 DEF SameBytes, Uses, Reserves
  <2> QED
    BY <1>1, <2>1, SameBytesSameTotals DEF StorageInv
<1> QED
  BY <1>6, <1>8, <1>9, <1>10, <1>11 DEF StorageInv, RowsInv

(* A saved change, the deletion of the board and the start of the purge.   *)
LEMMA PlaceKeeps ==
  ASSUME StorageInv, Edit \/ DeleteBoard \/ PurgeStarts
  PROVE  StorageInv'
<1> USE DEF files, place
<1>1. /\ UNCHANGED <<files, job, worker, candidate>> /\ board' \in {board, "deleting"}
      /\ lifecycle' \in {lifecycle, "purging"} /\ lifecycle = "ready"
      /\ \/ refs' = refs
         \/ \A a \in refs' : /\ a \in Assets /\ asset[a].status = "available"
                             /\ asset[a].purpose = "attachment"
  BY DEF Edit, DeleteBoard, PurgeStarts, CanWrite, ContentReadable, Is
<1>2. Types'
  BY <1>1 DEF StorageInv, RowsInv, Types
<1>3. JobsInv'
  BY <1>1, JobsInvKept, Unmoved DEF StorageInv, RowsInv
<1>4. FilesInv'
  BY <1>1 DEF StorageInv, RowsInv, FilesInv, PendingIsReserved, BytesStay, ReferencesStay,
     UploadsLeaveNothing
<1>5. DeletedIsEmpty' /\ Conserved'
  BY <1>1 DEF StorageInv, DeletedIsEmpty, Conserved, Kept
<1> QED
  BY <1>2, <1>3, <1>4, <1>5 DEF StorageInv, RowsInv

(* One part of the purge.                                                  *)
LEMMA PurgeKeeps ==
  ASSUME StorageInv, PurgeStep
  PROVE  StorageInv' /\ (lifecycle' = "deleted" => Kept' = {})
<1> USE DEF files, place
<1>1. /\ lifecycle = "purging"
      /\ asset' = [a \in Assets |->
           IF asset[a].status \in {"pending", "available"} THEN As(asset[a], "deleting")
           ELSE asset[a]]
      /\ job' = [j \in Jobs |-> Doomed(job[j])]
      /\ board' \in {board, "deleting"} /\ lifecycle' \in {lifecycle, "deleted"}
      /\ lifecycle' = "deleted" => \A a \in Assets : asset[a].status \in {"none", "deleted"}
      /\ UNCHANGED <<objects, used, reserved, worker, candidate, refs, access>>
  BY DEF PurgeStep, As
<1>2. Types /\ asset \in [Assets -> AssetRow] /\ job \in [Jobs -> JobRow]
  BY DEF StorageInv, RowsInv, Types
<1>3. \A a \in Assets : /\ As(asset[a], "deleting") \in AssetRow
                        /\ As(asset[a], "deleting").status = "deleting"
                        /\ As(asset[a], "deleting").purpose = asset[a].purpose
                        /\ As(asset[a], "deleting").accounted = asset[a].accounted
  <2> TAKE a \in Assets
  <2>1. asset[a] \in AssetRow
    BY <1>2
  <2> QED
    BY <2>1, DeletingRow
<1>4. /\ asset' \in [Assets -> AssetRow]
      /\ \A a \in Assets : \/ asset'[a] = asset[a]
                           \/ /\ asset[a].status \in {"pending", "available"}
                              /\ asset'[a] = As(asset[a], "deleting")
      /\ \A a \in Assets : asset'[a].status \notin {"pending", "available"}
  <2> HIDE DEF AssetRow
  <2> QED
    BY <1>1, <1>2, <1>3
<1>5. \A j \in Jobs : Moves(job[j], Doomed(job[j])) /\ Doomed(job[j]).status \notin {"queued", "running"}
  <2> TAKE j \in Jobs
  <2>1. job[j] \in JobRow /\ TRUE \in BOOLEAN
    BY <1>2
  <2> QED
    BY <2>1, JobMoves
<1>6. JobsGo(job, job') /\ Active' = {}
  BY <1>1, <1>5 DEF JobsGo, Moves, Active
<1>7. Types'
  BY <1>1, <1>2, <1>4, <1>6 DEF Types, JobsGo
<1>8. AssetsGo(asset, asset')
  <2>1. \A a \in Assets : RowGoes(a, asset[a], asset'[a])
    BY <1>3, <1>4 DEF RowGoes
  <2> QED
    BY <1>4, <2>1 DEF AssetsGo
<1>9. JobsInv'
  BY <1>2, <1>6, <1>8, JobsInvKept DEF StorageInv, RowsInv
<1>10. FilesInv'
  <2>1. PendingIsReserved' /\ BytesStay'
    BY <1>4 DEF PendingIsReserved, BytesStay
  <2>2. ReferencesStay'
    BY <1>1 DEF ReferencesStay
  <2>3. UploadsLeaveNothing'
    <3> SUFFICES ASSUME NEW a \in Uploads, asset'[a].status \in {"none", "deleted"}
                 PROVE  objects[a] = {}
      BY <1>1 DEF UploadsLeaveNothing
    <3>1. a \in Assets
      BY DEF Assets
    <3>2. asset'[a] = asset[a]
      BY <1>3, <1>4, <3>1
    <3> QED
      BY <3>2 DEF StorageInv, RowsInv, FilesInv, UploadsLeaveNothing
  <2> QED
    BY <2>1, <2>2, <2>3 DEF FilesInv
<1>11. lifecycle' = "deleted" => Kept' = {}
  BY <1>1, <1>4 DEF Kept
<1>12. DeletedIsEmpty'
  BY <1>6, <1>11 DEF DeletedIsEmpty
<1>13. Conserved'
  <2>1. SameBytes(asset, asset')
    BY <1>3, <1>4 DEF SameBytes, Uses, Reserves
  <2> QED
    BY <1>1, <2>1, SameBytesSameTotals DEF StorageInv
<1> QED
  BY <1>7, <1>9, <1>10, <1>11, <1>12, <1>13 DEF StorageInv, RowsInv

-----------------------------------------------------------------------------
(* The theorems.                                                           *)

(* The first state.                                                        *)
LEMMA StorageInvInit == Init => StorageInv
<1> SUFFICES ASSUME Init PROVE StorageInv
  OBVIOUS
<1> DEFINE row == Fresh("attachment", "none")
           e == Enqueued("none", None, {})
           r == [e EXCEPT !.status = "none"]
<1>1. row \in AssetRow /\ row.status = "none"
  <2>1. "attachment" \in Purposes /\ "none" \in Statuses
    BY DEF Purposes, Statuses
  <2> QED
    BY <2>1, FreshRow
<1>2. e \in JobRow /\ e.kind = "none" /\ e.source = None
  BY DEF Enqueued, JobRow, JobStatuses
<1> HIDE DEF e
<1>3. r \in JobRow /\ r.status = "none" /\ r.kind = "none" /\ r.source = None
  <2>1. "none" \in JobStatuses /\ TRUE \in BOOLEAN /\ 0 \in Nat
    BY DEF JobStatuses
  <2> QED
    BY <1>2, <2>1, JobFields
<1>4. /\ asset = [a \in Assets |-> row] /\ job = [j \in Jobs |-> r]
  BY DEF Init, e
<1> HIDE DEF row, r
<1>5. /\ asset \in [Assets -> AssetRow] /\ \A a \in Assets : asset[a].status = "none"
      /\ job \in [Jobs -> JobRow]
      /\ \A j \in Jobs : job[j].status = "none" /\ job[j].kind = "none" /\ job[j].source = None
  <2> HIDE DEF AssetRow, JobRow
  <2> QED
    BY <1>1, <1>3, <1>4
<1>6. Types
  BY <1>5 DEF Init, Types
<1>7. FilesInv
  BY <1>5 DEF Init, FilesInv, PendingIsReserved, BytesStay, ReferencesStay, UploadsLeaveNothing, Assets
<1>8. JobsInv
  BY <1>5, DerivedAssets DEF JobsInv, DerivedFits, JobsFit, ResultsExist, OneImport
<1>9. DeletedIsEmpty
  BY DEF Init, DeletedIsEmpty
<1>10. Conserved
  <2>1. UsedBy(asset) = {} /\ ReservedBy(asset) = {}
    BY <1>5 DEF UsedBy, ReservedBy, Uses, Reserves
  <2>2. {} \in SUBSET Assets
    OBVIOUS
  <2>3. Total({}) = 0
    BY <2>2, Totals
  <2>4. used = 0 /\ reserved = 0
    BY DEF Init
  <2> QED
    BY <2>1, <2>3, <2>4, ConservedRows
<1> QED
  BY <1>6, <1>7, <1>8, <1>9, <1>10 DEF StorageInv, RowsInv

(* Every step keeps the invariant.                                         *)
LEMMA StorageInvStep == StorageInv /\ [Next]_vars => StorageInv'
<1> SUFFICES ASSUME StorageInv, [Next]_vars PROVE StorageInv'
  OBVIOUS
<1>1. CASE Request
  BY <1>1, ReserveKeeps, UploadKeeps, CompleteKeeps, EnqueueKeeps, PlaceKeeps
     DEF Request, ReserveRequest, UploadRequest, CompleteRequest, CreateRequest
<1>2. CASE \/ \E w \in Workers : Lease(w) \/ PrepareFails(w) \/ Fail(w) \/ WorkerDies(w)
           \/ \E a \in Assets : Pick(a)
           \/ CleanSkips \/ AccessChanges \/ UNCHANGED vars
           \/ \E j \in Jobs : LeaseExpires(j) \/ BackoffEnds(j) \/ DayPasses(j)
  <2>1. Types
    BY DEF StorageInv, RowsInv
  <2> QED
    BY <1>2, <2>1, StillSteps, StillKeeps
<1>3. CASE \E w \in Workers : Prepare(w) \/ Publish(w) \/ PublishFails(w)
  BY <1>3, PrepareKeeps, PublishKeeps, PublishFailsKeeps
<1>4. CASE Clean \/ CleanFails \/ (\E a \in Assets : Expires(a)) \/ PurgeStarts \/ PurgeStep
  BY <1>4, CleanKeeps, CleanFailsKeeps, ExpiresKeeps, PlaceKeeps, PurgeKeeps
<1> QED
  BY <1>1, <1>2, <1>3, <1>4, Zenon DEF Next, Transfer, Cleanup, Time, Maintenance

(* The invariant, always.                                                  *)
THEOREM StorageInvariance == Spec => []StorageInv
<1> QED
  BY StorageInvInit, StorageInvStep, PTL DEF Spec

(* The counters of a workspace are what its files take, whatever requests, *)
(* workers, cleanup and purge do in whichever order.                       *)
THEOREM CountersConserved == Spec => []Conserved
<1>1. StorageInv => Conserved
  BY DEF StorageInv
<1> QED
  BY <1>1, StorageInvariance, PTL

(* What a download serves has its bytes, and the result of a job exists.   *)
THEOREM ServedFilesAreStored == Spec => []ServedIsStored
<1>1. ASSUME StorageInv PROVE ServedIsStored
  <2>1. ASSUME NEW a \in Assets, Download(a) PROVE "final" \in objects[a]
    BY <1>1, <2>1 DEF StorageInv, RowsInv, FilesInv, BytesStay, Download, Locked, BoardReadable,
       ContentReadable, Unexpired
  <2>2. ASSUME NEW j \in Jobs, Result(j) # None
        PROVE  asset[Result(j)].status \notin {"none", "pending"}
    BY <1>1, <2>2, Zenon DEF StorageInv, RowsInv, JobsInv, ResultsExist, Result
  <2> QED
    BY <2>1, <2>2 DEF ServedIsStored
<1> QED
  BY <1>1, StorageInvariance, PTL

(* A document refers to files that are there, and one import at most has   *)
(* ever been published.                                                    *)
THEOREM ReferencesAlwaysResolve == Spec => []ReferencesResolve
<1>1. ASSUME StorageInv PROVE ReferencesResolve
  <2>1. ASSUME board = "active", lifecycle = "ready", NEW a \in refs
        PROVE  /\ asset[a].status = "available" /\ asset[a].purpose = "attachment"
               /\ "final" \in objects[a]
    <3>1. a \in Assets
      BY <1>1, <2>1 DEF StorageInv, RowsInv, Types
    <3>2. asset[a].status = "available" /\ asset[a].purpose = "attachment"
      BY <1>1, <2>1 DEF StorageInv, RowsInv, FilesInv, ReferencesStay
    <3> QED
      BY <1>1, <2>1, <3>1, <3>2 DEF StorageInv, RowsInv, FilesInv, BytesStay
  <2> DEFINE S == {j \in Jobs : job[j].kind = "import" /\ job[j].status = "succeeded"}
  <2>2. \A j, k \in S : j = k
    BY <1>1 DEF StorageInv, RowsInv, JobsInv, OneImport
  <2> HIDE DEF S
  <2>3. Cardinality(S) <= 1
    <3>1. S = {} \/ \E j \in S : S = {j}
      BY <2>2
    <3>2. Cardinality({}) = 0 /\ \A j : Cardinality({j}) = 1
      BY FS_EmptySet, FS_Singleton
    <3>3. Cardinality(S) = 0 \/ Cardinality(S) = 1
      BY <3>1, <3>2, Zenon
    <3> QED
      BY <3>3
  <2> QED
    BY <2>1, <2>3 DEF ReferencesResolve, S
<1> QED
  BY <1>1, StorageInvariance, PTL

(* A worker whose job has been leased again changes nothing.               *)
THEOREM LateWorkersAreIgnored == Spec => LateWorkersChangeNothing
<1> DEFINE Late(w) == /\ worker[w] # None /\ worker'[w] # worker[w]
                      /\ job[worker[w].job].attempts > worker[w].lease
<1>1. ASSUME StorageInv, [Next]_vars, NEW w \in Workers, Late(w)
      PROVE  UNCHANGED <<asset, used, reserved, job, board, refs>>
  <2>1. DOMAIN worker = Workers /\ worker[w] # None /\ worker'[w] # worker[w]
    BY <1>1 DEF StorageInv, RowsInv, Types
  <2>2. job[worker[w].job].attempts # worker[w].lease
    <3>1. worker[w] \in LeasedJob
      BY <1>1, <2>1 DEF StorageInv, RowsInv, Types
    <3>2. worker[w].job \in Jobs /\ worker[w].lease \in Nat
      BY <3>1 DEF LeasedJob
    <3>3. job[worker[w].job].attempts \in Nat
      BY <1>1, <3>2 DEF StorageInv, RowsInv, Types, JobRow
    <3>4. \A m, n \in Nat : m > n => m # n
      OBVIOUS
    <3> QED
      BY <1>1, <3>2, <3>3, <3>4, Zenon
  <2>3. ~ Runs(w)
    BY <2>2, Zenon DEF Runs, Holds
  <2>4. CASE worker' = worker
    BY <2>1, <2>4
  <2>5. ASSUME NEW v \in Workers,
               Lease(v) \/ Prepare(v) \/ PrepareFails(v) \/ Publish(v) \/ PublishFails(v)
                 \/ Fail(v) \/ WorkerDies(v)
        PROVE  UNCHANGED <<asset, used, reserved, job, board, refs>>
    <3> USE DEF files, place
    <3>1. \A u \in Workers : u # v => worker'[u] = worker[u]
      BY <2>1, <2>5 DEF Lease, Prepare, PrepareFails, Publish, PublishFails, Stops, Fail, WorkerDies
    <3>2. v = w
      BY <2>1, <3>1
    <3>3. ~ Lease(w) /\ ~ Prepare(w) /\ ~ Publish(w)
      BY <2>1, <2>3, Zenon DEF Lease, Prepare, Publish
    <3>4. Fail(w) => UNCHANGED <<asset, used, reserved, job, board, refs>>
      BY <2>2, Zenon DEF Fail
    <3>5. PrepareFails(w) \/ PublishFails(w) \/ WorkerDies(w)
            => UNCHANGED <<asset, used, reserved, job, board, refs>>
      BY DEF PrepareFails, PublishFails, WorkerDies
    <3> QED
      BY <2>5, <3>2, <3>3, <3>4, <3>5
  <2>6. CASE Request \/ Cleanup \/ Time \/ Maintenance \/ UNCHANGED vars
    <3>1. worker' = worker
      BY <2>6 DEF files, place, vars, Request, ReserveRequest, Reserve, UploadRequest, Upload,
         CompleteRequest, Complete, CompleteFails, CreateRequest, EnqueueImport, EnqueueExport,
         Edit, DeleteBoard, Cleanup, Pick, Clean, CleanFails, CleanSkips, Time, Expires,
         LeaseExpires, BackoffEnds, DayPasses, Maintenance, AccessChanges, PurgeStarts, PurgeStep
    <3> QED
      BY <2>4, <3>1
  <2> QED
    BY <1>1, <2>5, <2>6, Zenon DEF Next, Transfer
<1>2. StorageInv /\ [Next]_vars =>
        [\A w \in Workers : Late(w) => UNCHANGED <<asset, used, reserved, job, board, refs>>]_vars
  BY <1>1
<1> QED
  BY <1>2, StorageInvariance, PTL DEF Spec, LateWorkersChangeNothing

(* A purge is not undone and writes no object, and a deleted workspace has *)
(* no file, counted byte, active job or object of an upload left.          *)
THEOREM PurgeIsFinal == Spec => PurgeStands
<1> DEFINE Stands == lifecycle # "ready" =>
       /\ lifecycle' # "ready" /\ board' \in {board, "deleting"}
       /\ \A a \in Assets : /\ asset'[a].status \in {asset[a].status, "deleting", "deleted"}
                            /\ objects'[a] \subseteq objects[a]
       /\ lifecycle' = "deleted" => /\ Kept' = {} /\ used' = 0 /\ reserved' = 0
                                    /\ Active' = {} /\ \A a \in Uploads : objects'[a] = {}
<1>1. ASSUME StorageInv, StorageInv', [Next]_vars, lifecycle # "ready"
      PROVE  /\ lifecycle' # "ready" /\ board' \in {board, "deleting"}
             /\ \A a \in Assets : asset'[a].status \in {asset[a].status, "deleting", "deleted"}
  <2> USE DEF files, place
  <2>1. Types
    BY <1>1 DEF StorageInv, RowsInv
  <2>2. CASE Request
    <3>1. DeleteBoard
      BY <1>1, <2>2, WritersAreReady DEF Request, ReserveRequest, UploadRequest, Upload,
         CompleteRequest, Complete, CompleteFails, CreateRequest, EnqueueImport, EnqueueExport,
         Edit, DeleteBoard, CanWrite, ContentReadable
    <3> QED
      BY <1>1, <3>1 DEF DeleteBoard, CanWrite
  <2>3. CASE Still
    BY <1>1, <2>3 DEF Still
  <2>4. ASSUME NEW w \in Workers, Prepare(w) \/ Publish(w)
        PROVE  FALSE
    BY <1>1, <2>4, Running DEF Prepare, Publish
  <2>5. CASE (\E w \in Workers : PublishFails(w)) \/ CleanFails
    BY <1>1, <2>5 DEF PublishFails, CleanFails
  <2>6. CASE Clean
    <3>1. /\ candidate \in Assets /\ asset' = [asset EXCEPT ![candidate] = Fresh(asset[candidate].purpose, "deleted")]
          /\ board' = board /\ lifecycle' = lifecycle /\ DOMAIN asset = Assets
      BY <2>1, <2>6 DEF Clean, Types
    <3>2. Fresh(asset[candidate].purpose, "deleted").status = "deleted"
      BY DEF Fresh
    <3> DEFINE r == Fresh(asset[candidate].purpose, "deleted")
    <3> HIDE DEF r
    <3>3. \A a \in Assets : asset'[a] = IF a = candidate THEN r ELSE asset[a]
      BY <3>1 DEF r
    <3>4. r.status = "deleted"
      BY <3>2 DEF r
    <3> QED
      BY <1>1, <3>1, <3>3, <3>4
  <2>7. ASSUME NEW a \in Assets, Expires(a)
        PROVE  /\ lifecycle' = lifecycle /\ board' = board
               /\ \A b \in Assets : asset'[b].status = asset[b].status
    <3>1. asset' = [asset EXCEPT ![a] = Aged(asset[a])]
      BY <2>7, Zenon DEF Expires, Aged
    <3>2. Aged(asset[a]).status = asset[a].status
      BY <2>1, AgedRow DEF Types
    <3>3. DOMAIN asset = Assets
      BY <2>1 DEF Types
    <3> QED
      BY <2>7, <3>1, <3>2, <3>3 DEF Expires
  <2>8. CASE PurgeStarts
    BY <1>1, <2>8 DEF PurgeStarts
  <2>9. CASE PurgeStep
    <3>1. /\ board' \in {board, "deleting"} /\ lifecycle' \in {lifecycle, "deleted"}
          /\ asset' = [a \in Assets |->
               IF asset[a].status \in {"pending", "available"} THEN As(asset[a], "deleting")
               ELSE asset[a]]
      BY <2>9 DEF PurgeStep, As
    <3>2. \A a \in Assets : As(asset[a], "deleting").status = "deleting"
      BY <2>1, DeletingRow DEF Types
    <3> QED
      BY <1>1, <3>1, <3>2
  <2>10. CASE \/ \E w \in Workers : Lease(w) \/ PrepareFails(w) \/ Fail(w) \/ WorkerDies(w)
              \/ \E a \in Assets : Pick(a)
              \/ CleanSkips \/ AccessChanges \/ UNCHANGED vars
              \/ \E j \in Jobs : LeaseExpires(j) \/ BackoffEnds(j) \/ DayPasses(j)
    BY <2>1, <2>3, <2>10, StillSteps
  <2> QED
    BY <1>1, <2>2, <2>4, <2>5, <2>6, <2>7, <2>8, <2>9, <2>10
       DEF Next, Transfer, Cleanup, Time, Maintenance
<1>2. ASSUME StorageInv', lifecycle' = "deleted"
      PROVE  /\ Kept' = {} /\ used' = 0 /\ reserved' = 0
             /\ Active' = {} /\ \A a \in Uploads : objects'[a] = {}
  <2>1. Kept' = {} /\ Active' = {}
    BY <1>2 DEF StorageInv, RowsInv, DeletedIsEmpty
  <2>2. used' = 0 /\ reserved' = 0
    <3>1. UsedBy(asset') = {} /\ ReservedBy(asset') = {}
      BY <2>1 DEF Kept, UsedBy, ReservedBy, Uses, Reserves
    <3>2. {} \in SUBSET Assets
      OBVIOUS
    <3>3. Total({}) = 0
      BY <3>2, Totals
    <3> QED
      BY <1>2, <3>1, <3>3, ConservedRows DEF StorageInv
  <2>3. \A a \in Uploads : objects'[a] = {}
    BY <1>2, <2>1 DEF StorageInv, RowsInv, FilesInv, UploadsLeaveNothing, Kept, Assets
  <2> QED
    BY <2>1, <2>2, <2>3
<1>3. ASSUME StorageInv, [Next]_vars, lifecycle # "ready"
      PROVE  \A a \in Assets : objects'[a] \subseteq objects[a]
  <2> USE DEF files, place
  <2>1. Types
    BY <1>3 DEF StorageInv, RowsInv
  <2>2. DOMAIN objects = Assets
    BY <2>1 DEF Types
  <2>3. CASE Request
    BY <1>3, <2>3, WritersAreReady DEF Request, ReserveRequest, UploadRequest, Upload,
       CompleteRequest, Complete, CompleteFails, CreateRequest, EnqueueImport, EnqueueExport,
       Edit, DeleteBoard, CanWrite
  <2>4. ASSUME NEW w \in Workers, Prepare(w) \/ Publish(w) \/ PublishFails(w) PROVE objects' = objects
    <3>1. worker[w] # None /\ ~ Runs(w)
      BY <1>3, <2>4, Running DEF Prepare, Publish, PublishFails
    <3> QED
      BY <2>4, <3>1 DEF Prepare, Publish, PublishFails
  <2>5. CASE Clean \/ CleanFails
    <3>1. PICK o : /\ o \subseteq objects[candidate]
                   /\ objects' = [objects EXCEPT ![candidate] = o]
      BY <2>5 DEF Clean, CleanFails, RemovedSome
    <3> QED
      BY <2>2, <3>1
  <2>6. CASE (\E a \in Assets : Expires(a)) \/ PurgeStarts \/ PurgeStep
    BY <2>6 DEF Expires, PurgeStarts, PurgeStep
  <2>7. CASE \/ \E w \in Workers : Lease(w) \/ PrepareFails(w) \/ Fail(w) \/ WorkerDies(w)
             \/ \E a \in Assets : Pick(a)
             \/ CleanSkips \/ AccessChanges \/ UNCHANGED vars
             \/ \E j \in Jobs : LeaseExpires(j) \/ BackoffEnds(j) \/ DayPasses(j)
    BY <2>1, <2>7, StillSteps DEF Still
  <2> QED
    BY <1>3, <2>3, <2>4, <2>5, <2>6, <2>7 DEF Next, Transfer, Cleanup, Time, Maintenance
<1>4. StorageInv /\ StorageInv' /\ [Next]_vars => [Stands]_vars
  BY <1>1, <1>2, <1>3
<1> QED
  BY <1>4, StorageInvariance, PTL DEF Spec, PurgeStands
=============================================================================
