--------------------------- MODULE PipelineProofs ---------------------------
(***************************************************************************)
(* What holds of `funhouse-pipeline run` for every source folder, every    *)
(* reading of the model, every sequence of command lines and any number of *)
(* crashes: manifests never run ahead of tables and bucket, the loader     *)
(* implements the audited ledger, and only sound rows reach the tables.    *)
(* The pure functions behind it follow at the end.                         *)
(***************************************************************************)
EXTENDS Pipeline, Extraction, FiniteSetTheorems, SequenceTheorems, TLAPS

-----------------------------------------------------------------------------
(* The inductive invariant.                                                *)

Fields ==
    {"pc", "cmd", "stage", "manifest", "conn", "todo", "attempt", "records", "clean",
     "merged", "created", "resolved", "index"}

\* A manifest knows exactly the files that Collect finds.
Manifest(m) ==
    /\ m = [files |-> m.files, records |-> m.records,
            skips |-> m.skips, completed |-> m.completed]
    /\ m.files = [f \in ToSet(Routed) |->
                    [extract |-> m.files[f].extract, archive |-> m.files[f].archive]]

\* What a manifest claims of its records is true of the tables R.
Recorded(m, R) ==
    \A rec \in DOMAIN m.records :
        /\ m.records[rec] = "loaded" => \E k \in DOMAIN R : RecordId(R[k].record) = rec
        /\ m.records[rec] = "skipped" =>
              \E k \in DOMAIN R : k[1] = rec[2] /\ R[k].record.file = rec[1]

\* What a manifest claims of the originals is true of the bucket S.
Stored(m, S) ==
    \A f \in ToSet(Routed) :
        m.files[f].archive = "done" => \E key \in DOMAIN S : SameObject(S[key], f)

Honest(m, R, S) == Manifest(m) /\ Recorded(m, R) /\ Stored(m, S)

\* A run is honest in memory too, and what its records resolve to is there or will be.
Running(p, P, R, S) ==
    /\ p = [x \in Fields |-> p[x]]
    /\ p.cmd.run \in RunIds
    /\ Honest(p.manifest, R, S)
    /\ p.merged \subseteq DOMAIN P
    /\ \A k \in p.created : k = <<"players", k[2], k[3]>>
    /\ IsFiniteSet(p.created)
    /\ p.resolved \subseteq DOMAIN P

Process(p, P, R, S) == p = NoProcess \/ Running(p, P, R, S)

Disk(d, R, S) ==
    /\ d = [id \in RunIds |-> d[id]]
    /\ \A id \in RunIds : d[id] # Absent => Honest(d[id], R, S)

\* Every key tells what it is the key of.
Keyed(P, R, S) ==
    /\ \A k \in DOMAIN P : k = <<"players", k[2], k[3]>>
    /\ \A k \in DOMAIN R : k = NaturalKey(R[k].record)
    /\ \A key \in DOMAIN S : key = ArchiveKey(S[key])

\* The audit trail speaks of rows that are there.
Audited(A, P, R) == IsABag(A) /\ \A e \in DOMAIN A : e[1] \in DOMAIN P \cup DOMAIN R

Inv ==
    /\ Process(proc, players, rows, s3)
    /\ Disk(disk, rows, s3)
    /\ Keyed(players, rows, s3)
    /\ Audited(audit, players, rows)

-----------------------------------------------------------------------------
(* Lemmas on manifests.                                                    *)

LEMMA FreshIsHonest == ASSUME NEW R, NEW S PROVE Honest(Fresh, R, S)
<1>1. Manifest(Fresh)
  BY DEF Manifest, Fresh
<1>2. Recorded(Fresh, R)
  BY DEF Recorded, Fresh
<1>3. Stored(Fresh, S)
  BY DEF Stored, Fresh
<1> QED
  BY <1>1, <1>2, <1>3 DEF Honest

\* Two manifests that differ in skips and stages claim the same.
LEMMA SameClaims ==
    ASSUME NEW m, NEW n, NEW R, NEW S, Honest(m, R, S),
           n = [files |-> m.files, records |-> m.records,
                skips |-> n.skips, completed |-> n.completed]
    PROVE  Honest(n, R, S)
<1>1. n.files = m.files /\ n.records = m.records
  OBVIOUS
<1> QED
  BY <1>1 DEF Honest, Manifest, Recorded, Stored

\* Tables that only grow and a bucket that keeps an object under every key leave
\* a manifest honest.
LEMMA ClaimsLast ==
    ASSUME NEW m, NEW R, NEW S, NEW R2, NEW S2, Honest(m, R, S),
           \A k \in DOMAIN R : k \in DOMAIN R2 /\ R2[k] = R[k],
           \A key \in DOMAIN S : key \in DOMAIN S2
                /\ \A f : SameObject(S[key], f) => SameObject(S2[key], f)
    PROVE  Honest(m, R2, S2)
<1>1. Recorded(m, R2)
  BY DEF Honest, Recorded
<1>2. Stored(m, S2)
  BY DEF Honest, Stored
<1> QED
  BY <1>1, <1>2 DEF Honest

\* Recording that records were extracted or flagged claims nothing.
LEMMA MarkHarmless ==
    ASSUME NEW m, NEW R, NEW S, Honest(m, R, S), NEW ids,
           NEW status \in {"extracted", "flagged"}
    PROVE  Honest(Mark(m, ids, status), R, S)
<1> DEFINE n == Mark(m, ids, status)
<1>1. /\ n = [files |-> m.files, records |-> n.records, skips |-> m.skips, completed |-> m.completed]
      /\ n.records = [id \in DOMAIN m.records \cup ids |->
                         IF id \in ids THEN status ELSE m.records[id]]
  BY DEF Mark, Honest, Manifest
<1> HIDE DEF n
<1>2. n.files = m.files
  BY <1>1
<1>3. Manifest(n)
  BY <1>1, <1>2 DEF Honest, Manifest
<1>4. Recorded(n, R)
  <2>1. ASSUME NEW rec \in DOMAIN n.records, n.records[rec] \in {"loaded", "skipped"}
        PROVE  rec \in DOMAIN m.records /\ m.records[rec] = n.records[rec]
    BY <1>1, <2>1
  <2> QED
    BY <2>1 DEF Honest, Recorded
<1>5. Stored(n, S)
  BY <1>2 DEF Honest, Stored
<1> QED
  BY <1>3, <1>4, <1>5 DEF Honest, n

\* A record may be marked loaded or skipped when the tables bear it out.
LEMMA MarkTrue ==
    ASSUME NEW m, NEW R, NEW S, Honest(m, R, S), NEW id, NEW status,
           status = "loaded" => \E k \in DOMAIN R : RecordId(R[k].record) = id,
           status = "skipped" => \E k \in DOMAIN R : k[1] = id[2] /\ R[k].record.file = id[1]
    PROVE  Honest(Mark(m, {id}, status), R, S)
<1> DEFINE n == Mark(m, {id}, status)
<1>1. /\ n = [files |-> m.files, records |-> n.records, skips |-> m.skips, completed |-> m.completed]
      /\ n.records = [x \in DOMAIN m.records \cup {id} |->
                         IF x \in {id} THEN status ELSE m.records[x]]
  BY DEF Mark, Honest, Manifest
<1> HIDE DEF n
<1>2. n.files = m.files
  BY <1>1
<1>3. Manifest(n)
  BY <1>1, <1>2 DEF Honest, Manifest
<1>4. Recorded(n, R)
  <2>1. ASSUME NEW rec \in DOMAIN n.records, rec # id
        PROVE  rec \in DOMAIN m.records /\ m.records[rec] = n.records[rec]
    BY <1>1, <2>1
  <2>2. n.records[id] = status
    BY <1>1
  <2> QED
    BY <2>1, <2>2 DEF Honest, Recorded
<1>5. Stored(n, S)
  BY <1>2 DEF Honest, Stored
<1> QED
  BY <1>3, <1>4, <1>5 DEF Honest, n

\* What becomes of a file in Extract claims nothing of its original.
LEMMA ExtractHarmless ==
    ASSUME NEW m, NEW R, NEW S, Honest(m, R, S), NEW fs, NEW status
    PROVE  Honest(SetFiles(m, fs, "extract", status), R, S)
<1> DEFINE n == SetFiles(m, fs, "extract", status)
<1> DEFINE files == [f \in DOMAIN m.files |->
                IF f \in fs THEN [m.files[f] EXCEPT !["extract"] = status] ELSE m.files[f]]
<1>0. n = [m EXCEPT !.files = files]
  BY Zenon DEF SetFiles
<1> HIDE DEF files, n
<1>1. /\ n = [files |-> n.files, records |-> m.records, skips |-> m.skips, completed |-> m.completed]
      /\ n.files = files
  BY <1>0 DEF Honest, Manifest
<1>2. DOMAIN m.files = ToSet(Routed)
      /\ \A f \in ToSet(Routed) : m.files[f] = [extract |-> m.files[f].extract,
                                                archive |-> m.files[f].archive]
  BY DEF Honest, Manifest
<1>3. \A f \in ToSet(Routed) :
          /\ n.files[f] = [extract |-> n.files[f].extract, archive |-> n.files[f].archive]
          /\ n.files[f].archive = m.files[f].archive
  <2> SUFFICES ASSUME NEW f \in ToSet(Routed)
               PROVE  /\ n.files[f] = [extract |-> n.files[f].extract,
                                       archive |-> n.files[f].archive]
                      /\ n.files[f].archive = m.files[f].archive
    OBVIOUS
  <2>1. n.files[f] = IF f \in fs THEN [m.files[f] EXCEPT !["extract"] = status] ELSE m.files[f]
    BY <1>1, <1>2 DEF files
  <2> QED
    BY <1>2, <2>1
<1>4. n.records = m.records
  BY <1>1
<1>5. Manifest(n)
  <2>1. DOMAIN files = ToSet(Routed) /\ files = [g \in ToSet(Routed) |-> files[g]]
    BY <1>2 DEF files
  <2> QED
    BY <1>1, <1>3, <2>1 DEF Manifest
<1>6. Recorded(n, R)
  BY <1>4 DEF Honest, Recorded
<1>7. Stored(n, S)
  BY <1>3 DEF Honest, Stored
<1> QED
  BY <1>5, <1>6, <1>7 DEF Honest, n

\* A file may be called archived when the bucket has it.
LEMMA ArchiveTrue ==
    ASSUME NEW m, NEW R, NEW S, Honest(m, R, S), NEW f,
           \E key \in DOMAIN S : SameObject(S[key], f)
    PROVE  Honest(SetFiles(m, {f}, "archive", "done"), R, S)
<1> DEFINE n == SetFiles(m, {f}, "archive", "done")
<1> DEFINE files == [g \in DOMAIN m.files |->
                IF g \in {f} THEN [m.files[g] EXCEPT !["archive"] = "done"] ELSE m.files[g]]
<1>0. n = [m EXCEPT !.files = files]
  BY Zenon DEF SetFiles
<1> HIDE DEF files, n
<1>1. /\ n = [files |-> n.files, records |-> m.records, skips |-> m.skips, completed |-> m.completed]
      /\ n.files = files
  BY <1>0 DEF Honest, Manifest
<1>2. DOMAIN m.files = ToSet(Routed)
      /\ \A g \in ToSet(Routed) : m.files[g] = [extract |-> m.files[g].extract,
                                                archive |-> m.files[g].archive]
  BY DEF Honest, Manifest
<1>3. \A g \in ToSet(Routed) :
          /\ n.files[g] = [extract |-> n.files[g].extract, archive |-> n.files[g].archive]
          /\ g # f => n.files[g].archive = m.files[g].archive
  <2> SUFFICES ASSUME NEW g \in ToSet(Routed)
               PROVE  /\ n.files[g] = [extract |-> n.files[g].extract,
                                       archive |-> n.files[g].archive]
                      /\ g # f => n.files[g].archive = m.files[g].archive
    OBVIOUS
  <2>1. n.files[g] = IF g \in {f} THEN [m.files[g] EXCEPT !["archive"] = "done"] ELSE m.files[g]
    BY <1>1, <1>2 DEF files
  <2> QED
    BY <1>2, <2>1
<1>4. n.records = m.records
  BY <1>1
<1>5. Manifest(n)
  <2>1. DOMAIN files = ToSet(Routed) /\ files = [g \in ToSet(Routed) |-> files[g]]
    BY <1>2 DEF files
  <2> QED
    BY <1>1, <1>3, <2>1 DEF Manifest
<1>6. Recorded(n, R)
  BY <1>4 DEF Honest, Recorded
<1>7. Stored(n, S)
  BY <1>3 DEF Honest, Stored
<1> QED
  BY <1>5, <1>6, <1>7 DEF Honest, n

-----------------------------------------------------------------------------
(* Steps that leave tables and bucket alone.                               *)

\* What a step makes of the process, apart from what it says in its manifest.
Continues(q, p) ==
    /\ q = [x \in Fields |-> q[x]]
    /\ q.cmd = p.cmd
    /\ q.merged = p.merged
    /\ q.created = p.created
    /\ q.resolved = p.resolved

LEMMA Busy ==
    ASSUME Inv, proc.pc # "idle"
    PROVE  Running(proc, players, rows, s3)
  BY DEF Inv, Process, NoProcess

LEMMA MovesOn ==
    ASSUME NEW p, NEW q, NEW P, NEW R, NEW S, Running(p, P, R, S),
           Continues(q, p), Honest(q.manifest, R, S)
    PROVE  Running(q, P, R, S)
  BY DEF Running, Continues

LEMMA Enters ==
    ASSUME NEW p, NEW P, NEW R, NEW S, Running(p, P, R, S)
    PROVE  Running(EnterNext(p), P, R, S)
<1> DEFINE q == EnterNext(p)
           next == NextStage(p.stage, StagesToRun(p.cmd.stage))
           completed == p.manifest.completed \ ({next} \ {"validate"})
           todo == IF next = "archive" THEN Pending(p, "archive") ELSE <<>>
<1>1. q = [p EXCEPT !.pc = FirstStep(next), !.stage = next, !.attempt = 1,
                    !.manifest = [p.manifest EXCEPT !.completed = completed],
                    !.todo = todo]
  BY DEF EnterNext, Running, Fields
<1> HIDE DEF q, next, completed, todo
<1>2. Continues(q, p) /\ q.manifest = [p.manifest EXCEPT !.completed = completed]
  BY <1>1 DEF Continues, Running, Fields
<1>3. q.manifest = [files |-> p.manifest.files, records |-> p.manifest.records,
                    skips |-> p.manifest.skips, completed |-> completed]
  BY <1>2 DEF Running, Honest, Manifest
<1>4. Honest(q.manifest, R, S)
  BY <1>3, SameClaims DEF Running
<1> QED
  BY <1>2, <1>4, MovesOn DEF q

LEMMA Completes ==
    ASSUME NEW p, NEW P, NEW R, NEW S, Running(p, P, R, S)
    PROVE  Running(Completed(p), P, R, S)
<1> DEFINE q == Completed(p)
           completed == p.manifest.completed \cup {p.stage}
<1>1. q = [p EXCEPT !.pc = "save", !.manifest = [p.manifest EXCEPT !.completed = completed]]
  BY DEF Completed, Running, Fields
<1> HIDE DEF q, completed
<1>2. Continues(q, p) /\ q.manifest = [p.manifest EXCEPT !.completed = completed]
  BY <1>1 DEF Continues, Running, Fields
<1>3. q.manifest = [files |-> p.manifest.files, records |-> p.manifest.records,
                    skips |-> p.manifest.skips, completed |-> completed]
  BY <1>2 DEF Running, Honest, Manifest
<1>4. Honest(q.manifest, R, S)
  BY <1>3, SameClaims DEF Running
<1> QED
  BY <1>2, <1>4, MovesOn DEF q

LEMMA QuietKeeps ==
    ASSUME Inv, UNCHANGED <<players, rows, audit, s3>>,
           Process(proc', players, rows, s3), Disk(disk', rows, s3)
    PROVE  Inv'
  BY DEF Inv

\* The process goes on, in memory only.
LEMMA GoesOnQuietly ==
    ASSUME Inv, UNCHANGED <<players, rows, audit, s3, disk>>,
           Running(proc', players, rows, s3)
    PROVE  Inv'
  BY DEF Inv, Process

\* The process is gone.
LEMMA HaltKeeps ==
    ASSUME Inv, UNCHANGED <<players, rows, audit, s3, disk>>, Halt
    PROVE  Inv'
  BY DEF Inv, Process, Halt

\* Steps that change neither the manifest nor anything outside the process.
LEMMA SameManifest ==
    ASSUME Inv, UNCHANGED <<players, rows, audit, s3, disk>>, proc.pc # "idle",
           Continues(proc', proc), proc'.manifest = proc.manifest
    PROVE  Inv'
<1>1. Running(proc, players, rows, s3)
  BY Busy
<1>2. Honest(proc'.manifest, rows, s3)
  BY <1>1 DEF Running
<1>3. Running(proc', players, rows, s3)
  BY <1>1, <1>2, MovesOn
<1> QED
  BY <1>3, GoesOnQuietly

LEMMA RetryKeeps == ASSUME Inv, Retry PROVE Inv'
<1>1. proc.pc = "backoff" /\ UNCHANGED <<players, rows, audit, s3, disk>>
      /\ proc' = [proc EXCEPT !.pc = FirstStep(proc.stage), !.attempt = proc.attempt + 1]
  BY DEF Retry, At, db, store
<1>2. Running(proc, players, rows, s3)
  BY <1>1, Busy
<1>3. Continues(proc', proc) /\ proc'.manifest = proc.manifest
  BY <1>1, <1>2 DEF Continues, Running, Fields
<1> QED
  BY <1>1, <1>3, SameManifest

LEMMA BuildIndexKeeps == ASSUME Inv, BuildIndex PROVE Inv'
<1>1. proc.pc = "index" /\ UNCHANGED <<players, rows, audit, s3, disk>>
      /\ proc' = [proc EXCEPT !.pc = "schools", !.index = DOMAIN players]
  BY DEF BuildIndex, At, db, store
<1>2. Running(proc, players, rows, s3)
  BY <1>1, Busy
<1>3. Continues(proc', proc) /\ proc'.manifest = proc.manifest
  BY <1>1, <1>2 DEF Continues, Running, Fields
<1> QED
  BY <1>1, <1>3, SameManifest

LEMMA EndSchoolsKeeps == ASSUME Inv, EndSchools PROVE Inv'
<1>1. proc.pc = "schools" /\ UNCHANGED <<players, rows, audit, s3, disk>>
      /\ proc' = [proc EXCEPT !.pc = "rows", !.todo = Others]
  BY DEF EndSchools, At, db, store
<1>2. Running(proc, players, rows, s3)
  BY <1>1, Busy
<1>3. Continues(proc', proc) /\ proc'.manifest = proc.manifest
  BY <1>1, <1>2 DEF Continues, Running, Fields
<1> QED
  BY <1>1, <1>3, SameManifest

\* An error that ends the run, and a crash.
LEMMA LostRunKeeps ==
    ASSUME Inv, NoLocation \/ LoadAborts \/ NoBucket \/ Crash
    PROVE  Inv'
<1>1. Halt /\ UNCHANGED <<players, rows, audit, s3, disk>>
  BY DEF NoLocation, LoadAborts, NoBucket, Crash, db, store
<1> QED
  BY <1>1, HaltKeeps

\* The last step of a stage.
LEMMA StageEndKeeps ==
    ASSUME Inv, EndLoad \/ EndArchive
    PROVE  Inv'
<1>1. proc.pc # "idle" /\ UNCHANGED <<players, rows, audit, s3, disk>> /\ proc' = Completed(proc)
  BY DEF EndLoad, EndArchive, At, db, store
<1>2. Running(proc', players, rows, s3)
  BY <1>1, Busy, Completes
<1> QED
  BY <1>1, <1>2, GoesOnQuietly

LEMMA ConnectKeeps == ASSUME Inv, Connect \/ ConnectFails PROVE Inv'
<1>1. proc.pc = "connect" /\ UNCHANGED <<players, rows, audit, s3, disk>>
  BY DEF Connect, ConnectFails, At, db, store
<1>2. Running(proc, players, rows, s3)
  BY <1>1, Busy
<1>3. CASE Connect
  <2> DEFINE p == [proc EXCEPT !.conn = NeedDb]
  <2>1. Continues(p, proc) /\ p.manifest = proc.manifest
    BY <1>2 DEF Continues, Running, Fields
  <2>2. proc' = EnterNext(p)
    BY <1>3 DEF Connect
  <2> HIDE DEF p
  <2>3. Running(p, players, rows, s3)
    BY <1>2, <2>1, MovesOn DEF Running
  <2>4. Running(proc', players, rows, s3)
    BY <2>2, <2>3, Enters
  <2> QED
    BY <1>1, <2>4, GoesOnQuietly
<1>4. CASE ConnectFails
  <2>1. CASE Halt
    BY <1>1, <2>1, HaltKeeps
  <2>2. CASE proc' = EnterNext(proc)
    <3>1. Running(proc', players, rows, s3)
      BY <1>2, <2>2, Enters
    <3> QED
      BY <1>1, <3>1, GoesOnQuietly
  <2> QED
    BY <1>4, <2>1, <2>2 DEF ConnectFails
<1> QED
  BY <1>3, <1>4

LEMMA CollectKeeps == ASSUME Inv, Collect PROVE Inv'
<1> DEFINE skips == proc.manifest.skips \cup (ToSet(Source) \ ToSet(Routed))
                     \cup {<<d>> : d \in ToSet(SUBFOLDER_SPECS) \ {Folder(f) : f \in ToSet(Source)}}
           m == [proc.manifest EXCEPT !.skips = skips]
           p == [proc EXCEPT !.manifest = m]
<1>1. proc.pc = "collect" /\ UNCHANGED <<players, rows, audit, s3, disk>>
  BY DEF Collect, At, db, store
<1>2. Running(proc, players, rows, s3)
  BY <1>1, Busy
<1>3. proc' = Completed(p)
  BY <1>2 DEF Collect, Running, Fields
<1> HIDE DEF skips
<1>4. m = [files |-> proc.manifest.files, records |-> proc.manifest.records,
           skips |-> skips, completed |-> proc.manifest.completed]
  BY <1>2 DEF Running, Honest, Manifest
<1>5. Continues(p, proc) /\ p.manifest = m
  BY <1>2 DEF Continues, Running, Fields
<1> HIDE DEF m, p
<1>6. Honest(m, rows, s3)
  BY <1>2, <1>4, SameClaims DEF Running
<1>7. Running(p, players, rows, s3)
  BY <1>2, <1>5, <1>6, MovesOn
<1>8. Running(proc', players, rows, s3)
  BY <1>3, <1>7, Completes
<1> QED
  BY <1>1, <1>8, GoesOnQuietly

-----------------------------------------------------------------------------
(* Steps that save, extract and validate.                                  *)

LEMMA SavedIsHonest ==
    ASSUME NEW d, NEW R, NEW S, Disk(d, R, S), NEW m, Honest(m, R, S), NEW id \in RunIds
    PROVE  Disk([d EXCEPT ![id] = m], R, S)
  BY DEF Disk

LEMMA StartRunKeeps == ASSUME Inv, NEW c \in Commands, StartRun(c) PROVE Inv'
<1> DEFINE m == IF c.resume THEN disk[c.run] ELSE Fresh
<1>1. /\ proc' = NewProcess(c, m)
      /\ disk' = [disk EXCEPT ![c.run] = m]
      /\ c.resume => disk[c.run] # Absent
      /\ UNCHANGED <<players, rows, audit, s3>>
  BY DEF StartRun, db
<1>2. c.run \in RunIds
  BY PipelineAssumption
<1>3. Honest(m, rows, s3)
  BY <1>1, <1>2, FreshIsHonest DEF Inv, Disk
<1> HIDE DEF m
<1>4. Running(NewProcess(c, m), players, rows, s3)
  <2>1. IsFiniteSet({})
    BY FS_EmptySet
  <2>2. PICK p : p = NewProcess(c, m)
    OBVIOUS
  <2>3. /\ p = [x \in Fields |-> p[x]]
        /\ p.cmd = c /\ p.manifest = m
        /\ p.merged = {} /\ p.created = {} /\ p.resolved = {}
    BY <2>2 DEF NewProcess, Fields
  <2> QED
    BY <1>2, <1>3, <2>1, <2>2, <2>3 DEF Running
<1>5. Disk(disk', rows, s3)
  BY <1>1, <1>2, <1>3, SavedIsHonest DEF Inv
<1> QED
  BY <1>1, <1>4, <1>5, QuietKeeps DEF Process

LEMMA SaveKeeps == ASSUME Inv, Save PROVE Inv'
<1>1. /\ proc.pc = "save" /\ proc' = EnterNext(proc)
      /\ disk' = [disk EXCEPT ![proc.cmd.run] = proc.manifest]
      /\ UNCHANGED <<players, rows, audit, s3>>
  BY DEF Save, At, db
<1>2. Running(proc, players, rows, s3)
  BY <1>1, Busy
<1>3. Running(proc', players, rows, s3)
  BY <1>1, <1>2, Enters
<1>4. Disk(disk', rows, s3)
  BY <1>1, <1>2, SavedIsHonest DEF Inv, Running
<1> QED
  BY <1>1, <1>3, <1>4, QuietKeeps DEF Process

LEMMA ExitKeeps == ASSUME Inv, Exit PROVE Inv'
<1>1. /\ proc.pc = "finished" /\ proc' = NoProcess
      /\ disk' = [disk EXCEPT ![proc.cmd.run] = proc.manifest]
      /\ UNCHANGED <<players, rows, audit, s3>>
  BY DEF Exit, At, Halt, db
<1>2. Running(proc, players, rows, s3)
  BY <1>1, Busy
<1>3. Disk(disk', rows, s3)
  BY <1>1, <1>2, SavedIsHonest DEF Inv, Running
<1> QED
  BY <1>1, <1>3, QuietKeeps DEF Process

LEMMA ToDocumentsKeeps ==
    ASSUME Inv, proc.pc # "idle", UNCHANGED <<players, rows, audit, s3, disk>>,
           NEW recs, NEW fs, NEW status,
           ToDocuments(recs, SetFiles(proc.manifest, fs, "extract", status))
    PROVE  Inv'
<1> DEFINE m == SetFiles(proc.manifest, fs, "extract", status)
<1>1. Running(proc, players, rows, s3)
  BY Busy
<1>2. Honest(m, rows, s3)
  BY <1>1, ExtractHarmless DEF Running
<1>3. proc' = [proc EXCEPT !.pc = "documents", !.todo = ToExtract("docx"),
                           !.records = recs, !.manifest = m]
  BY DEF ToDocuments
<1> HIDE DEF m
<1>4. Continues(proc', proc) /\ proc'.manifest = m
  BY <1>1, <1>3 DEF Continues, Running, Fields
<1>5. Running(proc', players, rows, s3)
  BY <1>1, <1>2, <1>4, MovesOn
<1> QED
  BY <1>5, GoesOnQuietly

LEMMA ExtractImagesKeeps == ASSUME Inv, ExtractImages PROVE Inv'
<1>1. proc.pc # "idle" /\ UNCHANGED <<players, rows, audit, s3, disk>>
  BY DEF ExtractImages, At, db, store
<1>2. PICK recs, fs : ToDocuments(recs, SetFiles(proc.manifest, fs, "extract", "done"))
  BY DEF ExtractImages
<1> QED
  BY <1>1, <1>2, ToDocumentsKeeps

LEMMA GotoKeeps ==
    ASSUME Inv, proc.pc # "idle", UNCHANGED <<players, rows, audit, s3, disk>>,
           NEW pc, Goto(pc)
    PROVE  Inv'
<1>1. Running(proc, players, rows, s3)
  BY Busy
<1>2. Continues(proc', proc) /\ proc'.manifest = proc.manifest
  BY <1>1 DEF Goto, Continues, Running, Fields
<1> QED
  BY <1>2, SameManifest

LEMMA ImagesFailKeeps == ASSUME Inv, ImagesFail PROVE Inv'
<1>1. proc.pc # "idle" /\ UNCHANGED <<players, rows, audit, s3, disk>>
  BY DEF ImagesFail, At, db, store
<1>2. CASE Goto("backoff")
  BY <1>1, <1>2, GotoKeeps
<1>3. CASE ToDocuments(<<>>, SetFiles(proc.manifest, ToSet(ToExtract("image")), "extract", "failed"))
  BY <1>1, <1>3, ToDocumentsKeeps
<1> QED
  BY <1>2, <1>3 DEF ImagesFail

LEMMA DocumentKeeps == ASSUME Inv, ExtractDocument \/ DocumentFails PROVE Inv'
<1>1. proc.pc # "idle" /\ UNCHANGED <<players, rows, audit, s3, disk>>
  BY DEF ExtractDocument, DocumentFails, At, db, store
<1>2. Running(proc, players, rows, s3)
  BY <1>1, Busy
<1>3. PICK fs, status : \/ proc' = [proc EXCEPT !.todo = Tail(proc.todo),
                                       !.manifest = SetFiles(proc.manifest, fs, "extract", status)]
                       \/ proc' = [proc EXCEPT !.todo = Tail(proc.todo),
                                       !.records = proc.records \o DocumentRecords[Head(proc.todo)],
                                       !.manifest = SetFiles(proc.manifest, fs, "extract", status)]
  <2>1. CASE ExtractDocument
    BY <1>2, <2>1 DEF ExtractDocument, Running, Fields
  <2>2. CASE DocumentFails
    BY <1>2, <2>2 DEF DocumentFails, Running, Fields
  <2> QED
    BY <2>1, <2>2
<1> DEFINE m == SetFiles(proc.manifest, fs, "extract", status)
<1>4. Honest(m, rows, s3)
  BY <1>2, ExtractHarmless DEF Running
<1> HIDE DEF m
<1>5. Continues(proc', proc) /\ proc'.manifest = m
  BY <1>2, <1>3 DEF Continues, Running, Fields, m
<1>6. Running(proc', players, rows, s3)
  BY <1>2, <1>4, <1>5, MovesOn
<1> QED
  BY <1>1, <1>6, GoesOnQuietly

\* Extract and Validate end with a mark on some records and the end of the stage.
LEMMA MarkedEnd ==
    ASSUME NEW p, NEW q, NEW P, NEW R, NEW S, Running(p, P, R, S),
           NEW ids, NEW status \in {"extracted", "flagged"},
           Continues(q, p), q.manifest = Mark(p.manifest, ids, status)
    PROVE  Running(Completed(q), P, R, S)
<1>1. Honest(q.manifest, R, S)
  BY MarkHarmless DEF Running
<1>2. Running(q, P, R, S)
  BY <1>1, MovesOn
<1> QED
  BY <1>2, Completes

LEMMA EndExtractKeeps == ASSUME Inv, EndExtract PROVE Inv'
<1> DEFINE m == Mark(proc.manifest, Ids(proc.records), "extracted")
           q == [proc EXCEPT !.manifest = m]
<1>1. proc.pc = "documents" /\ UNCHANGED <<players, rows, audit, s3, disk>>
  BY DEF EndExtract, At, db, store
<1>2. Running(proc, players, rows, s3)
  BY <1>1, Busy
<1>3. proc' = Completed(q)
  BY <1>2 DEF EndExtract, Running, Fields
<1> HIDE DEF m
<1>4. Continues(q, proc) /\ q.manifest = m
  BY <1>2 DEF Continues, Running, Fields
<1> HIDE DEF q
<1>5. Running(Completed(q), players, rows, s3)
  BY <1>2, <1>4, MarkedEnd DEF m
<1> QED
  BY <1>1, <1>3, <1>5, GoesOnQuietly

LEMMA ValidateKeeps == ASSUME Inv, Validate \/ ValidateBlind PROVE Inv'
<1>1. proc.pc = "validate"
  BY DEF Validate, ValidateBlind, At
<1>2. PICK known : ValidateWith(known)
  BY DEF Validate, ValidateBlind
<1>3. Running(proc, players, rows, s3)
  BY <1>1, Busy
<1>4. UNCHANGED <<players, rows, audit, s3, disk>>
  BY <1>2 DEF ValidateWith, db
<1>5. PICK clean, flagged :
        proc' = Completed([proc EXCEPT !.clean = clean,
                              !.manifest = Mark(proc.manifest, flagged, "flagged")])
  BY <1>2, <1>3 DEF ValidateWith, Running, Fields
<1> DEFINE m == Mark(proc.manifest, flagged, "flagged")
           q == [proc EXCEPT !.clean = clean, !.manifest = m]
<1>6. proc' = Completed(q)
  BY <1>5
<1> HIDE DEF m
<1>7. Continues(q, proc) /\ q.manifest = m
  BY <1>3 DEF Continues, Running, Fields
<1> HIDE DEF q
<1>8. Running(Completed(q), players, rows, s3)
  BY <1>3, <1>7, MarkedEnd DEF m
<1> QED
  BY <1>4, <1>6, <1>8, GoesOnQuietly

-----------------------------------------------------------------------------
(* Steps that change tables or bucket.                                     *)

Copies(e, B) == IF e \in DOMAIN B THEN B[e] ELSE 0

One(e, es) == IF e \in es THEN 1 ELSE 0

\* A set of entries is added to the audit trail.
LEMMA Journalled ==
    ASSUME NEW A, IsABag(A), NEW es
    PROVE  LET B == A (+) SetToBag(es)
           IN  /\ IsABag(B)
               /\ DOMAIN B = DOMAIN A \cup es
               /\ \A e : Copies(e, B) = Copies(e, A) + One(e, es)
  BY DEF IsABag, (+), SetToBag, Copies, One

LEMMA NothingJournalled ==
    ASSUME NEW A, IsABag(A)
    PROVE  A (+) SetToBag({}) = A
  BY DEF IsABag, (+), SetToBag

\* The bag C is A with the entries es and fs.
Added(A, es, fs, C) ==
    /\ IsABag(C)
    /\ DOMAIN C = DOMAIN A \cup es \cup fs
    /\ \A e : Copies(e, C) = Copies(e, A) + One(e, es) + One(e, fs)

LEMMA JournalledTwice ==
    ASSUME NEW A, IsABag(A), NEW es, NEW fs, NEW C,
           C = A (+) SetToBag(es) (+) SetToBag(fs)
    PROVE  Added(A, es, fs, C)
<1> DEFINE B == A (+) SetToBag(es)
<1>1. /\ IsABag(B)
      /\ DOMAIN B = DOMAIN A \cup es
      /\ \A e : Copies(e, B) = Copies(e, A) + One(e, es)
  BY Journalled
<1> HIDE DEF B
<1>2. /\ IsABag(C)
      /\ DOMAIN C = DOMAIN B \cup fs
      /\ \A e : Copies(e, C) = Copies(e, B) + One(e, fs)
  <2>1. C = B (+) SetToBag(fs)
    BY DEF B
  <2> QED
    BY <1>1, <2>1, Journalled
<1> QED
  BY <1>1, <1>2 DEF Added

Entries(ks, action) == {<<k, action>> : k \in ks}

LEMMA EntriesOf ==
    ASSUME NEW ks, NEW action
    PROVE  /\ \A k, a : <<k, a>> \in Entries(ks, action) <=> k \in ks /\ a = action
           /\ \A e \in Entries(ks, action) : e[1] \in ks
  BY DEF Entries

\* A step enters and journals as inserted the keys ins, some of which may be there,
\* and journals what it likes of keys that are there.
Journals(ins) ==
    /\ DOMAIN players' \cup DOMAIN rows' = DOMAIN players \cup DOMAIN rows \cup ins
    /\ \A k : Ledger!Inserts(k)' = Ledger!Inserts(k) + One(k, ins)
    /\ \A k : Ledger!Inserts(k) \in Nat
    /\ \A e : Ledger!Times(e) <= Ledger!Times(e)'
    /\ Audited(audit', players', rows')

\* A transaction that inserts the keys ins and visits the keys old.
LEMMA Commits ==
    ASSUME Inv, NEW ins, NEW old, NEW action, action # "insert",
           DOMAIN players' \cup DOMAIN rows' = DOMAIN players \cup DOMAIN rows \cup ins,
           old \subseteq DOMAIN players' \cup DOMAIN rows',
           audit' = audit (+) SetToBag(Entries(ins, "insert")) (+) SetToBag(Entries(old, action))
    PROVE  Journals(ins)
<1>0. PICK new, vis : new = Entries(ins, "insert") /\ vis = Entries(old, action)
  OBVIOUS
<1>1. IsABag(audit) /\ \A e \in DOMAIN audit : e[1] \in DOMAIN players \cup DOMAIN rows
  BY DEF Inv, Audited
<1>2. /\ \A k : <<k, "insert">> \in new <=> k \in ins
      /\ \A k : <<k, "insert">> \notin vis
      /\ \A e \in new : e[1] \in ins
      /\ \A e \in vis : e[1] \in old
  BY <1>0, EntriesOf
<1>3. PICK A, C : A = audit /\ C = audit'
  OBVIOUS
<1>4. C = A (+) SetToBag(new) (+) SetToBag(vis)
  BY <1>0, <1>3
<1>5. /\ IsABag(C)
      /\ DOMAIN C = DOMAIN A \cup new \cup vis
      /\ \A e : Copies(e, C) = Copies(e, A) + One(e, new) + One(e, vis)
  <2>1. IsABag(A)
    BY <1>1, <1>3
  <2>2. Added(A, new, vis, C)
    BY <1>4, <2>1, JournalledTwice
  <2> QED
    BY <2>2 DEF Added
<1>6. Audited(audit', players', rows')
  BY <1>1, <1>2, <1>3, <1>5 DEF Audited
<1>7. \A e : Copies(e, A) \in Nat
  BY <1>1, <1>3 DEF IsABag, Copies
<1>8. \A e : Ledger!Times(e) = Copies(e, A) /\ Ledger!Times(e)' = Copies(e, C)
  BY <1>3 DEF Ledger!Times, Copies
<1>9. ASSUME NEW k
      PROVE  /\ Ledger!Inserts(k)' = Ledger!Inserts(k) + One(k, ins)
             /\ Ledger!Inserts(k) \in Nat
  <2>1. PICK e : e = <<k, "insert">>
    OBVIOUS
  <2>2. Copies(e, C) = Copies(e, A) + One(k, ins)
    BY <1>2, <1>5, <1>7, <2>1 DEF One
  <2>3. Ledger!Inserts(k) = Copies(e, A) /\ Ledger!Inserts(k)' = Copies(e, C)
    BY <1>8, <2>1 DEF Ledger!Inserts
  <2> QED
    BY <1>7, <2>2, <2>3
<1>10. \A e : Ledger!Times(e) <= Ledger!Times(e)'
  BY <1>5, <1>7, <1>8 DEF One
<1> QED
  BY <1>6, <1>9, <1>10 DEF Journals

\* A transaction that only inserts, or only visits.
LEMMA CommitsInsert ==
    ASSUME Inv, NEW k,
           DOMAIN players' \cup DOMAIN rows' = DOMAIN players \cup DOMAIN rows \cup {k},
           audit' = audit (+) SetToBag({<<k, "insert">>})
    PROVE  Journals({k})
<1>1. Entries({k}, "insert") = {<<k, "insert">>} /\ Entries({}, "skip") = {}
  BY DEF Entries
<1>2. PICK A, new : A = audit /\ new = {<<k, "insert">>}
  OBVIOUS
<1>3. A (+) SetToBag(new) (+) SetToBag({}) = A (+) SetToBag(new)
  <2>1. IsABag(A)
    BY <1>2 DEF Inv, Audited
  <2>2. IsABag(A (+) SetToBag(new))
    BY <2>1, Journalled
  <2> QED
    BY <2>2, NothingJournalled
<1>4. audit' = audit (+) SetToBag(Entries({k}, "insert")) (+) SetToBag(Entries({}, "skip"))
  BY <1>1, <1>2, <1>3
<1> QED
  <2>1. PICK ins, old : ins = {k} /\ old = {}
    OBVIOUS
  <2>2. /\ audit' = audit (+) SetToBag(Entries(ins, "insert")) (+) SetToBag(Entries(old, "skip"))
        /\ DOMAIN players' \cup DOMAIN rows' = DOMAIN players \cup DOMAIN rows \cup ins
        /\ old \subseteq DOMAIN players' \cup DOMAIN rows'
        /\ "skip" # "insert"
    BY <1>4, <2>1
  <2>3. Journals(ins)
    BY <2>2, Commits
  <2> QED
    BY <2>1, <2>3

LEMMA CommitsVisit ==
    ASSUME Inv, NEW k \in DOMAIN players \cup DOMAIN rows, NEW action, action # "insert",
           DOMAIN players' \cup DOMAIN rows' = DOMAIN players \cup DOMAIN rows,
           audit' = audit (+) SetToBag({<<k, action>>})
    PROVE  Journals({})
<1>1. Entries({k}, action) = {<<k, action>>} /\ Entries({}, "insert") = {}
  BY DEF Entries
<1>2. IsABag(audit)
  BY DEF Inv, Audited
<1>3. audit (+) SetToBag({}) = audit
  BY <1>2, NothingJournalled
<1>4. audit' = audit (+) SetToBag(Entries({}, "insert")) (+) SetToBag(Entries({k}, action))
  BY <1>1, <1>3
<1> QED
  <2>1. PICK ins, old : ins = {} /\ old = {k}
    OBVIOUS
  <2>2. /\ audit' = audit (+) SetToBag(Entries(ins, "insert")) (+) SetToBag(Entries(old, action))
        /\ DOMAIN players' \cup DOMAIN rows' = DOMAIN players \cup DOMAIN rows \cup ins
        /\ old \subseteq DOMAIN players' \cup DOMAIN rows'
        /\ action # "insert"
    BY <1>4, <2>1
  <2>3. Journals(ins)
    BY <2>2, Commits
  <2> QED
    BY <2>1, <2>3

\* Manifests on disk stay honest while tables and bucket grow.
LEMMA DiskLasts ==
    ASSUME NEW d, NEW R, NEW S, NEW R2, NEW S2, Disk(d, R, S),
           \A k \in DOMAIN R : k \in DOMAIN R2 /\ R2[k] = R[k],
           \A key \in DOMAIN S : key \in DOMAIN S2
                /\ \A f : SameObject(S[key], f) => SameObject(S2[key], f)
    PROVE  Disk(d, R2, S2)
  BY ClaimsLast DEF Disk

LEMMA RunningLasts ==
    ASSUME NEW p, NEW P, NEW P2, NEW R, NEW S, NEW R2, NEW S2, Running(p, P, R, S),
           DOMAIN P \subseteq DOMAIN P2,
           \A k \in DOMAIN R : k \in DOMAIN R2 /\ R2[k] = R[k],
           \A key \in DOMAIN S : key \in DOMAIN S2
                /\ \A f : SameObject(S[key], f) => SameObject(S2[key], f)
    PROVE  Running(p, P2, R2, S2)
<1>1. Honest(p.manifest, R2, S2)
  BY ClaimsLast DEF Running
<1> QED
  BY <1>1 DEF Running

\* A step that only adds to tables, bucket and audit trail.
LEMMA GrowthKeeps ==
    ASSUME Inv, disk' = disk, DOMAIN players \subseteq DOMAIN players',
           \A k \in DOMAIN rows : k \in DOMAIN rows' /\ rows'[k] = rows[k],
           \A key \in DOMAIN s3 : key \in DOMAIN s3'
                /\ \A f : SameObject(s3[key], f) => SameObject(s3'[key], f),
           Process(proc', players', rows', s3'),
           Keyed(players', rows', s3'),
           Audited(audit', players', rows')
    PROVE  Inv'
<1>1. Disk(disk, rows', s3')
  BY DiskLasts DEF Inv
<1>2. Disk(disk', rows', s3')
  BY <1>1
<1> QED
  BY <1>2 DEF Inv

\* The key of a row is never the key of a player.
LEMMA KeysDiffer ==
    ASSUME NEW r, NEW n, NEW d
    PROVE  NaturalKey(r) # <<"players", n, d>>
<1>1. CASE r.table = "lessons"
  BY <1>1 DEF NaturalKey
<1>2. CASE r.table # "lessons"
  BY <1>2 DEF NaturalKey
<1> QED
  BY <1>1, <1>2

\* The transaction that loads the players looks about.
Resolving == LoadPlayers \/ ReadNames \/ LookUpPlayer \/ InsertPlayer

LEMMA ResolvingKeeps == ASSUME Inv, Resolving PROVE Inv'
<1>1. PICK k : k = HeadKey
  OBVIOUS
<1>2. k = <<"players", k[2], k[3]>>
  BY <1>1 DEF HeadKey, DedupKey
<1>3. proc.pc # "idle" /\ UNCHANGED <<players, rows, audit, s3, disk>>
  BY DEF Resolving, LoadPlayers, ReadNames, LookUpPlayer, InsertPlayer, At, db, store
<1>4. Running(proc, players, rows, s3)
  BY <1>3, Busy
<1>5. \/ proc' = [proc EXCEPT !.pc = "names", !.todo = Groups]
      \/ proc' = [proc EXCEPT !.pc = "lookup"]
      \/ proc' = [proc EXCEPT !.todo = Tail(@)]
      \/ /\ k \in DOMAIN players
         /\ proc' = [proc EXCEPT !.pc = "names", !.todo = Tail(@), !.merged = @ \cup {k}]
      \/ proc' = [proc EXCEPT !.pc = "insert", !.created = @ \cup {k}]
      \/ proc' = [proc EXCEPT !.pc = "names", !.todo = Tail(@)]
  BY <1>1, Zenon DEF Resolving, LoadPlayers, ReadNames, LookUpPlayer, InsertPlayer
<1>6. /\ proc' = [x \in Fields |-> proc'[x]]
      /\ proc'.cmd = proc.cmd /\ proc'.manifest = proc.manifest
      /\ proc'.resolved = proc.resolved
      /\ \/ proc'.merged = proc.merged
         \/ k \in DOMAIN players /\ proc'.merged = proc.merged \cup {k}
      /\ proc'.created = proc.created \/ proc'.created = proc.created \cup {k}
  BY <1>4, <1>5 DEF Running, Fields
<1>7. Running(proc', players, rows, s3)
  <2>1. IsFiniteSet(proc.created) /\ IsFiniteSet(proc.created \cup {k})
    BY <1>4, FS_AddElement DEF Running
  <2> QED
    BY <1>2, <1>4, <1>6, <2>1 DEF Running
<1> QED
  BY <1>3, <1>7, GoesOnQuietly

LEMMA CommitPlayersKeeps == ASSUME Inv, CommitPlayers PROVE Inv' /\ Journals(proc.created)
<1>1. PICK new, old, keys : /\ new = proc.created /\ old = proc.merged
                            /\ keys = old \cup new
  OBVIOUS
<1>2. /\ proc.pc = "names"
      /\ DOMAIN players' = DOMAIN players \cup new
      /\ proc' = [proc EXCEPT !.pc = "index", !.resolved = keys,
                              !.merged = {}, !.created = {}, !.todo = NamingSchool]
      /\ UNCHANGED <<rows, s3, disk>>
  BY <1>1 DEF CommitPlayers, At, store
<1>3. audit' = audit (+) SetToBag(Entries(new, "insert")) (+) SetToBag(Entries(old, "update"))
  BY <1>1, Zenon DEF CommitPlayers, Entries
<1>4. Running(proc, players, rows, s3)
  BY <1>2, Busy
<1>5. /\ \A k \in new : k = <<"players", k[2], k[3]>>
      /\ old \subseteq DOMAIN players
  BY <1>1, <1>4 DEF Running
<1>6. Keyed(players, rows, s3)
  BY DEF Inv
<1>7. Keyed(players', rows', s3')
  BY <1>2, <1>5, <1>6 DEF Keyed
<1>8. Journals(new)
  <2>1. /\ DOMAIN players' \cup DOMAIN rows' = DOMAIN players \cup DOMAIN rows \cup new
        /\ old \subseteq DOMAIN players' \cup DOMAIN rows'
    BY <1>2, <1>5
  <2> QED
    BY <1>3, <2>1, Commits
<1>9. Running(proc', players', rows', s3')
  <2>1. /\ proc' = [x \in Fields |-> proc'[x]]
        /\ proc'.cmd = proc.cmd /\ proc'.manifest = proc.manifest
        /\ proc'.resolved = keys /\ proc'.merged = {} /\ proc'.created = {}
    BY <1>2, <1>4 DEF Running, Fields
  <2>2. keys \subseteq DOMAIN players'
    BY <1>1, <1>2, <1>5
  <2>3. IsFiniteSet({})
    BY FS_EmptySet
  <2> QED
    BY <1>2, <1>4, <2>1, <2>2, <2>3 DEF Running
<1>10. Audited(audit', players', rows')
  BY <1>8 DEF Journals
<1> QED
  BY <1>1, <1>2, <1>7, <1>8, <1>9, <1>10, GrowthKeeps DEF Process

\* The record at the head is marked.
LEMMA HeadMarked ==
    ASSUME Running(proc, players, rows, s3), NEW status, Done(status)
    PROVE  /\ Continues(proc', proc)
           /\ proc'.manifest = Mark(proc.manifest, {RecordId(Head(proc.todo))}, status)
<1> DEFINE m == Mark(proc.manifest, {RecordId(Head(proc.todo))}, status)
<1>1. proc' = [proc EXCEPT !.todo = Tail(proc.todo), !.manifest = m]
  BY DEF Done, Running, Fields
<1> HIDE DEF m
<1>2. Continues(proc', proc) /\ proc'.manifest = m
  BY <1>1 DEF Continues, Running, Fields
<1> QED
  BY <1>2 DEF m

LEMMA FlaggedKeeps ==
    ASSUME Inv, proc.pc # "idle", UNCHANGED <<players, rows, audit, s3, disk>>, Done("flagged")
    PROVE  Inv'
<1>1. Running(proc, players, rows, s3)
  BY Busy
<1>2. /\ Continues(proc', proc)
      /\ proc'.manifest = Mark(proc.manifest, {RecordId(Head(proc.todo))}, "flagged")
  BY <1>1, HeadMarked
<1>3. Honest(proc'.manifest, rows, s3)
  BY <1>1, <1>2, MarkHarmless DEF Running
<1>4. Running(proc', players, rows, s3)
  BY <1>1, <1>2, <1>3, MovesOn
<1> QED
  BY <1>4, GoesOnQuietly

LEMMA AttachSchoolKeeps ==
    ASSUME Inv, AttachSchool
    PROVE  /\ Inv' /\ UNCHANGED <<DOMAIN players, rows, asking>>
           /\ UNCHANGED audit \/ Journals({})
<1>1. proc.pc # "idle" /\ UNCHANGED <<rows, asking, s3, disk>>
  BY DEF AttachSchool, At, store
<1>2. Running(proc, players, rows, s3)
  BY <1>1, Busy
<1>3. PICK k : k = DedupKey(Head(proc.todo))
  OBVIOUS
<1>4. CASE proc' = [proc EXCEPT !.todo = Tail(@)] /\ UNCHANGED <<players, audit>>
  <2>1. Continues(proc', proc) /\ proc'.manifest = proc.manifest
    BY <1>2, <1>4 DEF Continues, Running, Fields
  <2> QED
    BY <1>1, <1>4, <2>1, SameManifest
<1>5. CASE /\ k \in proc.resolved
           /\ DOMAIN players' = DOMAIN players
           /\ audit' = audit (+) SetToBag({<<k, "update">>})
           /\ proc' = [proc EXCEPT !.todo = Tail(@)]
  <2>1. Continues(proc', proc) /\ proc'.manifest = proc.manifest
    BY <1>2, <1>5 DEF Continues, Running, Fields
  <2>2. Running(proc', players, rows, s3)
    BY <1>2, <2>1, MovesOn DEF Running
  <2>3. Running(proc', players', rows', s3')
    BY <1>1, <1>5, <2>2 DEF Running
  <2>4. k \in DOMAIN players \cup DOMAIN rows
    BY <1>2, <1>5 DEF Running
  <2>5. Journals({}) /\ Audited(audit', players', rows')
    BY <1>1, <1>5, <2>4, CommitsVisit DEF Journals
  <2>6. Keyed(players', rows', s3')
    BY <1>1, <1>5 DEF Inv, Keyed
  <2> QED
    BY <1>1, <1>5, <2>3, <2>5, <2>6, GrowthKeeps DEF Process
<1>6. CASE Done("flagged") /\ UNCHANGED <<players, audit>>
  BY <1>1, <1>6, FlaggedKeeps
<1> QED
  BY <1>3, <1>4, <1>5, <1>6 DEF AttachSchool

LEMMA NotLoadedKeeps == ASSUME Inv, LoadOneUnresolved \/ LoadOneFails PROVE Inv'
<1>1. proc.pc # "idle" /\ UNCHANGED <<players, rows, audit, s3, disk>>
  BY DEF LoadOneUnresolved, LoadOneFails, At, db, store
<1>2. Done("flagged") \/ Halt
  BY DEF LoadOneUnresolved, LoadOneFails
<1> QED
  BY <1>1, <1>2, FlaggedKeeps, HaltKeeps

\* A row with the natural key of r is of its table and its file.
LEMMA SameKey ==
    ASSUME NEW r, NEW q, NaturalKey(r) = NaturalKey(q)
    PROVE  NaturalKey(r)[1] = r.table /\ r.table = q.table /\ r.file = q.file
<1>1. NaturalKey(r)[1] = r.table /\ NaturalKey(q)[1] = q.table
  BY DEF NaturalKey
<1>2. CASE r.table = "lessons"
  BY <1>1, <1>2 DEF NaturalKey
<1>3. CASE r.table # "lessons"
  BY <1>1, <1>3 DEF NaturalKey
<1> QED
  BY <1>1, <1>2, <1>3

LEMMA SkippedKeeps ==
    ASSUME Inv, proc.pc # "idle", UNCHANGED <<players, rows, s3, disk>>,
           NEW r, r = Head(proc.todo), NaturalKey(r) \in DOMAIN rows,
           audit' = audit (+) SetToBag({<<NaturalKey(r), "skip">>}), Done("skipped")
    PROVE  Inv' /\ Journals({})
<1>1. Running(proc, players, rows, s3)
  BY Busy
<1>2. Keyed(players, rows, s3)
  BY DEF Inv
<1>3. /\ Continues(proc', proc)
      /\ proc'.manifest = Mark(proc.manifest, {RecordId(r)}, "skipped")
  BY <1>1, HeadMarked
<1>4. \E k \in DOMAIN rows : k[1] = RecordId(r)[2] /\ rows[k].record.file = RecordId(r)[1]
  <2>1. PICK k \in DOMAIN rows : k = NaturalKey(r) /\ k = NaturalKey(rows[k].record)
    BY <1>2 DEF Keyed
  <2>2. k[1] = r.table /\ rows[k].record.file = r.file
    BY <2>1, SameKey
  <2> QED
    BY <2>2 DEF RecordId
<1>5. Honest(proc'.manifest, rows, s3)
  BY <1>1, <1>3, <1>4, MarkTrue DEF Running
<1>6. Running(proc', players, rows, s3)
  BY <1>1, <1>3, <1>5, MovesOn
<1>7. Running(proc', players', rows', s3')
  BY <1>6
<1>8. Journals({}) /\ Audited(audit', players', rows')
  BY CommitsVisit DEF Journals
<1>9. Keyed(players', rows', s3')
  BY <1>2
<1> QED
  BY <1>7, <1>8, <1>9, GrowthKeeps DEF Process

LEMMA LoadedKeeps ==
    ASSUME Inv, proc.pc # "idle", UNCHANGED <<players, s3, disk>>,
           NEW r, r = Head(proc.todo), NaturalKey(r) \notin DOMAIN rows,
           NEW row, row.record = r, rows' = With(rows, NaturalKey(r), row),
           audit' = audit (+) SetToBag({<<NaturalKey(r), "insert">>}), Done("loaded")
    PROVE  Inv' /\ Journals({NaturalKey(r)}) /\ NaturalKey(r) \notin DOMAIN players
<1>1. Running(proc, players, rows, s3)
  BY Busy
<1>2. Keyed(players, rows, s3)
  BY DEF Inv
<1>3. PICK k, R2 : k = NaturalKey(r) /\ R2 = rows'
  OBVIOUS
<1>4. /\ DOMAIN R2 = DOMAIN rows \cup {k}
      /\ R2[k] = row
      /\ \A x \in DOMAIN rows : R2[x] = rows[x]
  BY <1>3 DEF With
<1>5. /\ Continues(proc', proc)
      /\ proc'.manifest = Mark(proc.manifest, {RecordId(r)}, "loaded")
  BY <1>1, HeadMarked
<1>6. Honest(proc.manifest, R2, s3)
  BY <1>1, <1>4, ClaimsLast DEF Running
<1>7. \E x \in DOMAIN R2 : RecordId(R2[x].record) = RecordId(r)
  BY <1>4
<1>8. Honest(proc'.manifest, R2, s3)
  BY <1>5, <1>6, <1>7, MarkTrue
<1>9. Running(proc, players, R2, s3)
  BY <1>1, <1>6 DEF Running
<1>10. Running(proc', players, R2, s3)
  BY <1>5, <1>8, <1>9, MovesOn
<1>11. Running(proc', players', rows', s3')
  BY <1>3, <1>10
<1>12. Keyed(players', rows', s3')
  BY <1>2, <1>3, <1>4 DEF Keyed
<1>13. Journals({k}) /\ Audited(audit', players', rows') /\ k \notin DOMAIN players
  <2>1. k \notin DOMAIN players
    BY <1>2, <1>3, KeysDiffer DEF Keyed
  <2>2. DOMAIN players' \cup DOMAIN rows' = DOMAIN players \cup DOMAIN rows \cup {k}
    BY <1>3, <1>4
  <2>3. Journals({k})
    BY <1>3, <2>2, CommitsInsert
  <2> QED
    BY <2>1, <2>3 DEF Journals
<1>14. \A x \in DOMAIN rows : x \in DOMAIN rows' /\ rows'[x] = rows[x]
  BY <1>3, <1>4
<1> QED
  BY <1>3, <1>11, <1>12, <1>13, <1>14, GrowthKeeps DEF Process

LEMMA LoadOneKeeps ==
    ASSUME Inv, LoadOne
    PROVE  Inv' /\ \E ins : ins \cap (DOMAIN players \cup DOMAIN rows) = {} /\ Journals(ins)
<1>1. proc.pc # "idle" /\ UNCHANGED <<players, s3, disk>>
  BY DEF LoadOne, At, store
<1>2. PICK r : r = Head(proc.todo)
  OBVIOUS
<1>3. PICK lesson : InsertOrSkip(r, lesson)
  BY <1>2 DEF LoadOne
<1>4. CASE NaturalKey(r) \in DOMAIN rows
  <2>1. /\ audit' = audit (+) SetToBag({<<NaturalKey(r), "skip">>})
        /\ Done("skipped")
        /\ UNCHANGED rows
    BY <1>3, <1>4 DEF InsertOrSkip
  <2>2. Inv' /\ Journals({})
    BY <1>1, <1>2, <1>4, <2>1, SkippedKeeps
  <2> QED
    BY <2>2
<1>5. CASE NaturalKey(r) \notin DOMAIN rows
  <2>1. PICK row : row = Row(r, lesson)
    OBVIOUS
  <2>2. row.record = r
    BY <2>1 DEF Row
  <2>3. /\ rows' = With(rows, NaturalKey(r), row)
        /\ audit' = audit (+) SetToBag({<<NaturalKey(r), "insert">>})
        /\ Done("loaded")
    BY <1>3, <1>5, <2>1 DEF InsertOrSkip
  <2>4. Inv' /\ Journals({NaturalKey(r)}) /\ NaturalKey(r) \notin DOMAIN players
    BY <1>1, <1>2, <1>5, <2>2, <2>3, LoadedKeeps
  <2> QED
    BY <1>5, <2>4
<1> QED
  BY <1>4, <1>5

\* An object that is replaced is of the same directory and file name.
LEMMA PutKeepsObjects ==
    ASSUME NEW P, NEW R, NEW S, Keyed(P, R, S), NEW f
    PROVE  LET T == With(S, ArchiveKey(f), f)
           IN  /\ Keyed(P, R, T)
               /\ \E key \in DOMAIN T : SameObject(T[key], f)
               /\ \A key \in DOMAIN S : key \in DOMAIN T
                     /\ \A g : SameObject(S[key], g) => SameObject(T[key], g)
<1> DEFINE T == With(S, ArchiveKey(f), f)
<1>1. /\ DOMAIN T = DOMAIN S \cup {ArchiveKey(f)}
      /\ T[ArchiveKey(f)] = f
      /\ \A key \in DOMAIN S : key # ArchiveKey(f) => T[key] = S[key]
  BY DEF With
<1> HIDE DEF T
<1>2. Keyed(P, R, T)
  BY <1>1 DEF Keyed
<1>3. \E key \in DOMAIN T : SameObject(T[key], f)
  BY <1>1 DEF SameObject
<1>4. ASSUME NEW key \in DOMAIN S, NEW g, SameObject(S[key], g)
      PROVE  SameObject(T[key], g)
  <2>1. CASE key # ArchiveKey(f)
    BY <1>1, <1>4, <2>1
  <2>2. CASE key = ArchiveKey(f)
    <3>1. ArchiveKey(S[key]) = ArchiveKey(f) /\ T[key] = f
      BY <1>1, <2>2 DEF Keyed
    <3>2. SameObject(S[key], f)
      BY <3>1 DEF ArchiveKey, SameObject
    <3> QED
      BY <1>4, <3>1, <3>2 DEF SameObject
  <2> QED
    BY <2>1, <2>2
<1> QED
  BY <1>1, <1>2, <1>3, <1>4 DEF T

LEMMA PutKeeps ==
    ASSUME Inv, proc.pc # "idle", UNCHANGED <<players, rows, audit, disk>>,
           NEW f, Put(f),
           proc' = NoProcess
           \/ /\ Continues(proc', proc)
              /\ \/ proc'.manifest = proc.manifest
                 \/ proc'.manifest = SetFiles(proc.manifest, {f}, "archive", "done")
    PROVE  Inv'
<1>1. Running(proc, players, rows, s3)
  BY Busy
<1>2. PICK S2 : S2 = s3'
  OBVIOUS
<1>3. /\ Keyed(players, rows, S2)
      /\ \E key \in DOMAIN S2 : SameObject(S2[key], f)
      /\ \A key \in DOMAIN s3 : key \in DOMAIN S2
            /\ \A g : SameObject(s3[key], g) => SameObject(S2[key], g)
  <2>1. Keyed(players, rows, s3)
    BY DEF Inv
  <2>2. S2 = With(s3, ArchiveKey(f), f)
    BY <1>2 DEF Put
  <2> QED
    BY <2>1, <2>2, PutKeepsObjects
<1>4. Running(proc, players, rows, S2)
  BY <1>1, <1>3, RunningLasts
<1>5. Process(proc', players, rows, S2)
  <2>1. CASE /\ Continues(proc', proc)
             /\ \/ proc'.manifest = proc.manifest
                \/ proc'.manifest = SetFiles(proc.manifest, {f}, "archive", "done")
    <3>1. Honest(proc'.manifest, rows, S2)
      BY <1>3, <1>4, <2>1, ArchiveTrue DEF Running
    <3> QED
      BY <1>4, <2>1, <3>1, MovesOn DEF Process
  <2> QED
    BY <2>1 DEF Process
<1>6. Process(proc', players', rows', s3') /\ Keyed(players', rows', s3')
  BY <1>2, <1>3, <1>5
<1>7. Audited(audit', players', rows')
  BY DEF Inv
<1>8. \A key \in DOMAIN s3 : key \in DOMAIN s3'
            /\ \A g : SameObject(s3[key], g) => SameObject(s3'[key], g)
  BY <1>2, <1>3
<1> QED
  BY <1>6, <1>7, <1>8, GrowthKeeps

LEMMA ArchiveFileKeeps == ASSUME Inv, ArchiveFile PROVE Inv'
<1>1. PICK f : f = Head(proc.todo)
  OBVIOUS
<1> DEFINE m == SetFiles(proc.manifest, {f}, "archive", "done")
<1>2. proc.pc # "idle" /\ UNCHANGED <<players, rows, audit, disk>> /\ Put(f)
  BY <1>1 DEF ArchiveFile, At, db
<1>3. Running(proc, players, rows, s3)
  BY <1>2, Busy
<1>4. proc' = [proc EXCEPT !.todo = Tail(proc.todo), !.attempt = 1, !.manifest = m]
  BY <1>1, <1>3 DEF ArchiveFile, Running, Fields
<1> HIDE DEF m
<1>5. Continues(proc', proc) /\ proc'.manifest = m
  BY <1>3, <1>4 DEF Continues, Running, Fields
<1> QED
  BY <1>2, <1>5, PutKeeps DEF m

LEMMA ArchiveFailsKeeps == ASSUME Inv, ArchiveFails PROVE Inv'
<1>1. PICK f : f = Head(proc.todo)
  OBVIOUS
<1>2. /\ proc.pc # "idle" /\ UNCHANGED <<players, rows, audit, disk>>
      /\ UNCHANGED s3 \/ Put(f)
      /\ Goto("backoff") \/ Halt
  BY <1>1 DEF ArchiveFails, At, db
<1>3. Running(proc, players, rows, s3)
  BY <1>2, Busy
<1>4. CASE UNCHANGED s3
  BY <1>2, <1>4, GotoKeeps, HaltKeeps
<1>5. CASE Put(f)
  <2>1. CASE Goto("backoff")
    <3>1. Continues(proc', proc) /\ proc'.manifest = proc.manifest
      BY <1>3, <2>1 DEF Goto, Continues, Running, Fields
    <3> QED
      BY <1>2, <1>5, <3>1, PutKeeps
  <2>2. CASE Halt
    BY <1>2, <1>5, <2>2, PutKeeps DEF Halt
  <2> QED
    BY <1>2, <2>1, <2>2
<1> QED
  BY <1>2, <1>4, <1>5

LEMMA ApiRegisterKeeps ==
    ASSUME Inv, NEW k \in ApiPlayers, ApiRegister(k)
    PROVE  Inv' /\ Journals({k})
<1>1. PICK P2 : P2 = players'
  OBVIOUS
<1>2. /\ DOMAIN P2 = DOMAIN players \cup {k}
      /\ audit' = audit (+) SetToBag({<<k, "insert">>})
      /\ UNCHANGED <<proc, rows, s3, disk>>
  BY <1>1 DEF ApiRegister, With, store
<1>3. k = <<"players", k[2], k[3]>>
  BY PipelineAssumption
<1>4. Keyed(players, rows, s3)
  BY DEF Inv
<1>5. Keyed(players', rows', s3')
  BY <1>1, <1>2, <1>3, <1>4 DEF Keyed
<1>6. Journals({k})
  <2>1. DOMAIN players' \cup DOMAIN rows' = DOMAIN players \cup DOMAIN rows \cup {k}
    BY <1>1, <1>2
  <2> QED
    BY <1>2, <2>1, CommitsInsert
<1>7. Process(proc', players', rows', s3')
  <2>1. Process(proc, players, rows, s3)
    BY DEF Inv
  <2>2. Process(proc, P2, rows, s3)
    BY <1>2, <2>1 DEF Process, Running
  <2> QED
    BY <1>1, <1>2, <2>2
<1>8. Audited(audit', players', rows')
  BY <1>6 DEF Journals
<1> QED
  BY <1>1, <1>2, <1>5, <1>6, <1>7, <1>8, GrowthKeeps

-----------------------------------------------------------------------------
(* The whole.                                                              *)

LEMMA InitHolds == Init => Inv
<1> SUFFICES ASSUME Init PROVE Inv
  OBVIOUS
<1>1. Process(proc, players, rows, s3)
  BY DEF Init, Process
<1>2. Disk(disk, rows, s3)
  BY DEF Init, Disk
<1>3. Keyed(players, rows, s3)
  BY DEF Init, Keyed
<1>4. Audited(audit, players, rows)
  BY DEF Init, Audited, EmptyBag, SetToBag, IsABag
<1> QED
  BY <1>1, <1>2, <1>3, <1>4 DEF Inv

\* The steps that touch neither a table nor the audit trail.
OutsideTheDatabase ==
    \/ \E c \in Commands : StartRun(c)
    \/ Connect \/ ConnectFails \/ Save \/ Collect
    \/ ExtractImages \/ ImagesFail \/ Retry
    \/ ExtractDocument \/ DocumentFails \/ EndExtract
    \/ Validate \/ ValidateBlind
    \/ LoadPlayers \/ ReadNames \/ LookUpPlayer \/ InsertPlayer
    \/ NoLocation \/ LoadAborts \/ BuildIndex \/ EndSchools
    \/ LoadOneUnresolved \/ LoadOneFails \/ EndLoad
    \/ NoBucket \/ ArchiveFile \/ ArchiveFails \/ EndArchive
    \/ Exit \/ Crash

LEMMA OutsideKeeps ==
    ASSUME Inv, OutsideTheDatabase
    PROVE  Inv' /\ UNCHANGED <<players, rows, audit, asking>>
<1>1. UNCHANGED <<players, rows, audit, asking>>
  BY DEF OutsideTheDatabase, StartRun, Connect, ConnectFails, Save, Collect, ExtractImages,
         ImagesFail, Retry, ExtractDocument, DocumentFails, EndExtract, Validate,
         ValidateBlind, ValidateWith, LoadPlayers, ReadNames, LookUpPlayer, InsertPlayer,
         NoLocation, LoadAborts, BuildIndex, EndSchools,
         LoadOneUnresolved, LoadOneFails, EndLoad, NoBucket, ArchiveFile, ArchiveFails,
         EndArchive, Exit, Crash, db
<1>2. Inv'
  BY StartRunKeeps, ConnectKeeps, SaveKeeps, CollectKeeps, ExtractImagesKeeps,
     ImagesFailKeeps, RetryKeeps, DocumentKeeps, EndExtractKeeps, ValidateKeeps,
     ResolvingKeeps, LostRunKeeps, BuildIndexKeeps, EndSchoolsKeeps, NotLoadedKeeps,
     StageEndKeeps, ArchiveFileKeeps, ArchiveFailsKeeps, ExitKeeps
  DEF OutsideTheDatabase, Resolving
<1> QED
  BY <1>1, <1>2

LEMMA StepHolds == Inv /\ [Next]_vars => Inv'
<1> SUFFICES ASSUME Inv, [Next]_vars
             PROVE  Inv'
  OBVIOUS
<1>1. CASE OutsideTheDatabase
  BY <1>1, OutsideKeeps
<1>2. CASE CommitPlayers
  BY <1>2, CommitPlayersKeeps
<1>3. CASE AttachSchool
  BY <1>3, AttachSchoolKeeps
<1>4. CASE LoadOne
  BY <1>4, LoadOneKeeps
<1>5. CASE \E k \in ApiPlayers : ApiRegister(k)
  BY <1>5, ApiRegisterKeeps
<1>6. CASE \E k \in ApiPlayers : ApiLookUp(k)
  BY <1>6 DEF ApiLookUp, store, Inv
<1>7. CASE UNCHANGED vars
  BY <1>7 DEF vars, db, store, Inv
<1> QED
  BY <1>1, <1>2, <1>3, <1>4, <1>5, <1>6, <1>7 DEF Next, Step, OutsideTheDatabase

\* The invariant of the pipeline: manifests in memory and on disk claim what
\* tables and bucket bear out, and every key and audit entry has its row.
THEOREM Inductive == Spec => []Inv
  BY InitHolds, StepHolds, PTL DEF Spec

\* A saved manifest claims no more than the database bears out, whatever crashes
\* and whichever command lines run one after the other (run_pipeline's saves,
\* _run_load).
THEOREM ManifestsNeverAhead == Spec => []ManifestNeverAhead
<1>1. Inv => ManifestNeverAhead
  BY DEF Inv, Disk, Honest, Recorded, ManifestNeverAhead
<1> QED
  BY <1>1, Inductive, PTL

\* What a saved manifest calls archived is in the bucket, under its directory and
\* file name, through lost answers, retries and later runs (_run_archive,
\* archive_file).
THEOREM OriginalsArchived == Spec => []OriginalsStayArchived
<1>1. Inv => OriginalsStayArchived
  BY DEF Inv, Disk, Honest, Stored, OriginalsStayArchived
<1> QED
  BY <1>1, Inductive, PTL

-----------------------------------------------------------------------------
(* Numbers and sequences.  The library's induction theorems take an operator*)
(* as a parameter, which the provers cannot instantiate: a fact about every*)
(* length is proved with the set of the lengths it holds for, which has 0 and*)
(* the successor of each of its members.                                   *)

\* A set of numbers that has 0 and with every number the next one has them all.
LEMMA EveryNatural ==
    ASSUME NEW T, 0 \in T, \A n \in Nat : n \in T => n + 1 \in T
    PROVE  \A n \in Nat : n \in T
<1> SUFFICES ASSUME NEW n \in Nat, n \notin T PROVE FALSE
  OBVIOUS
<1> DEFINE family == {0..k : k \in (0..n) \ T}
<1>1. IsFiniteSet(0..n) /\ family \in SUBSET SUBSET (0..n) /\ family # {}
  <2>1. IsFiniteSet(0..n)
    <3>1. 0 \in Int /\ n \in Int
      OBVIOUS
    <3> QED
      BY ONLY <3>1, FS_Interval
  <2>2. 0..n \in family
    OBVIOUS
  <2>3. family \in SUBSET SUBSET (0..n)
    OBVIOUS
  <2> QED
    BY <2>1, <2>2, <2>3
<1>2. family \subseteq FiniteSubsetsOf(0..n)
  BY <1>1, FS_Subset DEF FiniteSubsetsOf
<1> HIDE DEF family
<1>3. PICK F \in family : \A G \in family : ~(<<G, F>> \in StrictSubsetOrdering(0..n))
  BY <1>1, <1>2, FS_StrictSubsetOrderingWellFounded, WFMin
<1> USE DEF family
<1>4. PICK k \in (0..n) \ T : F = 0..k
  OBVIOUS
<1>5. k # 0 /\ k - 1 \in Nat /\ k - 1 \in 0..n
  OBVIOUS
<1>6. CASE k - 1 \in T
  BY <1>5, <1>6
<1>7. CASE k - 1 \notin T
  <2>1. 0..(k - 1) \in family
    BY <1>5, <1>7
  <2>2. 0..(k - 1) \subseteq F /\ 0..(k - 1) # F /\ F \subseteq 0..n
    <3>1. k \in F /\ k \notin 0..(k - 1)
      BY <1>4, <1>5
    <3> QED
      BY <3>1, <1>4, <1>5
  <2>3. <<0..(k - 1), F>> \in StrictSubsetOrdering(0..n)
    BY <2>2 DEF StrictSubsetOrdering
  <2> QED
    BY <1>3, <2>1, <2>3
<1> QED
  BY <1>6, <1>7

\* kept collects the elements of s that are in S.
Keeps(kept, s, S) ==
    kept = [n \in 0..Len(s) |->
              IF n = 0 THEN <<>>
              ELSE IF s[n] \in S THEN Append(kept[n - 1], s[n]) ELSE kept[n - 1]]

\* What is kept of a sequence are its elements that are in S.
LEMMA OnlyKeeps ==
    ASSUME NEW s, NEW S, IsSequence(s)
    PROVE  \E kept : Keeps(kept, s, S) /\ Only(s, S) = kept[Len(s)]
<1> DEFINE up(g, n) == IF n = 0 THEN <<>>
                       ELSE IF s[n] \in S THEN Append(g[n - 1], s[n]) ELSE g[n - 1]
           T == {m \in Nat : \E g : g = [n \in 0..m |-> up(g, n)]}
<1>1. 0 \in T
  <2>1. [n \in 0..0 |-> <<>>] = [n \in 0..0 |-> up([k \in 0..0 |-> <<>>], n)]
    OBVIOUS
  <2> HIDE DEF up
  <2> QED
    BY <2>1
<1>2. ASSUME NEW m \in Nat, m \in T PROVE m + 1 \in T
  <2>1. PICK g : g = [n \in 0..m |-> up(g, n)]
    BY <1>2
  <2> DEFINE h == [n \in 0..m + 1 |-> IF n = m + 1 THEN up(g, n) ELSE g[n]]
  <2>2. ASSUME NEW n \in 0..m + 1 PROVE h[n] = up(h, n)
    <3>1. CASE n = 0
      BY <2>1, <3>1
    <3>2. CASE n # 0
      <4>1. n - 1 \in 0..m /\ h[n - 1] = g[n - 1]
        BY <3>2
      <4>2. up(h, n) = up(g, n)
        BY <4>1
      <4>3. h[n] = up(g, n)
        <5> HIDE DEF up
        <5> QED
          BY <2>1
      <4> QED
        BY <4>2, <4>3
    <3> QED
      BY <3>1, <3>2
  <2> HIDE DEF up
  <2>3. h = [n \in 0..m + 1 |-> up(h, n)]
    BY <2>2
  <2> HIDE DEF h
  <2>4. m + 1 \in Nat
    OBVIOUS
  <2> QED
    BY <2>3, <2>4
<1> HIDE DEF up
<1>3. Len(s) \in Nat
  BY DEF IsSequence
<1>4. Len(s) \in T
  <2>1. \A m \in Nat : m \in T => m + 1 \in T
    BY <1>2
  <2> HIDE DEF T
  <2> QED
    BY <1>1, <1>3, <2>1, EveryNatural
<1> DEFINE kept == CHOOSE g : g = [n \in 0..Len(s) |-> up(g, n)]
<1>5. kept = [n \in 0..Len(s) |-> up(kept, n)]
  BY <1>4
<1> USE DEF up
<1>6. Keeps(kept, s, S)
  BY <1>5 DEF Keeps
<1>7. Only(s, S) = kept[Len(s)]
  BY DEF Only
<1> QED
  BY <1>6, <1>7

\* What was kept of the first elements: those in S, and each after every element
\* of S that stood before it.
Sifted(out, s, S, n) ==
    /\ out \in Seq(ToSet(s) \cap S)
    /\ \A i \in 1..n : s[i] \in S => \E p \in 1..Len(out) : out[p] = s[i]
    /\ \A p \in 1..Len(out) : \E q \in 1..n :
          /\ out[p] = s[q]
          /\ \A i \in 1..q - 1 : s[i] \in S => \E j \in 1..p - 1 : out[j] = s[i]

\* The order of what is kept is that of the sequence.
LEMMA OnlySifts ==
    ASSUME NEW s, NEW S, IsSequence(s)
    PROVE  Sifted(Only(s, S), s, S, Len(s))
<1>1. PICK kept : Keeps(kept, s, S) /\ Only(s, S) = kept[Len(s)]
  BY OnlyKeeps
<1>2. Len(s) \in Nat /\ \A n \in 1..Len(s) : s[n] \in ToSet(s)
  BY DEF IsSequence, ToSet
<1> DEFINE T == {n \in Nat : n =< Len(s) => Sifted(kept[n], s, S, n)}
<1>3. 0 \in T
  <2>1. kept[0] = <<>>
    BY <1>1, <1>2 DEF Keeps
  <2>2. ASSUME NEW out, out = <<>> PROVE Sifted(out, s, S, 0)
    <3>1. out \in Seq(ToSet(s) \cap S) /\ Len(out) = 0
      BY <2>2
    <3> QED
      BY <3>1 DEF Sifted
  <2> QED
    BY <2>1, <2>2
<1>4. ASSUME NEW n \in Nat, n \in T PROVE n + 1 \in T
  <2> SUFFICES ASSUME n + 1 =< Len(s) PROVE Sifted(kept[n + 1], s, S, n + 1)
    OBVIOUS
  <2>1. Sifted(kept[n], s, S, n)
    BY <1>2, <1>4
  <2>2. kept[n + 1] = IF s[n + 1] \in S THEN Append(kept[n], s[n + 1]) ELSE kept[n]
    <3>1. \A i \in 1..Len(s) :
             kept[i] = IF s[i] \in S THEN Append(kept[i - 1], s[i]) ELSE kept[i - 1]
      <4> SUFFICES ASSUME NEW i \in 1..Len(s)
                   PROVE  kept[i] = IF s[i] \in S THEN Append(kept[i - 1], s[i]) ELSE kept[i - 1]
        OBVIOUS
      <4>1. i \in 0..Len(s) /\ i # 0
        BY <1>2
      <4>2. kept[i] = IF i = 0 THEN <<>>
                      ELSE IF s[i] \in S THEN Append(kept[i - 1], s[i]) ELSE kept[i - 1]
        BY <1>1, <4>1, Zenon DEF Keeps
      <4> QED
        BY <4>1, <4>2, Zenon
    <3>2. n + 1 \in 1..Len(s) /\ (n + 1) - 1 = n
      BY <1>2
    <3> QED
      BY <3>1, <3>2
  <2>3. PICK out, x : out = kept[n] /\ x = s[n + 1]
    OBVIOUS
  <2>4. CASE x \notin S
    <3>1. Sifted(out, s, S, n) /\ kept[n + 1] = out
      BY <2>1, <2>2, <2>3, <2>4
    <3>2. \A i \in 1..n + 1 : i \in 1..n \/ i = n + 1
      OBVIOUS
    <3> QED
      BY <2>3, <2>4, <3>1, <3>2 DEF Sifted
  <2>5. CASE x \in S
    <3>1. out \in Seq(ToSet(s) \cap S) /\ x \in ToSet(s) \cap S
      BY <1>2, <2>1, <2>3, <2>5 DEF Sifted
    <3>2. kept[n + 1] = Append(out, x)
      BY <2>2, <2>3, <2>5
    <3> DEFINE new == Append(out, x)
    <3>3. /\ new \in Seq(ToSet(s) \cap S) /\ Len(out) \in Nat /\ Len(new) = Len(out) + 1
          /\ \A p \in 1..Len(out) : new[p] = out[p]
          /\ new[Len(out) + 1] = x
      BY <3>1
    <3> HIDE DEF new
    <3>4. ASSUME NEW i \in 1..n + 1, s[i] \in S PROVE \E p \in 1..Len(new) : new[p] = s[i]
      <4>1. CASE i = n + 1
        BY <2>3, <3>3, <4>1
      <4>2. CASE i \in 1..n
        <5>1. PICK p \in 1..Len(out) : out[p] = s[i]
          BY <2>1, <2>3, <3>4, <4>2 DEF Sifted
        <5> QED
          BY <3>3, <5>1
      <4> QED
        BY <4>1, <4>2
    <3>5. ASSUME NEW p \in 1..Len(new)
          PROVE  \E q \in 1..n + 1 :
                    /\ new[p] = s[q]
                    /\ \A i \in 1..q - 1 : s[i] \in S => \E j \in 1..p - 1 : new[j] = s[i]
      <4>1. CASE p = Len(out) + 1
        <5>1. new[p] = s[n + 1]
          BY <2>3, <3>3, <4>1
        <5>2. ASSUME NEW i \in 1..n, s[i] \in S PROVE \E j \in 1..p - 1 : new[j] = s[i]
          <6>1. PICK j \in 1..Len(out) : out[j] = s[i]
            BY <2>1, <2>3, <5>2 DEF Sifted
          <6> QED
            BY <3>3, <4>1, <6>1
        <5>3. (n + 1) - 1 = n /\ n + 1 \in 1..n + 1
          OBVIOUS
        <5> QED
          BY <5>1, <5>2, <5>3
      <4>2. CASE p \in 1..Len(out)
        <5>1. PICK q \in 1..n :
                 /\ out[p] = s[q]
                 /\ \A i \in 1..q - 1 : s[i] \in S => \E j \in 1..p - 1 : out[j] = s[i]
          BY <2>1, <2>3, <4>2 DEF Sifted
        <5>2. \A j \in 1..p - 1 : j \in 1..Len(out)
          BY <3>3, <4>2
        <5> QED
          BY <3>3, <4>2, <5>1, <5>2
      <4> QED
        BY <3>3, <4>1, <4>2
    <3>6. Sifted(new, s, S, n + 1)
      BY <3>3, <3>4, <3>5 DEF Sifted
    <3> QED
      BY <3>2, <3>6 DEF new
  <2> QED
    BY <2>4, <2>5
<1>5. Len(s) \in T
  <2>1. \A n \in Nat : n \in T => n + 1 \in T
    BY <1>4
  <2> HIDE DEF T
  <2> QED
    BY <1>2, <1>3, <2>1, EveryNatural
<1> QED
  BY <1>1, <1>2, <1>5

\* A part of a sequence is a sequence of the elements selected.
LEMMA OnlyHas ==
    ASSUME NEW s, NEW S, IsSequence(s)
    PROVE  /\ IsSequence(Only(s, S))
           /\ ToSet(Only(s, S)) = ToSet(s) \cap S
<1>1. Sifted(Only(s, S), s, S, Len(s))
  BY OnlySifts
<1>2. PICK out : out = Only(s, S)
  OBVIOUS
<1>3. out \in Seq(ToSet(s) \cap S) /\ DOMAIN out = 1..Len(out) /\ Len(out) \in Nat
  BY <1>1, <1>2 DEF Sifted
<1>4. s \in Seq(ToSet(s)) /\ DOMAIN s = 1..Len(s)
  BY DEF IsSequence
<1>5. ToSet(out) \subseteq ToSet(s) \cap S
  BY <1>3 DEF ToSet
<1>6. ASSUME NEW x \in ToSet(s) \cap S PROVE x \in ToSet(out)
  <2>1. PICK i \in 1..Len(s) : x = s[i]
    BY <1>4 DEF ToSet
  <2>2. PICK p \in 1..Len(out) : out[p] = s[i]
    BY <1>1, <1>2, <2>1 DEF Sifted
  <2> QED
    BY <1>3, <2>1, <2>2 DEF ToSet
<1>7. out \in Seq(ToSet(out))
  <2>1. \A i \in 1..Len(out) : out[i] \in ToSet(out)
    BY <1>3 DEF ToSet
  <2> QED
    BY <1>3, <2>1
<1> QED
  BY <1>2, <1>5, <1>6, <1>7 DEF IsSequence

\* l is the record of the lesson in which the measurement r was taken.
Heads(l, r) == l.table = "lessons" /\ l.confidence = 100 /\ l.what = r.lesson

\* The measurements X in s name a lesson whose record stands before them.
Introduced(s, X) ==
    \A i \in 1..Len(s) : s[i] \in X =>
        s[i].lesson # Blank /\ \E j \in 1..i - 1 : Heads(s[j], s[i])

\* Two sequences that introduce their measurements do so end to end.
LEMMA ConcatIntroduces ==
    ASSUME NEW A, NEW X, NEW s \in Seq(A), NEW t \in Seq(A), Introduced(s, X), Introduced(t, X)
    PROVE  Introduced(s \o t, X)
<1> DEFINE u == s \o t
<1>1. /\ Len(s) \in Nat /\ Len(t) \in Nat /\ Len(u) = Len(s) + Len(t)
      /\ \A i \in 1..Len(s) : u[i] = s[i]
      /\ \A i \in 1..Len(t) : u[Len(s) + i] = t[i]
  OBVIOUS
<1> HIDE DEF u
<1>2. ASSUME NEW i \in 1..Len(u), u[i] \in X
      PROVE  u[i].lesson # Blank /\ \E j \in 1..i - 1 : Heads(u[j], u[i])
  <2>1. CASE i \in 1..Len(s)
    <3>1. u[i] = s[i]
      BY <1>1, <2>1
    <3>2. PICK j \in 1..i - 1 : Heads(s[j], s[i])
      BY <1>2, <2>1, <3>1 DEF Introduced
    <3>3. u[j] = s[j]
      BY <1>1, <2>1
    <3>4. s[i].lesson # Blank
      BY <1>2, <2>1, <3>1 DEF Introduced
    <3> QED
      BY <3>1, <3>2, <3>3, <3>4
  <2>2. CASE i \notin 1..Len(s)
    <3>1. PICK k \in 1..Len(t) : i = Len(s) + k
      <4>1. i - Len(s) \in 1..Len(t) /\ i = Len(s) + (i - Len(s))
        BY <1>1, <2>2
      <4> QED
        BY <4>1
    <3>2. u[i] = t[k]
      BY <1>1, <3>1
    <3>3. t[k].lesson # Blank /\ \E j \in 1..k - 1 : Heads(t[j], t[k])
      BY <1>2, <3>2 DEF Introduced
    <3>4. PICK j \in 1..k - 1 : Heads(t[j], t[k])
      BY <3>3
    <3>5. u[Len(s) + j] = t[j] /\ Len(s) + j \in 1..i - 1
      BY <1>1, <3>1
    <3> QED
      BY <3>2, <3>3, <3>4, <3>5
  <2> QED
    BY <2>1, <2>2
<1> QED
  BY <1>2 DEF Introduced, u

\* flat strings the elements of ss together.
Strings(flat, ss) ==
    flat = [i \in 1..Len(ss) |-> IF i = 1 THEN ss[i] ELSE flat[i - 1] \o ss[i]]

\* FlattenSeq strings its sequences together.
LEMMA FlattenStrings ==
    ASSUME NEW ss, Len(ss) \in Nat, Len(ss) # 0
    PROVE  \E flat : Strings(flat, ss) /\ FlattenSeq(ss) = flat[Len(ss)]
<1> DEFINE up(g, n) == IF n = 1 THEN ss[n] ELSE g[n - 1] \o ss[n]
           T == {m \in Nat : \E g : g = [n \in 1..m |-> up(g, n)]}
<1>1. 0 \in T
  <2>1. [n \in 1..0 |-> <<>>] = [n \in 1..0 |-> up([x \in 1..0 |-> <<>>], n)]
    OBVIOUS
  <2> HIDE DEF up
  <2> QED
    BY <2>1
<1>2. ASSUME NEW m \in Nat, m \in T PROVE m + 1 \in T
  <2>1. PICK g : g = [n \in 1..m |-> up(g, n)]
    BY <1>2
  <2> DEFINE h == [n \in 1..m + 1 |-> IF n = m + 1 THEN up(g, n) ELSE g[n]]
  <2>2. ASSUME NEW n \in 1..m + 1 PROVE h[n] = up(h, n)
    <3>1. h[n] = up(g, n)
      <4> HIDE DEF up
      <4> QED
        BY <2>1
    <3>2. CASE n = 1
      BY <3>1, <3>2
    <3>3. CASE n # 1
      <4>1. n - 1 \in 1..m /\ h[n - 1] = g[n - 1]
        BY <3>3
      <4>2. up(h, n) = up(g, n)
        BY <4>1
      <4> QED
        BY <3>1, <4>2
    <3> QED
      BY <3>2, <3>3
  <2> HIDE DEF up
  <2>3. h = [n \in 1..m + 1 |-> up(h, n)]
    BY <2>2
  <2> HIDE DEF h
  <2>4. m + 1 \in Nat
    OBVIOUS
  <2> QED
    BY <2>3, <2>4
<1> HIDE DEF up
<1>3. Len(ss) \in T
  <2>1. \A m \in Nat : m \in T => m + 1 \in T
    BY <1>2
  <2> HIDE DEF T
  <2> QED
    BY <1>1, <2>1, EveryNatural
<1> DEFINE flat == CHOOSE g : g = [n \in 1..Len(ss) |-> up(g, n)]
<1>4. flat = [n \in 1..Len(ss) |-> up(flat, n)]
  BY <1>3
<1> USE DEF up
<1>5. Strings(flat, ss)
  BY <1>4 DEF Strings
<1>6. FlattenSeq(ss) = flat[Len(ss)]
  BY DEF FlattenSeq
<1> QED
  BY <1>5, <1>6

\* Strung together, sequences of A are one, and if each introduces its
\* measurements so does the whole.
LEMMA FlattenHas ==
    ASSUME NEW A, NEW X, NEW ss, Len(ss) \in Nat,
           \A i \in 1..Len(ss) : ss[i] \in Seq(A) /\ Introduced(ss[i], X),
           Len(ss) = 0 => ss = <<>>
    PROVE  FlattenSeq(ss) \in Seq(A) /\ Introduced(FlattenSeq(ss), X)
<1>1. CASE Len(ss) = 0
  <2>1. FlattenSeq(ss) = <<>>
    BY <1>1 DEF FlattenSeq
  <2>2. <<>> \in Seq(A) /\ Introduced(<<>>, X)
    BY DEF Introduced
  <2> QED
    BY <2>1, <2>2
<1>2. CASE Len(ss) # 0
  <2>1. PICK flat : Strings(flat, ss) /\ FlattenSeq(ss) = flat[Len(ss)]
    BY <1>2, FlattenStrings
  <2>2. ASSUME NEW i \in 1..Len(ss)
        PROVE  flat[i] = IF i = 1 THEN ss[i] ELSE flat[i - 1] \o ss[i]
    BY <2>1, Zenon DEF Strings
  <2> DEFINE T == {n \in Nat : n \in 1..Len(ss) => flat[n] \in Seq(A) /\ Introduced(flat[n], X)}
  <2>3. 0 \in T
    OBVIOUS
  <2>4. ASSUME NEW n \in Nat, n \in T PROVE n + 1 \in T
    <3> SUFFICES ASSUME n + 1 \in 1..Len(ss)
                 PROVE  flat[n + 1] \in Seq(A) /\ Introduced(flat[n + 1], X)
      OBVIOUS
    <3>1. CASE n = 0
      <4>1. flat[1] = ss[1]
        BY <2>2, <3>1
      <4> QED
        BY <3>1, <4>1
    <3>2. CASE n # 0
      <4>1. flat[n] \in Seq(A) /\ Introduced(flat[n], X)
        BY <2>4, <3>2
      <4>2. n + 1 # 1 /\ (n + 1) - 1 = n
        BY <3>2
      <4>3. flat[n + 1] = flat[n] \o ss[n + 1]
        BY <2>2, <4>2
      <4>4. flat[n] \o ss[n + 1] \in Seq(A)
        BY <4>1
      <4>5. Introduced(flat[n] \o ss[n + 1], X)
        BY <4>1, ConcatIntroduces
      <4> QED
        BY <4>3, <4>4, <4>5
    <3> QED
      BY <3>1, <3>2
  <2>5. Len(ss) \in T
    <3>1. \A n \in Nat : n \in T => n + 1 \in T
      BY <2>4
    <3> HIDE DEF T
    <3> QED
      BY <2>3, <3>1, EveryNatural
  <2> QED
    BY <1>2, <2>1, <2>5
<1> QED
  BY <1>1, <1>2

\* A selection that keeps the records of lessons keeps the measurements introduced.
LEMMA OnlyIntroduces ==
    ASSUME NEW s, NEW S, NEW X, IsSequence(s), Introduced(s, X),
           \A r \in ToSet(s) : r.table = "lessons" /\ r.confidence = 100 => r \in S
    PROVE  Introduced(Only(s, S), X)
<1>1. Sifted(Only(s, S), s, S, Len(s))
  BY OnlySifts
<1>2. Len(s) \in Nat /\ \A i \in 1..Len(s) : s[i] \in ToSet(s)
  BY DEF IsSequence, ToSet
<1>3. PICK out : out = Only(s, S)
  OBVIOUS
<1>4. ASSUME NEW p \in 1..Len(out), out[p] \in X
      PROVE  out[p].lesson # Blank /\ \E j \in 1..p - 1 : Heads(out[j], out[p])
  <2>1. PICK q \in 1..Len(s) :
           /\ out[p] = s[q]
           /\ \A i \in 1..q - 1 : s[i] \in S => \E j \in 1..p - 1 : out[j] = s[i]
    BY <1>1, <1>3, <1>4 DEF Sifted
  <2>2. s[q].lesson # Blank /\ \E i \in 1..q - 1 : Heads(s[i], s[q])
    BY <1>4, <2>1 DEF Introduced
  <2>3. PICK i \in 1..q - 1 : Heads(s[i], s[q])
    BY <2>2
  <2>4. s[i] \in S
    BY <1>2, <2>3 DEF Heads
  <2>5. PICK j \in 1..p - 1 : out[j] = s[i]
    BY <2>1, <2>4
  <2> QED
    BY <2>1, <2>2, <2>3, <2>5
<1> QED
  BY <1>3, <1>4 DEF Introduced

\* Sequences of one element, of none, and functions on 1..n.
LEMMA TupleIsSequence == ASSUME NEW x PROVE IsSequence(<<x>>)
<1>1. ToSet(<<x>>) = {x}
  BY DEF ToSet
<1> QED
  BY <1>1 DEF IsSequence

LEMMA EmptyIsSequence == IsSequence(<<>>)
BY DEF IsSequence

\* Functions on 1..n are sequences.
LEMMA ListIsSequence ==
    ASSUME NEW n \in Nat, NEW f, DOMAIN f = 1..n, f = [i \in DOMAIN f |-> f[i]]
    PROVE  IsSequence(f) /\ Len(f) = n
<1>1. f \in [1..n -> ToSet(f)]
  BY DEF ToSet
<1> QED
  BY <1>1 DEF IsSequence

\* A sequence is a sequence of any set that holds its elements.
LEMMA SequenceOf ==
    ASSUME NEW A, NEW s \in Seq(A)
    PROVE  IsSequence(s) /\ ToSet(s) \subseteq A
<1>1. \A i \in 1..Len(s) : s[i] \in ToSet(s)
  BY DEF ToSet
<1> QED
  BY <1>1 DEF IsSequence, ToSet

\* End to end, and strung together, sequences are a sequence.
LEMMA ConcatIsSequence ==
    ASSUME NEW s, NEW t, IsSequence(s), IsSequence(t)
    PROVE  IsSequence(s \o t) /\ ToSet(s \o t) \subseteq ToSet(s) \cup ToSet(t)
<1>1. s \in Seq(ToSet(s) \cup ToSet(t)) /\ t \in Seq(ToSet(s) \cup ToSet(t))
  BY DEF IsSequence
<1>2. s \o t \in Seq(ToSet(s) \cup ToSet(t))
  BY <1>1
<1> QED
  BY <1>2, SequenceOf

LEMMA FlattenIsSequence ==
    ASSUME NEW n \in Nat, NEW ss, DOMAIN ss = 1..n, ss = [i \in 1..n |-> ss[i]],
           \A i \in 1..n : IsSequence(ss[i])
    PROVE  /\ IsSequence(FlattenSeq(ss))
           /\ \A x \in ToSet(FlattenSeq(ss)) : \E i \in 1..n : x \in ToSet(ss[i])
<1> DEFINE A == UNION {ToSet(ss[i]) : i \in 1..n}
<1>1. Len(ss) = n
  BY ListIsSequence
<1>2. ASSUME NEW i \in 1..n PROVE ss[i] \in Seq(A) /\ Introduced(ss[i], {})
  <2>1. ToSet(ss[i]) \subseteq A
    OBVIOUS
  <2>2. ss[i] \in Seq(ToSet(ss[i]))
    BY DEF IsSequence
  <2> HIDE DEF A
  <2> QED
    BY <2>1, <2>2 DEF Introduced
<1>3. n = 0 => ss = <<>>
  OBVIOUS
<1>4. FlattenSeq(ss) \in Seq(A)
  <2> HIDE DEF A
  <2> QED
    BY <1>1, <1>2, <1>3, FlattenHas
<1>5. IsSequence(FlattenSeq(ss)) /\ ToSet(FlattenSeq(ss)) \subseteq A
  <2> HIDE DEF A
  <2> QED
    BY <1>4, SequenceOf
<1> QED
  BY <1>5

-----------------------------------------------------------------------------
(* What the lesson parser makes of a document (extract/docx_lessons.py):   *)
(* lessons with titles, and records in which each measurement comes after the*)
(* lesson that it names.                                                   *)

\* The measurements of a line, a row and a table are sequences.
LEMMA MetricLineIsSequence == ASSUME NEW parts PROVE IsSequence(ParseMetricLine(parts))
BY TupleIsSequence, EmptyIsSequence DEF ParseMetricLine

LEMMA RowMetricsIsSequence ==
    ASSUME NEW header, NEW row, IsSequence(header)
    PROVE  IsSequence(RowMetrics(header, row))
<1> DEFINE all == [i \in 1..Len(header) - 1 |-> i + 1]
           set == {i \in 1..Len(header) : /\ NormalizeMetricType(header[i]) # Blank
                                          /\ i <= Len(row)
                                          /\ row[i] # Blank}
           columns == Only(all, set)
           cells == [n \in 1..Len(columns) |->
                       Metric(row[1], NormalizeMetricType(header[columns[n]]), row[columns[n]], Absent)]
<1>1. Len(header) \in Nat
  BY DEF IsSequence
<1>2. IsSequence(all)
  <2>1. PICK n \in Nat : DOMAIN all = 1..n
    <3>1. CASE Len(header) = 0
      BY <3>1
    <3>2. CASE Len(header) # 0
      <4>1. Len(header) - 1 \in Nat
        BY <1>1, <3>2
      <4> QED
        BY <4>1
    <3> QED
      BY <3>1, <3>2
  <2>2. all = [i \in DOMAIN all |-> all[i]]
    OBVIOUS
  <2> HIDE DEF all
  <2> QED
    BY <2>1, <2>2, ListIsSequence
<1>3. Len(columns) \in Nat
  <2> HIDE DEF all, set
  <2>1. IsSequence(columns)
    BY <1>2, OnlyHas
  <2> HIDE DEF columns
  <2> QED
    BY <2>1 DEF IsSequence
<1>4. IsSequence(cells)
  <2> HIDE DEF columns
  <2>1. DOMAIN cells = 1..Len(columns) /\ cells = [i \in DOMAIN cells |-> cells[i]]
    OBVIOUS
  <2> HIDE DEF cells
  <2> QED
    BY <1>3, <2>1, ListIsSequence
<1>5. RowMetrics(header, row) = IF row[1] = Absent THEN <<>> ELSE cells
  BY DEF RowMetrics
<1> HIDE DEF cells
<1> QED
  BY <1>4, <1>5, EmptyIsSequence

LEMMA TableMetricsIsSequence ==
    ASSUME NEW table, IsSequence(table.header), IsSequence(table.rows)
    PROVE  IsSequence(ExtractTableMetrics(table))
<1> DEFINE found == [i \in 1..Len(table.rows) |-> RowMetrics(table.header, table.rows[i])]
<1>1. Len(table.rows) \in Nat
  BY DEF IsSequence
<1>2. DOMAIN found = 1..Len(table.rows) /\ found = [i \in 1..Len(table.rows) |-> found[i]]
  OBVIOUS
<1>3. \A i \in 1..Len(table.rows) : IsSequence(found[i])
  BY RowMetricsIsSequence
<1>4. IsSequence(FlattenSeq(found))
  <2> HIDE DEF found
  <2> QED
    BY <1>1, <1>2, <1>3, FlattenIsSequence
<1>5. ExtractTableMetrics(table) = <<>> \/ ExtractTableMetrics(table) = FlattenSeq(found)
  BY DEF ExtractTableMetrics
<1> HIDE DEF found
<1> QED
  BY <1>4, <1>5, EmptyIsSequence

\* A lesson under construction has a title and a list of measurements.
Titled(l) ==
    /\ l = [title |-> l.title, topic |-> l.topic, phenomenon |-> l.phenomenon,
            content |-> l.content, metrics |-> l.metrics]
    /\ l.title # Blank
    /\ IsSequence(l.metrics)

\* So has every lesson that was read so far, and the preamble.
ReadSoFar(st) ==
    /\ st = [lessons |-> st.lessons, preamble |-> st.preamble]
    /\ IsSequence(st.lessons)
    /\ \A l \in ToSet(st.lessons) : Titled(l)
    /\ Titled(st.preamble)

\* The lesson under construction has a title.
LEMMA CurrentIsTitled == ASSUME NEW st, ReadSoFar(st) PROVE Titled(Current(st))
<1>1. ASSUME st.lessons # <<>> PROVE Last(st.lessons) \in ToSet(st.lessons)
  BY <1>1 DEF ReadSoFar, IsSequence, Last, ToSet
<1> QED
  BY <1>1 DEF ReadSoFar, Current

\* Amending the lesson under construction, adding measurements to it or
\* opening another keeps what was read so far.
LEMMA AmendKeeps ==
    ASSUME NEW st, NEW l, ReadSoFar(st), Titled(l)
    PROVE  ReadSoFar(Amend(st, l))
<1>1. CASE st.lessons = <<>>
  <2>1. Amend(st, l) = [lessons |-> st.lessons, preamble |-> l]
    BY <1>1 DEF Amend, ReadSoFar
  <2> QED
    BY <2>1 DEF ReadSoFar
<1>2. CASE st.lessons # <<>>
  <2>1. PICK s : s = st.lessons
    OBVIOUS
  <2> DEFINE t == [s EXCEPT ![Len(s)] = l]
  <2>2. Amend(st, l) = [lessons |-> t, preamble |-> st.preamble]
    BY <1>2, <2>1 DEF Amend, ReadSoFar
  <2>3. s \in Seq(ToSet(s))
    BY <2>1 DEF ReadSoFar, IsSequence
  <2>4. t \in Seq(ToSet(s) \cup {l})
    <3>1. DOMAIN s = 1..Len(s) /\ Len(s) \in Nat /\ \A i \in 1..Len(s) : s[i] \in ToSet(s)
      BY <2>3
    <3>2. t \in [1..Len(s) -> ToSet(s) \cup {l}]
      BY <3>1
    <3> HIDE DEF t
    <3> QED
      BY <3>1, <3>2
  <2> HIDE DEF t
  <2>5. IsSequence(t) /\ ToSet(t) \subseteq ToSet(s) \cup {l}
    BY <2>4, SequenceOf
  <2> QED
    BY <2>1, <2>2, <2>5 DEF ReadSoFar
<1> QED
  BY <1>1, <1>2

LEMMA AddMetricsKeeps ==
    ASSUME NEW st, NEW metrics, ReadSoFar(st), IsSequence(metrics)
    PROVE  ReadSoFar(AddMetrics(st, metrics))
<1>1. PICK l : l = Current(st)
  OBVIOUS
<1>2. Titled(l)
  BY <1>1, CurrentIsTitled
<1> DEFINE n == [l EXCEPT !.metrics = @ \o metrics]
<1>3. IsSequence(l.metrics \o metrics)
  BY <1>2, ConcatIsSequence DEF Titled
<1>4. PICK t : t = l.metrics \o metrics
  OBVIOUS
<1>5. n = [l EXCEPT !.metrics = t] /\ IsSequence(t)
  BY <1>3, <1>4
<1>7. Titled(n)
  <2> HIDE DEF n
  <2> QED
    BY <1>2, <1>5 DEF Titled
<1>6. AddMetrics(st, metrics) = Amend(st, n)
  BY <1>1 DEF AddMetrics
<1> HIDE DEF n
<1> QED
  BY <1>7, <1>6, AmendKeeps

LEMMA BuilderIsTitled == ASSUME NEW title, title # Blank PROVE Titled(LessonBuilder(title))
BY EmptyIsSequence DEF LessonBuilder, Titled

\* So does every block of a document (_walk_document).
LEMMA ReadBlockKeeps ==
    ASSUME NEW st, NEW b, NEW default, ReadSoFar(st), IsBlock(b), default # Blank
    PROVE  ReadSoFar(ReadBlock(st, b, default))
<1>1. PICK now : now = Current(st)
  OBVIOUS
<1>2. Titled(now)
  BY <1>1, CurrentIsTitled
<1>3. CASE b.kind = "empty"
  BY <1>3 DEF ReadBlock
<1>4. CASE b.kind = "text"
  <2>1. ReadBlock(st, b, default) = Amend(st, [now EXCEPT !.content = @ + 1])
    BY <1>1, <1>4 DEF ReadBlock
  <2>2. Titled([now EXCEPT !.content = @ + 1])
    BY <1>2 DEF Titled
  <2> QED
    BY <2>1, <2>2, AmendKeeps
<1>5. CASE b.kind = "table"
  <2>1. ReadBlock(st, b, default) = AddMetrics(st, ExtractTableMetrics(b))
    BY <1>5 DEF ReadBlock, AddTable
  <2> QED
    BY <1>5, <2>1, TableMetricsIsSequence, AddMetricsKeeps DEF IsBlock
<1>6. CASE b.kind = "metric"
  <2>1. ReadBlock(st, b, default) = AddMetrics(st, ParseMetricLine(b.parts))
    BY <1>6 DEF ReadBlock
  <2> QED
    BY <2>1, MetricLineIsSequence, AddMetricsKeeps
<1>7. CASE b.kind = "lesson"
  <2>1. PICK new : new = LessonBuilder(IF b.value = Blank THEN default ELSE b.value)
    OBVIOUS
  <2>2. ReadBlock(st, b, default) = [st EXCEPT !.lessons = Append(@, new)]
    BY <1>7, <2>1 DEF ReadBlock
  <2>3. Titled(new)
    BY <2>1, BuilderIsTitled
  <2>4. ReadBlock(st, b, default) = [lessons |-> Append(st.lessons, new), preamble |-> st.preamble]
    BY <2>2 DEF ReadSoFar
  <2>5. /\ IsSequence(Append(st.lessons, new))
        /\ ToSet(Append(st.lessons, new)) \subseteq ToSet(st.lessons) \cup {new}
    <3>1. st.lessons \in Seq(ToSet(st.lessons))
      BY DEF ReadSoFar, IsSequence
    <3>2. Append(st.lessons, new) \in Seq(ToSet(st.lessons) \cup {new})
      BY <3>1
    <3> QED
      BY <3>2, SequenceOf
  <2> QED
    BY <2>3, <2>4, <2>5 DEF ReadSoFar
<1>8. CASE b.kind = "title"
  <2>1. ReadBlock(st, b, default)
        = Amend(st, [now EXCEPT !.title = IF b.value = Blank THEN @ ELSE b.value])
    BY <1>1, <1>8 DEF ReadBlock
  <2>2. Titled([now EXCEPT !.title = IF b.value = Blank THEN @ ELSE b.value])
    BY <1>2 DEF Titled
  <2> QED
    BY <2>1, <2>2, AmendKeeps
<1>9. CASE b.kind \in {"topic", "phenomenon"}
  <2>1. ReadBlock(st, b, default) = Amend(st, [now EXCEPT ![b.kind] = b.value])
    BY <1>1, <1>9 DEF ReadBlock
  <2>2. Titled([now EXCEPT ![b.kind] = b.value])
    <3>1. ASSUME NEW v, NEW new, new = [now EXCEPT !["topic"] = v] PROVE Titled(new)
      <4>1. new = [now EXCEPT !.topic = v]
        BY <3>1
      <4> QED
        BY <1>2, <4>1 DEF Titled
    <3>2. ASSUME NEW v, NEW new, new = [now EXCEPT !["phenomenon"] = v] PROVE Titled(new)
      <4>1. new = [now EXCEPT !.phenomenon = v]
        BY <3>2
      <4> QED
        BY <1>2, <4>1 DEF Titled
    <3> QED
      BY <1>9, <3>1, <3>2
  <2> QED
    BY <2>1, <2>2, AmendKeeps
<1> QED
  BY <1>3, <1>4, <1>5, <1>6, <1>7, <1>8, <1>9 DEF IsBlock

\* read is what was made of the first blocks of a document.
Reads(read, doc, default) ==
    read = [n \in 0..Len(doc) |->
              IF n = 0 THEN [lessons |-> <<>>, preamble |-> LessonBuilder(default)]
              ELSE ReadBlock(read[n - 1], doc[n], default)]

\* What ParseLessonDocument reads, block by block.
LEMMA DocumentReads ==
    ASSUME NEW doc, NEW default, IsSequence(doc)
    PROVE  \E read : /\ Reads(read, doc, default)
                     /\ LET end == read[Len(doc)]
                        IN  ParseLessonDocument(doc, default)
                            = IF end.lessons = <<>> THEN <<end.preamble>> ELSE end.lessons
<1> DEFINE start == [lessons |-> <<>>, preamble |-> LessonBuilder(default)]
           up(g, n) == IF n = 0 THEN start ELSE ReadBlock(g[n - 1], doc[n], default)
           T == {m \in Nat : \E g : g = [n \in 0..m |-> up(g, n)]}
<1>1. 0 \in T
  <2>1. [n \in 0..0 |-> start] = [n \in 0..0 |-> up([x \in 0..0 |-> start], n)]
    OBVIOUS
  <2> HIDE DEF up, start
  <2> QED
    BY <2>1
<1>2. ASSUME NEW m \in Nat, m \in T PROVE m + 1 \in T
  <2> HIDE DEF start
  <2>1. PICK g : g = [n \in 0..m |-> up(g, n)]
    BY <1>2
  <2> DEFINE h == [n \in 0..m + 1 |-> IF n = m + 1 THEN up(g, n) ELSE g[n]]
  <2>2. ASSUME NEW n \in 0..m + 1 PROVE h[n] = up(h, n)
    <3>1. h[n] = up(g, n)
      <4> HIDE DEF up
      <4> QED
        BY <2>1
    <3>2. CASE n = 0
      BY <3>1, <3>2
    <3>3. CASE n # 0
      <4>1. n - 1 \in 0..m /\ h[n - 1] = g[n - 1]
        BY <3>3
      <4>2. up(h, n) = up(g, n)
        <5> HIDE DEF h
        <5> QED
          BY <4>1
      <4> QED
        BY <3>1, <4>2
    <3> QED
      BY <3>2, <3>3
  <2> HIDE DEF up
  <2>3. h = [n \in 0..m + 1 |-> up(h, n)]
    BY <2>2
  <2> HIDE DEF h
  <2>4. m + 1 \in Nat
    OBVIOUS
  <2> QED
    BY <2>3, <2>4
<1> HIDE DEF up, start
<1>3. Len(doc) \in Nat
  BY DEF IsSequence
<1>4. Len(doc) \in T
  <2>1. \A m \in Nat : m \in T => m + 1 \in T
    BY <1>2
  <2> HIDE DEF T
  <2> QED
    BY <1>1, <1>3, <2>1, EveryNatural
<1> DEFINE read == CHOOSE g : g = [n \in 0..Len(doc) |-> up(g, n)]
<1>5. read = [n \in 0..Len(doc) |-> up(read, n)]
  BY <1>4
<1> USE DEF up, start
<1>6. Reads(read, doc, default)
  BY <1>5 DEF Reads
<1>7. ParseLessonDocument(doc, default)
      = IF read[Len(doc)].lessons = <<>> THEN <<read[Len(doc)].preamble>> ELSE read[Len(doc)].lessons
  BY DEF ParseLessonDocument
<1> HIDE DEF read
<1> QED
  BY <1>6, <1>7

\* Every lesson of a document has a title and a list of measurements.
LEMMA LessonsAreTitled ==
    ASSUME NEW doc, NEW default, IsSequence(doc), \A b \in ToSet(doc) : IsBlock(b), default # Blank
    PROVE  /\ IsSequence(ParseLessonDocument(doc, default))
           /\ \A l \in ToSet(ParseLessonDocument(doc, default)) : Titled(l)
<1>1. PICK read :
         /\ Reads(read, doc, default)
         /\ ParseLessonDocument(doc, default)
            = IF read[Len(doc)].lessons = <<>> THEN <<read[Len(doc)].preamble>>
              ELSE read[Len(doc)].lessons
  BY DocumentReads
<1>2. Len(doc) \in Nat /\ \A n \in 1..Len(doc) : doc[n] \in ToSet(doc)
  BY DEF IsSequence, ToSet
<1>3. ASSUME NEW n \in 0..Len(doc)
      PROVE  read[n] = IF n = 0 THEN [lessons |-> <<>>, preamble |-> LessonBuilder(default)]
                       ELSE ReadBlock(read[n - 1], doc[n], default)
  BY <1>1, Zenon DEF Reads
<1> DEFINE T == {n \in Nat : n =< Len(doc) => ReadSoFar(read[n])}
<1>4. 0 \in T
  <2>1. ASSUME NEW st, st = [lessons |-> <<>>, preamble |-> LessonBuilder(default)]
        PROVE  ReadSoFar(st)
    <3>1. IsSequence(<<>>) /\ ToSet(<<>>) = {}
      BY EmptyIsSequence DEF ToSet
    <3>2. Titled(LessonBuilder(default))
      BY BuilderIsTitled
    <3> QED
      BY <2>1, <3>1, <3>2 DEF ReadSoFar
  <2>2. 0 \in 0..Len(doc)
    BY <1>2
  <2>3. read[0] = [lessons |-> <<>>, preamble |-> LessonBuilder(default)]
    BY <1>3, <2>2
  <2> QED
    BY <2>1, <2>3
<1>5. ASSUME NEW n \in Nat, n \in T PROVE n + 1 \in T
  <2> SUFFICES ASSUME n + 1 =< Len(doc) PROVE ReadSoFar(read[n + 1])
    OBVIOUS
  <2>1. ReadSoFar(read[n])
    BY <1>2, <1>5
  <2>2. n + 1 \in 0..Len(doc) /\ n + 1 # 0 /\ (n + 1) - 1 = n /\ n + 1 \in 1..Len(doc)
    BY <1>2
  <2>3. read[n + 1] = ReadBlock(read[n], doc[n + 1], default)
    BY <1>3, <2>2
  <2>4. IsBlock(doc[n + 1])
    BY <1>2, <2>2
  <2> QED
    BY <2>1, <2>3, <2>4, ReadBlockKeeps
<1>6. Len(doc) \in T
  <2>1. \A n \in Nat : n \in T => n + 1 \in T
    BY <1>5
  <2> HIDE DEF T
  <2> QED
    BY <1>2, <1>4, <2>1, EveryNatural
<1>7. PICK end : end = read[Len(doc)]
  OBVIOUS
<1>8. ReadSoFar(end)
  BY <1>2, <1>6, <1>7
<1>9. CASE end.lessons = <<>>
  <2>1. ParseLessonDocument(doc, default) = <<end.preamble>>
    BY <1>1, <1>7, <1>9
  <2>2. IsSequence(<<end.preamble>>) /\ ToSet(<<end.preamble>>) = {end.preamble}
    BY TupleIsSequence DEF ToSet
  <2> QED
    BY <1>8, <2>1, <2>2 DEF ReadSoFar
<1>10. CASE end.lessons # <<>>
  BY <1>1, <1>7, <1>8, <1>10 DEF ReadSoFar
<1> QED
  BY <1>9, <1>10

\* What the text parser writes of a lesson or a measurement.
IsLessonRecord(r) ==
    /\ r = [table |-> r.table, name |-> r.name, date |-> r.date, amount |-> r.amount,
            confidence |-> r.confidence, what |-> r.what, lesson |-> r.lesson]
    /\ r.table \in {"lessons", "student_metrics"}
    /\ r.confidence = 100

Measurements(s) == {r \in ToSet(s) : r.table = "student_metrics"}

\* One lesson's records: its own, then those of its measurements.
OfLesson(l) ==
    <<[table |-> "lessons", name |-> Absent, date |-> Absent, amount |-> Absent,
       confidence |-> 100, what |-> l.title, lesson |-> Blank]>>
    \o [i \in 1..Len(l.metrics) |-> MetricRecord(l.metrics[i], l.title)]

FollowTheirLesson(u) ==
    \A i \in 1..Len(u) : u[i].table = "student_metrics" =>
        u[i].lesson # Blank /\ \E j \in 1..i - 1 : Heads(u[j], u[i])

\* The records of one lesson start with the lesson's own.
LEMMA LessonIntroduces ==
    ASSUME NEW l, Titled(l)
    PROVE  /\ IsSequence(OfLesson(l))
           /\ \A r \in ToSet(OfLesson(l)) : IsLessonRecord(r)
           /\ FollowTheirLesson(OfLesson(l))
<1> SUFFICES ASSUME NEW head, NEW tail, NEW u, u = <<head>> \o tail,
                    head = [table |-> "lessons", name |-> Absent, date |-> Absent, amount |-> Absent,
                            confidence |-> 100, what |-> l.title, lesson |-> Blank],
                    tail = [i \in 1..Len(l.metrics) |-> MetricRecord(l.metrics[i], l.title)]
             PROVE  /\ IsSequence(u)
                    /\ \A r \in ToSet(u) : IsLessonRecord(r)
                    /\ FollowTheirLesson(u)
  BY DEF OfLesson
<1>1. Len(l.metrics) \in Nat
  BY DEF Titled, IsSequence
<1>2. IsSequence(tail) /\ Len(tail) = Len(l.metrics)
  <2>1. DOMAIN tail = 1..Len(l.metrics) /\ tail = [i \in DOMAIN tail |-> tail[i]]
    OBVIOUS
  <2> QED
    BY <1>1, <2>1, ListIsSequence
<1>3. IsSequence(u) /\ ToSet(u) \subseteq ToSet(<<head>>) \cup ToSet(tail)
  <2>1. IsSequence(<<head>>)
    BY ONLY TupleIsSequence
  <2>2. PICK h, t : h = <<head>> /\ t = tail
    OBVIOUS
  <2>3. IsSequence(h) /\ IsSequence(t)
    BY <1>2, <2>1, <2>2
  <2>4. IsSequence(h \o t) /\ ToSet(h \o t) \subseteq ToSet(h) \cup ToSet(t)
    BY ONLY <2>3, ConcatIsSequence
  <2> QED
    BY <2>2, <2>4
<1>4. ToSet(<<head>>) = {head}
  BY DEF ToSet
<1>5. head.table = "lessons" /\ head.confidence = 100 /\ head.what = l.title /\ IsLessonRecord(head)
  BY DEF IsLessonRecord
<1>6. ASSUME NEW i \in 1..Len(l.metrics)
      PROVE  tail[i].table = "student_metrics" /\ tail[i].lesson = l.title /\ IsLessonRecord(tail[i])
  BY DEF MetricRecord, IsLessonRecord
<1>7. \A r \in ToSet(tail) : IsLessonRecord(r)
  <2>1. \A r \in ToSet(tail) : \E i \in 1..Len(l.metrics) : r = tail[i]
    <3>1. DOMAIN tail = 1..Len(l.metrics)
      OBVIOUS
    <3> QED
      BY <3>1 DEF ToSet
  <2> QED
    BY <1>6, <2>1
<1>8. /\ u[1] = head /\ Len(u) = 1 + Len(l.metrics)
      /\ \A i \in 1..Len(l.metrics) : u[i + 1] = tail[i]
  <2>1. tail \in Seq(ToSet(tail)) /\ Len(tail) = Len(l.metrics)
    BY <1>2 DEF IsSequence
  <2>2. \A t \in Seq(ToSet(tail)) :
           /\ (<<head>> \o t)[1] = head /\ Len(<<head>> \o t) = 1 + Len(t)
           /\ \A i \in 1..Len(t) : (<<head>> \o t)[i + 1] = t[i]
    OBVIOUS
  <2> QED
    BY <2>1, <2>2
<1>9. ASSUME NEW i \in 1..Len(u), u[i].table = "student_metrics"
      PROVE  u[i].lesson # Blank /\ \E j \in 1..i - 1 : Heads(u[j], u[i])
  <2>1. i # 1
    BY <1>5, <1>8, <1>9
  <2>2. PICK k \in 1..Len(l.metrics) : k + 1 = i
    <3>1. i - 1 \in 1..Len(l.metrics) /\ (i - 1) + 1 = i
      BY <1>1, <1>8, <2>1
    <3> QED
      BY <3>1
  <2>3. u[i].lesson = l.title
    <3>1. u[i] = tail[k]
      BY <1>8, <2>2
    <3>2. tail[k].lesson = l.title
      BY <1>6
    <3> QED
      BY ONLY <3>1, <3>2
  <2>4. Heads(u[1], u[i])
    BY <1>5, <1>8, <2>3 DEF Heads
  <2>5. 1 \in 1..i - 1
    BY <2>1
  <2> QED
    BY <2>3, <2>4, <2>5 DEF Titled
<1> QED
  BY <1>3, <1>4, <1>5, <1>7, <1>9 DEF FollowTheirLesson

\* The records of a document: every measurement after the record of its lesson.
LEMMA LessonRecordsIntroduce ==
    ASSUME NEW doc, NEW default, IsSequence(doc), \A b \in ToSet(doc) : IsBlock(b), default # Blank
    PROVE  /\ IsSequence(LessonRecords(doc, default))
           /\ \A r \in ToSet(LessonRecords(doc, default)) : IsLessonRecord(r)
           /\ Introduced(LessonRecords(doc, default), Measurements(LessonRecords(doc, default)))
<1>1. PICK lessons : lessons = ParseLessonDocument(doc, default)
  OBVIOUS
<1>2. IsSequence(lessons) /\ \A l \in ToSet(lessons) : Titled(l)
  BY <1>1, LessonsAreTitled
<1>3. Len(lessons) \in Nat /\ \A n \in 1..Len(lessons) : lessons[n] \in ToSet(lessons)
  BY <1>2 DEF IsSequence, ToSet
<1> DEFINE ss == [n \in 1..Len(lessons) |-> OfLesson(lessons[n])]
<1>4. LessonRecords(doc, default) = FlattenSeq(ss)
  BY <1>1 DEF LessonRecords, OfLesson
<1>5. ASSUME NEW n \in 1..Len(lessons)
      PROVE  /\ IsSequence(ss[n])
             /\ \A r \in ToSet(ss[n]) : IsLessonRecord(r)
             /\ FollowTheirLesson(ss[n])
  BY <1>2, <1>3, LessonIntroduces
<1>6. DOMAIN ss = 1..Len(lessons) /\ ss = [n \in 1..Len(lessons) |-> ss[n]] /\ (Len(lessons) = 0 => ss = <<>>)
  OBVIOUS
<1> HIDE DEF ss
<1>7. Len(ss) = Len(lessons)
  BY <1>3, <1>6, ListIsSequence
<1>8. /\ IsSequence(FlattenSeq(ss))
      /\ \A x \in ToSet(FlattenSeq(ss)) : \E n \in 1..Len(lessons) : x \in ToSet(ss[n])
  BY <1>3, <1>5, <1>6, FlattenIsSequence
<1>9. \A r \in ToSet(FlattenSeq(ss)) : IsLessonRecord(r)
  BY <1>5, <1>8
<1>10. Introduced(FlattenSeq(ss), Measurements(FlattenSeq(ss)))
  <2> DEFINE A == UNION {ToSet(ss[n]) : n \in 1..Len(lessons)}
             X == Measurements(FlattenSeq(ss))
  <2>1. ASSUME NEW n \in 1..Len(lessons) PROVE ss[n] \in Seq(A)
    <3>1. ToSet(ss[n]) \subseteq A
      OBVIOUS
    <3>2. ss[n] \in Seq(ToSet(ss[n]))
      BY <1>5 DEF IsSequence
    <3> HIDE DEF A
    <3> QED
      BY <3>1, <3>2
  <2>2. \A r \in X : r.table = "student_metrics"
    BY DEF Measurements
  <2> HIDE DEF A, X
  <2>3. \A n \in 1..Len(lessons) : Introduced(ss[n], X)
    BY <1>5, <2>2 DEF Introduced, FollowTheirLesson
  <2>4. Introduced(FlattenSeq(ss), X)
    BY <1>3, <1>6, <1>7, <2>1, <2>3, FlattenHas
  <2> QED
    BY <2>4 DEF X
<1> QED
  BY <1>4, <1>8, <1>9, <1>10

-----------------------------------------------------------------------------
(* The records of a run.                                                   *)

\* The records of one item, with its file.
LEMMA ReadFromIs ==
    ASSUME NEW f, NEW q, IsSequence(q)
    PROVE  /\ IsSequence(ReadFrom(f, q)) /\ Len(ReadFrom(f, q)) = Len(q)
           /\ \A i \in 1..Len(q) :
                 /\ ReadFrom(f, q)[i].file = f
                 /\ \A x \in DOMAIN q[i] \ {"file", "position"} : ReadFrom(f, q)[i][x] = q[i][x]
           /\ \A r \in ToSet(ReadFrom(f, q)) : r.file = f
<1>1. PICK u : u = ReadFrom(f, q)
  OBVIOUS
<1>2. u = [i \in 1..Len(q) |-> With(With(q[i], "file", f), "position", i)]
  BY <1>1 DEF ReadFrom
<1>3. Len(q) \in Nat
  BY DEF IsSequence
<1>4. DOMAIN u = 1..Len(q) /\ u = [i \in DOMAIN u |-> u[i]]
  <2> DEFINE e(i) == With(With(q[i], "file", f), "position", i)
  <2>1. u = [i \in 1..Len(q) |-> e(i)]
    BY <1>2
  <2> HIDE DEF e
  <2> QED
    BY <2>1
<1>5. IsSequence(u) /\ Len(u) = Len(q)
  BY <1>3, <1>4, ListIsSequence
<1>6. ASSUME NEW i \in 1..Len(q)
      PROVE  /\ u[i].file = f
             /\ \A x \in DOMAIN q[i] \ {"file", "position"} : u[i][x] = q[i][x]
  <2>1. PICK a, b : a = With(q[i], "file", f) /\ b = With(a, "position", i)
    OBVIOUS
  <2>2. u[i] = b
    BY <1>2, <2>1
  <2>3. "file" \in DOMAIN a /\ a.file = f
    BY <2>1 DEF With
  <2>4. \A x \in DOMAIN q[i] \ {"file"} : x \in DOMAIN a /\ a[x] = q[i][x]
    BY <2>1 DEF With
  <2>5. \A x \in DOMAIN a \ {"position"} : b[x] = a[x]
    BY <2>1 DEF With
  <2> QED
    BY <2>2, <2>3, <2>4, <2>5
<1>7. \A r \in ToSet(u) : r.file = f
  BY <1>4, <1>6 DEF ToSet
<1> QED
  BY <1>1, <1>5, <1>6, <1>7

\* Collect routes files of the source folder to the handler of their extension.
LEMMA RoutedFiles ==
    /\ IsSequence(Routed)
    /\ \A f \in ToSet(Routed) : f \in ToSet(Source) /\ Extension(f) = Handler(f)
<1> DEFINE set(i) == {f \in ToSet(Source) : Folder(f) = SUBFOLDER_SPECS[i]
                                            /\ Extension(f) = Handler(f)}
           ss == [i \in 1..Len(SUBFOLDER_SPECS) |-> Only(Source, set(i))]
<1>1. Routed = FlattenSeq(ss)
  BY DEF Routed
<1>2. Len(SUBFOLDER_SPECS) \in Nat
  BY DEF SUBFOLDER_SPECS
<1>3. DOMAIN ss = 1..Len(SUBFOLDER_SPECS) /\ ss = [i \in 1..Len(SUBFOLDER_SPECS) |-> ss[i]]
  <2> HIDE DEF set
  <2> QED
    OBVIOUS
<1>4. \A i \in 1..Len(SUBFOLDER_SPECS) : IsSequence(ss[i]) /\ ToSet(ss[i]) = ToSet(Source) \cap set(i)
  <2> HIDE DEF set
  <2> QED
    BY SourceAssumption, OnlyHas
<1>5. \A i \in 1..Len(SUBFOLDER_SPECS) :
         \A f \in ToSet(ss[i]) : f \in ToSet(Source) /\ Extension(f) = Handler(f)
  <2> HIDE DEF ss
  <2> QED
    BY <1>4
<1> HIDE DEF ss
<1>6. /\ IsSequence(FlattenSeq(ss))
      /\ \A x \in ToSet(FlattenSeq(ss)) : \E i \in 1..Len(SUBFOLDER_SPECS) : x \in ToSet(ss[i])
  BY <1>2, <1>3, <1>4, FlattenIsSequence
<1> QED
  BY <1>1, <1>5, <1>6

\* The measurements taken in documents.
InDocuments(s) == {r \in ToSet(s) : r.table = "student_metrics" /\ Handler(r.file) = "docx"}

\* Every measurement taken in a document stands after its lesson.
LEMMA DocumentIntroduces ==
    ASSUME NEW f \in ToSet(Routed), Handler(f) = "docx"
    PROVE  /\ IsSequence(DocumentRecords[f])
           /\ \A r \in ToSet(DocumentRecords[f]) : r.file = f
           /\ Introduced(DocumentRecords[f], InDocuments(DocumentRecords[f]))
<1>1. f \in DOMAIN Documents /\ f[Len(f) - 1] # Blank
  BY RoutedFiles, SourceAssumption
<1>2. IsSequence(Documents[f]) /\ \A b \in ToSet(Documents[f]) : IsBlock(b)
  BY <1>1, SourceAssumption
<1>3. PICK q : q = LessonRecords(Documents[f], f[Len(f) - 1])
  OBVIOUS
<1>4. IsSequence(q) /\ (\A r \in ToSet(q) : IsLessonRecord(r)) /\ Introduced(q, Measurements(q))
  BY <1>1, <1>2, <1>3, LessonRecordsIntroduce
<1>5. PICK u : u = DocumentRecords[f]
  OBVIOUS
<1>6. u = ReadFrom(f, q)
  BY <1>1, <1>3, <1>5 DEF DocumentRecords
<1>7. /\ IsSequence(u) /\ Len(u) = Len(q)
      /\ \A i \in 1..Len(q) : \A x \in DOMAIN q[i] \ {"file", "position"} : u[i][x] = q[i][x]
      /\ \A r \in ToSet(u) : r.file = f
  BY <1>4, <1>6, ReadFromIs
<1>8. Len(q) \in Nat /\ \A i \in 1..Len(q) : q[i] \in ToSet(q)
  BY <1>4 DEF IsSequence, ToSet
<1>9. ASSUME NEW i \in 1..Len(q)
      PROVE  /\ u[i].table = q[i].table /\ u[i].confidence = q[i].confidence
             /\ u[i].what = q[i].what /\ u[i].lesson = q[i].lesson
  <2>1. IsLessonRecord(q[i])
    BY <1>4, <1>8
  <2>2. {"table", "confidence", "what", "lesson"} \subseteq DOMAIN q[i]
    BY <2>1 DEF IsLessonRecord
  <2>3. \A x \in {"table", "confidence", "what", "lesson"} : u[i][x] = q[i][x]
    BY <1>7, <2>2
  <2> QED
    BY <2>3
<1>10. ASSUME NEW i \in 1..Len(u), u[i] \in InDocuments(u)
       PROVE  u[i].lesson # Blank /\ \E j \in 1..i - 1 : Heads(u[j], u[i])
  <2>1. i \in 1..Len(q) /\ q[i].table = "student_metrics"
    BY <1>7, <1>9, <1>10 DEF InDocuments
  <2>2. q[i] \in Measurements(q)
    BY <1>8, <2>1 DEF Measurements
  <2>3. q[i].lesson # Blank /\ \E j \in 1..i - 1 : Heads(q[j], q[i])
    BY <1>4, <2>1, <2>2 DEF Introduced
  <2>4. PICK j \in 1..i - 1 : Heads(q[j], q[i])
    BY <2>3
  <2>5. j \in 1..Len(q)
    BY <1>8, <2>1
  <2>6. Heads(u[j], u[i])
    BY <1>9, <2>1, <2>4, <2>5 DEF Heads
  <2> QED
    BY <1>9, <2>1, <2>3, <2>6
<1> QED
  BY <1>5, <1>7, <1>10 DEF Introduced

\* The records of images are sequences; no image is a document.
LEMMA BatchIsSequence ==
    ASSUME NEW files, NEW said, IsSequence(files), DOMAIN said = 1..Len(files),
           \A i \in 1..Len(files) : Handler(files[i]) = "image" /\ IsSequence(said[i])
    PROVE  /\ IsSequence(BatchRecords(files, said))
           /\ \A r \in ToSet(BatchRecords(files, said)) : Handler(r.file) = "image"
<1> DEFINE ss == [i \in 1..Len(files) |-> ReadFrom(files[i], said[i])]
<1>1. BatchRecords(files, said) = FlattenSeq(ss)
  BY DEF BatchRecords
<1>2. Len(files) \in Nat
  BY DEF IsSequence
<1>3. DOMAIN ss = 1..Len(files) /\ ss = [i \in 1..Len(files) |-> ss[i]]
  OBVIOUS
<1>4. \A i \in 1..Len(files) :
         IsSequence(ss[i]) /\ \A r \in ToSet(ss[i]) : Handler(r.file) = "image"
  BY ReadFromIs
<1> HIDE DEF ss
<1>5. /\ IsSequence(FlattenSeq(ss))
      /\ \A x \in ToSet(FlattenSeq(ss)) : \E i \in 1..Len(files) : x \in ToSet(ss[i])
  BY <1>2, <1>3, <1>4, FlattenIsSequence
<1> QED
  BY <1>1, <1>4, <1>5

-----------------------------------------------------------------------------
(* What each step makes of the process, field by field.                    *)

SamePlace(q, p) == q.cmd = p.cmd /\ q.stage = p.stage

SameBatch(q, p) == q.records = p.records /\ q.clean = p.clean /\ q.index = p.index

\* Two manifests that differ in the completed stages only.
SameBook(n, m) == n.files = m.files /\ n.records = m.records /\ n.skips = m.skips

\* q is p on its way into the next stage.
Entered(q, p) ==
    LET next == NextStage(p.stage, StagesToRun(p.cmd.stage))
    IN  /\ q.cmd = p.cmd /\ q.stage = next /\ q.pc = FirstStep(next)
        /\ q.created = p.created
        /\ SameBatch(q, p) /\ SameBook(q.manifest, p.manifest)
        /\ q.todo = IF next = "archive" THEN Pending(p, "archive") ELSE <<>>

\* Going on to the next stage leaves the batch alone.
LEMMA EnterNextIs ==
    ASSUME NEW p, p = [x \in Fields |-> p[x]], Manifest(p.manifest)
    PROVE  Entered(EnterNext(p), p)
<1> DEFINE q == EnterNext(p)
           next == NextStage(p.stage, StagesToRun(p.cmd.stage))
           completed == p.manifest.completed \ ({next} \ {"validate"})
           todo == IF next = "archive" THEN Pending(p, "archive") ELSE <<>>
<1>1. q = [p EXCEPT !.pc = FirstStep(next), !.stage = next, !.attempt = 1,
                    !.manifest = [p.manifest EXCEPT !.completed = completed],
                    !.todo = todo]
  BY DEF EnterNext, Fields
<1>2. PICK nx, td, c, pc : nx = next /\ td = todo /\ c = completed /\ pc = FirstStep(next)
  OBVIOUS
<1>3. q = [p EXCEPT !.pc = pc, !.stage = nx, !.attempt = 1,
                    !.manifest = [p.manifest EXCEPT !.completed = c], !.todo = td]
  BY <1>1, <1>2
<1> HIDE DEF q, next, completed, todo
<1>4. /\ q.cmd = p.cmd /\ q.stage = nx /\ q.pc = pc /\ q.todo = td /\ SameBatch(q, p)
      /\ q.created = p.created
      /\ q.manifest = [p.manifest EXCEPT !.completed = c]
  BY <1>3 DEF Fields, SameBatch
<1>5. SameBook(q.manifest, p.manifest)
  BY <1>4 DEF Manifest, SameBook
<1> QED
  BY <1>2, <1>4, <1>5 DEF Entered, q, next, todo

\* q is p at the end of its stage.
Ended(q, p) ==
    /\ q.pc = "save" /\ q.created = p.created
    /\ SamePlace(q, p) /\ SameBatch(q, p) /\ SameBook(q.manifest, p.manifest)

\* So does completing a stage.
LEMMA CompletedIs ==
    ASSUME NEW p, p = [x \in Fields |-> p[x]], Manifest(p.manifest)
    PROVE  Ended(Completed(p), p)
<1>1. PICK q, c : q = Completed(p) /\ c = p.manifest.completed \cup {p.stage}
  OBVIOUS
<1>2. q = [p EXCEPT !.pc = "save", !.manifest = [p.manifest EXCEPT !.completed = c]]
  BY <1>1 DEF Completed, Fields
<1>3. /\ q.cmd = p.cmd /\ q.stage = p.stage /\ q.pc = "save" /\ SameBatch(q, p)
      /\ q.created = p.created
      /\ q.manifest = [p.manifest EXCEPT !.completed = c]
  BY <1>2 DEF Fields, SameBatch
<1>4. SameBook(q.manifest, p.manifest)
  BY <1>3 DEF Manifest, SameBook
<1> QED
  BY <1>1, <1>3, <1>4 DEF Ended, SamePlace

\* A run that is going has all its fields.
LEMMA BusyFields ==
    ASSUME Inv, proc.pc # "idle"
    PROVE  proc = [x \in Fields |-> proc[x]] /\ Manifest(proc.manifest) /\ proc # NoProcess
  BY Busy DEF Running, Honest, NoProcess

\* Marking records, and the extract state of files, changes just that.
LEMMA MarkIs ==
    ASSUME NEW m, Manifest(m), NEW ids, NEW status
    PROVE  LET n == Mark(m, ids, status)
           IN  /\ Manifest(n)
               /\ n.files = m.files /\ n.skips = m.skips
               /\ n.records = [id \in DOMAIN m.records \cup ids |->
                                 IF id \in ids THEN status ELSE m.records[id]]
<1> DEFINE recs == [id \in DOMAIN m.records \cup ids |->
                                 IF id \in ids THEN status ELSE m.records[id]]
<1>1. PICK n, r : n = Mark(m, ids, status) /\ r = recs
  OBVIOUS
<1>2. n = [m EXCEPT !.records = r]
  BY <1>1 DEF Mark
<1> HIDE DEF recs
<1>3. n = [files |-> m.files, records |-> r, skips |-> m.skips, completed |-> m.completed]
  BY <1>2 DEF Manifest
<1>4. Manifest(n)
  BY <1>3 DEF Manifest
<1> QED
  BY <1>1, <1>3, <1>4 DEF recs

LEMMA SetFilesIs ==
    ASSUME NEW m, Manifest(m), NEW fs, NEW stage \in {"extract", "archive"}, NEW status
    PROVE  LET n == SetFiles(m, fs, stage, status)
           IN  /\ n.records = m.records /\ n.skips = m.skips
               /\ \A f \in ToSet(Routed) :
                     /\ n.files[f][stage] = IF f \in fs THEN status ELSE m.files[f][stage]
                     /\ \A s \in {"extract", "archive"} \ {stage} : n.files[f][s] = m.files[f][s]
<1> DEFINE files == [f \in DOMAIN m.files |->
                IF f \in fs THEN [m.files[f] EXCEPT ![stage] = status] ELSE m.files[f]]
<1>1. PICK n, g : n = SetFiles(m, fs, stage, status) /\ g = files
  OBVIOUS
<1>2. n = [m EXCEPT !.files = g]
  BY <1>1, Zenon DEF SetFiles
<1>3. g = [f \in DOMAIN m.files |->
                IF f \in fs THEN [m.files[f] EXCEPT ![stage] = status] ELSE m.files[f]]
  BY <1>1
<1> HIDE DEF files
<1>4. n.files = g /\ n.records = m.records /\ n.skips = m.skips
  BY <1>2 DEF Manifest
<1>5. DOMAIN m.files = ToSet(Routed)
      /\ \A f \in ToSet(Routed) : m.files[f] = [extract |-> m.files[f].extract,
                                                archive |-> m.files[f].archive]
  BY DEF Manifest
<1>6. ASSUME NEW f \in ToSet(Routed)
      PROVE  /\ g[f][stage] = IF f \in fs THEN status ELSE m.files[f][stage]
             /\ \A s \in {"extract", "archive"} \ {stage} : g[f][s] = m.files[f][s]
  <2>1. PICK e : e = m.files[f]
    OBVIOUS
  <2>2. g[f] = IF f \in fs THEN [e EXCEPT ![stage] = status] ELSE e
    BY <1>3, <1>5, <2>1
  <2>3. DOMAIN e = {"extract", "archive"}
    BY <1>5, <2>1
  <2> QED
    BY <2>1, <2>2, <2>3
<1> QED
  BY <1>1, <1>4, <1>6

\* Connect and ConnectFails go on to the first stage.
LEMMA ConnectStep ==
    ASSUME Inv, Connect \/ ConnectFails
    PROVE  /\ proc.pc = "connect"
           /\ proc' = NoProcess \/ Entered(proc', proc)
<1>1. proc.pc = "connect"
  BY DEF Connect, ConnectFails, At
<1>2. proc = [x \in Fields |-> proc[x]] /\ Manifest(proc.manifest)
  BY <1>1, BusyFields
<1>3. CASE Connect
  <2>1. PICK c, p : c = NeedDb /\ p = [proc EXCEPT !.conn = c]
    OBVIOUS
  <2>2. proc' = EnterNext(p)
    BY <1>3, <2>1 DEF Connect
  <2>3. /\ p = [x \in Fields |-> p[x]]
        /\ SamePlace(p, proc) /\ SameBatch(p, proc) /\ p.manifest = proc.manifest
        /\ p.created = proc.created
    BY <1>2, <2>1 DEF Fields, SamePlace, SameBatch
  <2>4. Entered(EnterNext(p), p)
    BY <1>2, <2>3, EnterNextIs
  <2>5. Pending(p, "archive") = Pending(proc, "archive")
    BY <2>3 DEF Pending, SamePlace
  <2> QED
    BY <1>1, <2>2, <2>3, <2>4, <2>5 DEF Entered, SamePlace, SameBatch
<1>4. CASE ConnectFails
  <2>1. proc' = NoProcess \/ proc' = EnterNext(proc)
    BY <1>4 DEF ConnectFails, Halt
  <2> QED
    BY <1>1, <1>2, <2>1, EnterNextIs
<1> QED
  BY <1>3, <1>4

\* Save goes on to the next one.
LEMMA SaveStep ==
    ASSUME Inv, Save
    PROVE  proc.pc = "save" /\ Entered(proc', proc)
<1>1. proc.pc = "save" /\ proc' = EnterNext(proc)
  BY DEF Save, At
<1> QED
  BY <1>1, BusyFields, EnterNextIs

\* Collect records what it skips.
LEMMA CollectStep ==
    ASSUME Inv, Collect
    PROVE  /\ proc.pc = "collect" /\ proc'.pc = "save" /\ proc'.created = proc.created
           /\ SamePlace(proc', proc) /\ SameBatch(proc', proc)
           /\ proc'.manifest.files = proc.manifest.files
           /\ proc'.manifest.records = proc.manifest.records
           /\ proc'.manifest.skips
              = proc.manifest.skips \cup (ToSet(Source) \ ToSet(Routed))
                \cup {<<d>> : d \in ToSet(SUBFOLDER_SPECS) \ {Folder(f) : f \in ToSet(Source)}}
<1>1. proc.pc = "collect"
  BY DEF Collect, At
<1>2. proc = [x \in Fields |-> proc[x]] /\ Manifest(proc.manifest)
  BY <1>1, BusyFields
<1>3. PICK s : s = proc.manifest.skips \cup (ToSet(Source) \ ToSet(Routed))
                \cup {<<d>> : d \in ToSet(SUBFOLDER_SPECS) \ {Folder(f) : f \in ToSet(Source)}}
  OBVIOUS
<1>4. PICK m, p : m = [proc.manifest EXCEPT !.skips = s] /\ p = [proc EXCEPT !.manifest = m]
  OBVIOUS
<1>5. proc' = Completed(p)
  BY <1>2, <1>3, <1>4 DEF Collect, Fields
<1>6. m = [files |-> proc.manifest.files, records |-> proc.manifest.records,
           skips |-> s, completed |-> proc.manifest.completed]
  BY <1>2, <1>4 DEF Manifest
<1>7. Manifest(m)
  BY <1>2, <1>6 DEF Manifest
<1>8. /\ p = [x \in Fields |-> p[x]] /\ SamePlace(p, proc) /\ SameBatch(p, proc)
      /\ p.manifest = m /\ p.created = proc.created
  BY <1>2, <1>4 DEF Fields, SamePlace, SameBatch
<1>9. Ended(proc', p)
  BY <1>5, <1>7, <1>8, CompletedIs
<1> QED
  BY <1>1, <1>3, <1>6, <1>8, <1>9 DEF Ended, SamePlace, SameBatch, SameBook

\* The images are followed by the documents.
LEMMA ToDocumentsIs ==
    ASSUME Inv, proc.pc # "idle", NEW recs, NEW m, ToDocuments(recs, m)
    PROVE  /\ proc'.pc = "documents" /\ SamePlace(proc', proc) /\ proc'.created = proc.created
           /\ proc'.records = recs /\ proc'.clean = proc.clean /\ proc'.index = proc.index
           /\ proc'.todo = ToExtract("docx") /\ proc'.manifest = m
<1>1. proc = [x \in Fields |-> proc[x]]
  BY BusyFields
<1>2. PICK td : td = ToExtract("docx")
  OBVIOUS
<1>3. proc' = [proc EXCEPT !.pc = "documents", !.todo = td, !.records = recs, !.manifest = m]
  BY <1>2 DEF ToDocuments
<1> QED
  BY <1>1, <1>2, <1>3 DEF Fields, SamePlace

\* A step that only moves the process to another point of its stage.
Moved(q, p) ==
    /\ SamePlace(q, p) /\ SameBatch(q, p) /\ q.created = p.created
    /\ q.manifest = p.manifest /\ q.todo = p.todo

LEMMA GotoIs ==
    ASSUME Inv, proc.pc # "idle", NEW pc, Goto(pc)
    PROVE  proc'.pc = pc /\ Moved(proc', proc)
  BY BusyFields DEF Goto, Fields, Moved, SamePlace, SameBatch

\* A retry goes back to the first point of the stage.
LEMMA RetryStep ==
    ASSUME Inv, Retry
    PROVE  proc.pc = "backoff" /\ proc'.pc = FirstStep(proc.stage) /\ Moved(proc', proc)
<1>1. proc.pc = "backoff"
  BY DEF Retry, At
<1>2. proc = [x \in Fields |-> proc[x]]
  BY <1>1, BusyFields
<1>3. PICK pc, a : pc = FirstStep(proc.stage) /\ a = proc.attempt + 1
  OBVIOUS
<1>4. proc' = [proc EXCEPT !.pc = pc, !.attempt = a]
  BY <1>2, <1>3 DEF Retry, Fields
<1> QED
  BY <1>1, <1>2, <1>3, <1>4 DEF Fields, Moved, SamePlace, SameBatch

\* A document is read, or marked failed, and the next one follows.
LEMMA ExtractDocumentStep ==
    ASSUME Inv, ExtractDocument
    PROVE  /\ proc.pc = "documents" /\ proc.todo # <<>> /\ proc'.pc = "documents"
           /\ SamePlace(proc', proc) /\ proc'.created = proc.created
           /\ proc'.clean = proc.clean /\ proc'.index = proc.index
           /\ proc'.todo = Tail(proc.todo)
           /\ proc'.records = proc.records \o DocumentRecords[Head(proc.todo)]
           /\ proc'.manifest = SetFiles(proc.manifest, {Head(proc.todo)}, "extract", "done")
<1>1. proc.pc = "documents" /\ proc.todo # <<>>
  BY DEF ExtractDocument, At
<1>2. proc = [x \in Fields |-> proc[x]]
  BY <1>1, BusyFields
<1>3. PICK td, rs, m : /\ td = Tail(proc.todo)
                       /\ rs = proc.records \o DocumentRecords[Head(proc.todo)]
                       /\ m = SetFiles(proc.manifest, {Head(proc.todo)}, "extract", "done")
  OBVIOUS
<1>4. proc' = [proc EXCEPT !.todo = td, !.records = rs, !.manifest = m]
  BY <1>2, <1>3 DEF ExtractDocument, Fields
<1> QED
  BY <1>1, <1>2, <1>3, <1>4 DEF Fields, SamePlace

LEMMA DocumentFailsStep ==
    ASSUME Inv, DocumentFails
    PROVE  /\ proc.pc = "documents" /\ proc.todo # <<>> /\ proc'.pc = "documents"
           /\ SamePlace(proc', proc) /\ SameBatch(proc', proc) /\ proc'.created = proc.created
           /\ proc'.todo = Tail(proc.todo)
           /\ proc'.manifest = SetFiles(proc.manifest, {Head(proc.todo)}, "extract", "failed")
<1>1. proc.pc = "documents" /\ proc.todo # <<>>
  BY DEF DocumentFails, At
<1>2. proc = [x \in Fields |-> proc[x]]
  BY <1>1, BusyFields
<1>3. PICK td, m : /\ td = Tail(proc.todo)
                   /\ m = SetFiles(proc.manifest, {Head(proc.todo)}, "extract", "failed")
  OBVIOUS
<1>4. proc' = [proc EXCEPT !.todo = td, !.manifest = m]
  BY <1>2, <1>3 DEF DocumentFails, Fields
<1> QED
  BY <1>1, <1>2, <1>3, <1>4 DEF Fields, SamePlace, SameBatch

\* Extract marks all records.
LEMMA EndExtractStep ==
    ASSUME Inv, EndExtract
    PROVE  /\ proc.pc = "documents" /\ proc.todo = <<>> /\ proc'.pc = "save"
           /\ proc'.created = proc.created
           /\ SamePlace(proc', proc) /\ SameBatch(proc', proc)
           /\ SameBook(proc'.manifest, Mark(proc.manifest, Ids(proc.records), "extracted"))
<1>1. proc.pc = "documents" /\ proc.todo = <<>>
  BY DEF EndExtract, At
<1>2. proc = [x \in Fields |-> proc[x]] /\ Manifest(proc.manifest)
  BY <1>1, BusyFields
<1>3. PICK m, p : m = Mark(proc.manifest, Ids(proc.records), "extracted") /\ p = [proc EXCEPT !.manifest = m]
  OBVIOUS
<1>4. proc' = Completed(p)
  BY <1>2, <1>3 DEF EndExtract, Fields
<1>5. Manifest(m)
  BY <1>2, <1>3, MarkIs
<1>6. /\ p = [x \in Fields |-> p[x]] /\ SamePlace(p, proc) /\ SameBatch(p, proc)
      /\ p.manifest = m /\ p.created = proc.created
  BY <1>2, <1>3 DEF Fields, SamePlace, SameBatch
<1>7. Ended(proc', p)
  BY <1>4, <1>5, <1>6, CompletedIs
<1> QED
  BY <1>1, <1>3, <1>6, <1>7 DEF Ended, SamePlace, SameBatch

\* Validate keeps the clean records and flags the others.
Unclean(known) == {RecordId(r) : r \in {q \in ToSet(proc.records) : ~Clean(q, known)}}

LEMMA ValidateStep ==
    ASSUME Inv, Validate \/ ValidateBlind
    PROVE  /\ proc.pc = "validate" /\ proc'.pc = "save" /\ proc'.created = proc.created
           /\ SamePlace(proc', proc)
           /\ proc'.records = proc.records /\ proc'.index = proc.index
           /\ \E known : /\ proc'.clean = CleanRecords(known)
                         /\ SameBook(proc'.manifest, Mark(proc.manifest, Unclean(known), "flagged"))
<1>1. proc.pc = "validate"
  BY DEF Validate, ValidateBlind, At
<1>2. PICK known : ValidateWith(known)
  BY DEF Validate, ValidateBlind
<1>3. proc = [x \in Fields |-> proc[x]] /\ Manifest(proc.manifest)
  BY <1>1, BusyFields
<1>4. PICK cl, m, p : /\ cl = CleanRecords(known)
                      /\ m = Mark(proc.manifest, Unclean(known), "flagged")
                      /\ p = [proc EXCEPT !.clean = cl, !.manifest = m]
  OBVIOUS
<1>5. proc' = Completed(p)
  BY <1>2, <1>3, <1>4 DEF ValidateWith, Fields, Unclean
<1>6. Manifest(m)
  BY <1>3, <1>4, MarkIs
<1>7. /\ p = [x \in Fields |-> p[x]] /\ SamePlace(p, proc)
      /\ p.records = proc.records /\ p.index = proc.index /\ p.clean = cl /\ p.manifest = m
      /\ p.created = proc.created
  BY <1>3, <1>4 DEF Fields, SamePlace
<1>8. Ended(proc', p)
  BY <1>5, <1>6, <1>7, CompletedIs
<1> QED
  BY <1>1, <1>4, <1>7, <1>8 DEF Ended, SamePlace, SameBatch

\* Load: the players, the index, the schools, the rows.  The names of the players
\* are taken one by one, each read, looked up and inserted.
Turns(q) ==
    \/ /\ proc.pc = "players" /\ q.pc = "names"
       /\ q.todo = Groups /\ q.created = proc.created
    \/ /\ proc.pc = "names" /\ proc.todo # <<>> /\ q.pc = "lookup"
       /\ Cardinality(KeysOfName(Head(proc.todo).name)) = 1
       /\ q.todo = proc.todo /\ q.created = proc.created
    \/ /\ proc.pc = "names" /\ proc.todo # <<>> /\ q.pc = "names"
       /\ Cardinality(KeysOfName(Head(proc.todo).name)) # 1
       /\ q.todo = Tail(proc.todo) /\ q.created = proc.created
    \/ /\ proc.pc = "lookup" /\ q.pc = "names" /\ HeadKey \in DOMAIN players
       /\ q.todo = Tail(proc.todo) /\ q.created = proc.created
    \/ /\ proc.pc = "lookup" /\ q.pc = "insert" /\ HeadKey \notin DOMAIN players
       /\ q.todo = proc.todo /\ q.created = proc.created \cup {HeadKey}
    \/ /\ proc.pc = "insert" /\ q.pc = "names"
       /\ q.todo = Tail(proc.todo) /\ q.created = proc.created

LEMMA ResolvingStep ==
    ASSUME Inv, Resolving
    PROVE  /\ proc.pc \in {"players", "names", "lookup", "insert"}
           /\ proc'.pc \in {"names", "lookup", "insert"}
           /\ SamePlace(proc', proc) /\ SameBatch(proc', proc)
           /\ proc'.manifest = proc.manifest /\ proc'.attempt = proc.attempt
           /\ Turns(proc')
<1>1. proc.pc \in {"players", "names", "lookup", "insert"}
  BY DEF Resolving, LoadPlayers, ReadNames, LookUpPlayer, InsertPlayer, At
<1>2. proc = [x \in Fields |-> proc[x]]
  BY <1>1, BusyFields
<1>3. PICK q, gs, td, h, n : /\ q = proc' /\ gs = Groups /\ td = Tail(proc.todo) /\ h = HeadKey
                             /\ n = Cardinality(KeysOfName(Head(proc.todo).name))
  OBVIOUS
<1> DEFINE Kept ==
             /\ SamePlace(q, proc) /\ SameBatch(q, proc)
             /\ q.manifest = proc.manifest /\ q.attempt = proc.attempt
<1>4. CASE LoadPlayers
  <2>1. proc.pc = "players" /\ q = [proc EXCEPT !.pc = "names", !.todo = gs]
    BY <1>3, <1>4 DEF LoadPlayers, At
  <2>2. Kept /\ q.pc = "names" /\ q.todo = gs /\ q.created = proc.created
    BY <1>2, <2>1 DEF Fields, SamePlace, SameBatch
  <2> QED
    BY <1>1, <1>3, <2>1, <2>2 DEF Turns
<1>5. CASE ReadNames
  <2>1. /\ proc.pc = "names" /\ proc.todo # <<>>
        /\ q = IF n = 1 THEN [proc EXCEPT !.pc = "lookup"] ELSE [proc EXCEPT !.todo = td]
    BY <1>2, <1>3, <1>5 DEF ReadNames, At, Fields
  <2>2. /\ Kept /\ q.created = proc.created
        /\ \/ n = 1 /\ q.pc = "lookup" /\ q.todo = proc.todo
           \/ n # 1 /\ q.pc = "names" /\ q.todo = td
    BY <1>2, <2>1 DEF Fields, SamePlace, SameBatch
  <2> QED
    BY <1>1, <1>3, <2>1, <2>2 DEF Turns
<1>6. CASE LookUpPlayer
  <2>1. PICK mg, cr : mg = proc.merged \cup {h} /\ cr = proc.created \cup {h}
    OBVIOUS
  <2>2. /\ proc.pc = "lookup"
        /\ q = IF h \in DOMAIN players
               THEN [proc EXCEPT !.pc = "names", !.todo = td, !.merged = mg]
               ELSE [proc EXCEPT !.pc = "insert", !.created = cr]
    BY <1>2, <1>3, <1>6, <2>1 DEF LookUpPlayer, At, Fields
  <2>3. /\ Kept
        /\ \/ h \in DOMAIN players /\ q.pc = "names" /\ q.todo = td /\ q.created = proc.created
           \/ h \notin DOMAIN players /\ q.pc = "insert" /\ q.todo = proc.todo /\ q.created = cr
    BY <1>2, <2>2 DEF Fields, SamePlace, SameBatch
  <2> QED
    BY <1>1, <1>3, <2>1, <2>2, <2>3 DEF Turns
<1>7. CASE InsertPlayer
  <2>1. proc.pc = "insert" /\ q = [proc EXCEPT !.pc = "names", !.todo = td]
    BY <1>2, <1>3, <1>7 DEF InsertPlayer, At, Fields
  <2>2. Kept /\ q.pc = "names" /\ q.todo = td /\ q.created = proc.created
    BY <1>2, <2>1 DEF Fields, SamePlace, SameBatch
  <2> QED
    BY <1>1, <1>3, <2>1, <2>2 DEF Turns
<1> QED
  BY <1>4, <1>5, <1>6, <1>7 DEF Resolving

LEMMA CommitPlayersStep ==
    ASSUME Inv, CommitPlayers
    PROVE  /\ proc.pc = "names" /\ proc.todo = <<>> /\ proc'.pc = "index"
           /\ SamePlace(proc', proc) /\ SameBatch(proc', proc)
           /\ proc'.manifest = proc.manifest /\ proc'.attempt = proc.attempt
           /\ proc'.created = {}
           /\ DOMAIN players' = DOMAIN players \cup proc.created
<1>1. proc.pc = "names" /\ proc.todo = <<>> /\ DOMAIN players' = DOMAIN players \cup proc.created
  BY DEF CommitPlayers, At
<1>2. proc = [x \in Fields |-> proc[x]]
  BY <1>1, BusyFields
<1>3. PICK k, td : k = proc.merged \cup proc.created /\ td = NamingSchool
  OBVIOUS
<1>4. proc' = [proc EXCEPT !.pc = "index", !.resolved = k, !.merged = {}, !.created = {}, !.todo = td]
  BY <1>3 DEF CommitPlayers
<1> QED
  BY <1>1, <1>2, <1>3, <1>4 DEF Fields, SamePlace, SameBatch

LEMMA BuildIndexStep ==
    ASSUME Inv, BuildIndex
    PROVE  /\ proc.pc = "index" /\ proc'.pc = "schools" /\ SamePlace(proc', proc)
           /\ proc'.created = proc.created
           /\ proc'.records = proc.records /\ proc'.clean = proc.clean
           /\ proc'.index = DOMAIN players /\ proc'.manifest = proc.manifest
<1>1. proc.pc = "index"
  BY DEF BuildIndex, At
<1>2. proc = [x \in Fields |-> proc[x]]
  BY <1>1, BusyFields
<1> QED
  BY <1>1, <1>2 DEF BuildIndex, Fields, SamePlace

LEMMA EndSchoolsStep ==
    ASSUME Inv, EndSchools
    PROVE  /\ proc.pc = "schools" /\ proc'.pc = "rows" /\ proc'.created = proc.created
           /\ SamePlace(proc', proc) /\ SameBatch(proc', proc)
           /\ proc'.manifest = proc.manifest /\ proc'.todo = Others
<1>1. proc.pc = "schools"
  BY DEF EndSchools, At
<1>2. proc = [x \in Fields |-> proc[x]]
  BY <1>1, BusyFields
<1>3. PICK td : td = Others
  OBVIOUS
<1>4. proc' = [proc EXCEPT !.pc = "rows", !.todo = td]
  BY <1>3 DEF EndSchools
<1> QED
  BY <1>1, <1>2, <1>3, <1>4 DEF Fields, SamePlace, SameBatch

\* The head of the list is done with.
Passed(q, p) ==
    /\ SamePlace(q, p) /\ SameBatch(q, p) /\ q.created = p.created
    /\ q.pc = p.pc /\ q.todo = Tail(p.todo)

\* The head is marked and the rest is left.
LEMMA DoneIs ==
    ASSUME Inv, proc.pc # "idle", NEW status, Done(status)
    PROVE  /\ Passed(proc', proc)
           /\ proc'.manifest = Mark(proc.manifest, {RecordId(Head(proc.todo))}, status)
<1>1. proc = [x \in Fields |-> proc[x]]
  BY BusyFields
<1>2. PICK td, m : td = Tail(proc.todo) /\ m = Mark(proc.manifest, {RecordId(Head(proc.todo))}, status)
  OBVIOUS
<1>3. proc' = [proc EXCEPT !.todo = td, !.manifest = m]
  BY <1>1, <1>2 DEF Done, Fields
<1> QED
  BY <1>1, <1>2, <1>3 DEF Fields, Passed, SamePlace, SameBatch

LEMMA AttachSchoolStep ==
    ASSUME Inv, AttachSchool
    PROVE  /\ proc.pc = "schools" /\ Passed(proc', proc)
           /\ \/ proc'.manifest = proc.manifest
              \/ proc'.manifest = Mark(proc.manifest, {RecordId(Head(proc.todo))}, "flagged")
           /\ DOMAIN players' = DOMAIN players
<1>1. proc.pc = "schools"
  BY DEF AttachSchool, At
<1>2. proc = [x \in Fields |-> proc[x]]
  BY <1>1, BusyFields
<1>3. DOMAIN players' = DOMAIN players
  BY DEF AttachSchool
<1>4. CASE Done("flagged")
  BY <1>1, <1>3, <1>4, DoneIs
<1>5. CASE proc' = [proc EXCEPT !.todo = Tail(@)]
  <2>1. PICK td : td = Tail(proc.todo)
    OBVIOUS
  <2>2. proc' = [proc EXCEPT !.todo = td]
    BY <1>2, <1>5, <2>1 DEF Fields
  <2>3. Passed(proc', proc) /\ proc'.manifest = proc.manifest
    BY <1>2, <2>1, <2>2 DEF Fields, Passed, SamePlace, SameBatch
  <2> QED
    BY <1>1, <1>3, <2>3
<1> QED
  BY <1>4, <1>5 DEF AttachSchool

\* Load and Archive end when nothing is left.
LEMMA EndLoadStep ==
    ASSUME Inv, EndLoad
    PROVE  proc.pc = "rows" /\ proc.todo = <<>> /\ Ended(proc', proc)
<1>1. proc.pc = "rows" /\ proc.todo = <<>> /\ proc' = Completed(proc)
  BY DEF EndLoad, At
<1> QED
  BY <1>1, BusyFields, CompletedIs

LEMMA EndArchiveStep ==
    ASSUME Inv, EndArchive
    PROVE  proc.pc = "originals" /\ proc.todo = <<>> /\ Ended(proc', proc)
<1>1. proc.pc = "originals" /\ proc.todo = <<>> /\ proc' = Completed(proc)
  BY DEF EndArchive, At
<1> QED
  BY <1>1, BusyFields, CompletedIs

\* An original is stored and the next one follows.
LEMMA ArchiveFileStep ==
    ASSUME Inv, ArchiveFile
    PROVE  /\ proc.pc = "originals" /\ proc.todo # <<>> /\ Passed(proc', proc)
           /\ proc'.manifest = SetFiles(proc.manifest, {Head(proc.todo)}, "archive", "done")
<1>1. proc.pc = "originals" /\ proc.todo # <<>>
  BY DEF ArchiveFile, At
<1>2. proc = [x \in Fields |-> proc[x]]
  BY <1>1, BusyFields
<1>3. PICK td, m : /\ td = Tail(proc.todo)
                   /\ m = SetFiles(proc.manifest, {Head(proc.todo)}, "archive", "done")
  OBVIOUS
<1>4. proc' = [proc EXCEPT !.todo = td, !.attempt = 1, !.manifest = m]
  BY <1>2, <1>3 DEF ArchiveFile, Fields
<1> QED
  BY <1>1, <1>2, <1>3, <1>4 DEF Fields, Passed, SamePlace, SameBatch

\* Where the process is lost or waits for another attempt.
LEMMA ArchiveFailsStep ==
    ASSUME Inv, ArchiveFails
    PROVE  /\ proc.pc = "originals"
           /\ \/ proc' = NoProcess
              \/ proc'.pc = "backoff" /\ Moved(proc', proc)
<1>1. proc.pc = "originals"
  BY DEF ArchiveFails, At
<1>2. proc' = NoProcess \/ Goto("backoff")
  BY DEF ArchiveFails, Halt
<1> QED
  BY <1>1, <1>2, GotoIs

\* A run starts with an empty batch.
LEMMA StartRunStep ==
    ASSUME NEW c \in Commands, StartRun(c)
    PROVE  /\ proc'.pc = "connect" /\ proc'.stage = "connect" /\ proc'.cmd = c
           /\ proc'.records = <<>> /\ proc'.clean = <<>> /\ proc'.index = {}
           /\ proc'.created = {}
           /\ ~c.resume => proc'.manifest = Fresh
<1>1. PICK m : proc' = NewProcess(c, m) /\ (~c.resume => m = Fresh)
  BY DEF StartRun
<1> QED
  BY <1>1 DEF NewProcess

-----------------------------------------------------------------------------
(* Where a run is: each stage has its points, and the stages follow in order.*)

Rank == [connect |-> 0, collect |-> 1, extract |-> 2, validate |-> 3, load |-> 4,
         archive |-> 5, finished |-> 6]

AllStages == {"collect", "extract", "validate", "load", "archive"}

Places ==
    {<<"connect", "connect">>, <<"collect", "collect">>, <<"extract", "images">>,
     <<"extract", "documents">>, <<"extract", "backoff">>, <<"validate", "validate">>,
     <<"load", "players">>, <<"load", "names">>, <<"load", "lookup">>, <<"load", "insert">>,
     <<"load", "index">>, <<"load", "schools">>, <<"load", "rows">>,
     <<"archive", "originals">>, <<"archive", "backoff">>, <<"finished", "finished">>}
    \cup (AllStages \X {"save"})

Placed(p) == p.cmd \in Commands /\ <<p.stage, p.pc>> \in Places

\* The stages of a command line.
LEMMA StagesAre ==
    /\ ToSet(ALL_STAGES) = AllStages
    /\ \A n \in 1..5 : ALL_STAGES[n] \in AllStages /\ Rank[ALL_STAGES[n]] = n
    /\ \A s \in AllStages : Rank[s] \in 1..5 /\ ALL_STAGES[Rank[s]] = s
<1>1. /\ Len(ALL_STAGES) = 5 /\ DOMAIN ALL_STAGES = 1..5
      /\ ALL_STAGES[1] = "collect" /\ ALL_STAGES[2] = "extract" /\ ALL_STAGES[3] = "validate"
      /\ ALL_STAGES[4] = "load" /\ ALL_STAGES[5] = "archive"
  BY DEF ALL_STAGES
<1>2. \A n \in 1..5 : n = 1 \/ n = 2 \/ n = 3 \/ n = 4 \/ n = 5
  OBVIOUS
<1>3. /\ Rank["collect"] = 1 /\ Rank["extract"] = 2 /\ Rank["validate"] = 3
      /\ Rank["load"] = 4 /\ Rank["archive"] = 5
  BY DEF Rank
<1>4. \A s \in AllStages : \E n \in 1..5 : s = ALL_STAGES[n] /\ Rank[s] = n
  BY <1>1, <1>3 DEF AllStages
<1>5. \A n \in 1..5 : ALL_STAGES[n] \in AllStages /\ Rank[ALL_STAGES[n]] = n
  BY <1>1, <1>2, <1>3 DEF AllStages
<1>6. ToSet(ALL_STAGES) = AllStages
  BY <1>1, <1>4, <1>5 DEF ToSet
<1> QED
  BY <1>4, <1>5, <1>6

\* The least of the numbers up to 5 that are left.
LEMMA LeastIs ==
    ASSUME NEW S \in SUBSET (1..5), S # {}
    PROVE  Min(S) \in S /\ \A n \in S : Min(S) =< n
<1>1. \E m \in S : \A n \in S : m =< n
  <2>1. \A n \in S : n = 1 \/ n = 2 \/ n = 3 \/ n = 4 \/ n = 5
    OBVIOUS
  <2>2. CASE 1 \in S
    BY <2>1, <2>2
  <2>3. CASE 1 \notin S /\ 2 \in S
    BY <2>1, <2>3
  <2>4. CASE 1 \notin S /\ 2 \notin S /\ 3 \in S
    BY <2>1, <2>4
  <2>5. CASE 1 \notin S /\ 2 \notin S /\ 3 \notin S /\ 4 \in S
    BY <2>1, <2>5
  <2>6. CASE S = {5}
    BY <2>6
  <2>7. \/ 1 \in S \/ 2 \in S \/ 3 \in S \/ 4 \in S
        \/ S = {5}
    BY <2>1
  <2> QED
    BY <2>2, <2>3, <2>4, <2>5, <2>6, <2>7
<1> QED
  BY <1>1 DEF Min

\* The next stage is a selected one or the end, and none is skipped.
LEMMA NextStageIs ==
    ASSUME NEW s \in {"connect"} \cup AllStages, NEW stages
    PROVE  LET next == NextStage(s, stages)
           IN  /\ next \in (stages \cap AllStages) \cup {"finished"}
               /\ Rank[s] < Rank[next]
               /\ \A t \in stages \cap AllStages : Rank[s] < Rank[t] => Rank[next] =< Rank[t]
<1>1. PICK from : from = IF s = "connect" THEN 0 ELSE CHOOSE n \in 1..5 : ALL_STAGES[n] = s
  OBVIOUS
<1>2. from = Rank[s] /\ from \in 0..5
  <2>1. CASE s = "connect"
    BY <1>1, <2>1 DEF Rank
  <2>2. CASE s # "connect"
    <3>1. s \in AllStages
      BY <2>2
    <3>2. \E n \in 1..5 : ALL_STAGES[n] = s
      BY <3>1, StagesAre
    <3>3. from \in 1..5 /\ ALL_STAGES[from] = s
      BY <1>1, <2>2, <3>2
    <3> QED
      BY <3>3, StagesAre
  <2> QED
    BY <2>1, <2>2
<1>3. PICK left : left = {n \in from + 1..5 : ALL_STAGES[n] \in stages}
  OBVIOUS
<1>4. NextStage(s, stages) = IF left = {} THEN "finished" ELSE ALL_STAGES[Min(left)]
  BY <1>1, <1>3 DEF NextStage
<1>5. \A n \in left : n \in 1..5 /\ from < n /\ ALL_STAGES[n] \in stages \cap AllStages /\ Rank[ALL_STAGES[n]] = n
  BY <1>2, <1>3, StagesAre
<1>6. \A t \in stages \cap AllStages : Rank[s] < Rank[t] => Rank[t] \in left
  BY <1>2, <1>3, StagesAre
<1>7. CASE left = {}
  <2>1. Rank["finished"] = 6
    BY DEF Rank
  <2> QED
    BY <1>2, <1>4, <1>6, <1>7, <2>1
<1>8. CASE left # {}
  <2>1. Min(left) \in left /\ \A n \in left : Min(left) =< n
    BY <1>5, <1>8, LeastIs
  <2>2. NextStage(s, stages) = ALL_STAGES[Min(left)]
    BY <1>4, <1>8
  <2> QED
    BY <1>2, <1>5, <1>6, <2>1, <2>2
<1> QED
  BY <1>7, <1>8

\* What is loaded has been validated, and what is validated extracted.
LEMMA StagesToRunAre ==
    ASSUME NEW c \in Commands
    PROVE  LET S == StagesToRun(c.stage)
           IN  /\ S \subseteq AllStages /\ "collect" \in S
               /\ "load" \in S => "validate" \in S
               /\ "validate" \in S => "extract" \in S
<1>1. c.stage = "all" \/ c.stage \in AllStages
  BY PipelineAssumption, StagesAre
<1>2. CASE c.stage = "all"
  <2>1. StagesToRun(c.stage) = AllStages
    BY <1>2, StagesAre DEF StagesToRun
  <2> QED
    BY <2>1 DEF AllStages
<1>3. CASE c.stage = "archive"
  <2>1. StagesToRun(c.stage) = {"collect", "archive"}
    BY <1>3 DEF StagesToRun
  <2> QED
    BY <2>1 DEF AllStages
<1>4. CASE c.stage \in AllStages \ {"archive"}
  <2>1. PICK n : n = CHOOSE m \in 1..4 : ALL_STAGES[m] = c.stage
    OBVIOUS
  <2>2. StagesToRun(c.stage) = {ALL_STAGES[i] : i \in 1..n}
    BY <1>4, <2>1 DEF StagesToRun, AllStages
  <2>3. Rank[c.stage] \in 1..4 /\ ALL_STAGES[Rank[c.stage]] = c.stage
    <3>1. ALL_STAGES[5] = "archive"
      BY DEF ALL_STAGES
    <3>2. Rank[c.stage] \in 1..5 /\ ALL_STAGES[Rank[c.stage]] = c.stage
      BY <1>4, StagesAre
    <3>3. Rank[c.stage] # 5
      BY <1>4, <3>1, <3>2
    <3> QED
      BY <3>2, <3>3
  <2>4. n \in 1..4
    BY <2>1, <2>3
  <2>5. \A i \in 1..n : i \in 1..5
    BY <2>4
  <2>6. StagesToRun(c.stage) \subseteq AllStages
    BY <2>2, <2>5, StagesAre
  <2>7. \A s \in AllStages : s \in StagesToRun(c.stage) <=> Rank[s] =< n
    <3>1. ASSUME NEW s \in AllStages, Rank[s] =< n PROVE s \in StagesToRun(c.stage)
      <4>1. Rank[s] \in 1..n /\ ALL_STAGES[Rank[s]] = s
        BY <2>4, <3>1, StagesAre
      <4> QED
        BY <2>2, <4>1
    <3>2. ASSUME NEW s \in AllStages, s \in StagesToRun(c.stage) PROVE Rank[s] =< n
      <4>1. PICK i \in 1..n : s = ALL_STAGES[i]
        BY <2>2, <3>2
      <4> QED
        BY <2>4, <2>5, <4>1, StagesAre
    <3> QED
      BY <3>1, <3>2
  <2>8. Rank["collect"] = 1 /\ Rank["extract"] = 2 /\ Rank["validate"] = 3 /\ Rank["load"] = 4
    BY DEF Rank
  <2>9. {"collect", "extract", "validate", "load"} \subseteq AllStages
    BY DEF AllStages
  <2> QED
    BY <2>4, <2>6, <2>7, <2>8, <2>9
<1> QED
  BY <1>1, <1>2, <1>3, <1>4

OnPlace == proc = NoProcess \/ Placed(proc)

\* A run in a stage is at one of its points.
LEMMA PlacesAre ==
    ASSUME NEW p, Placed(p)
    PROVE  /\ p.cmd \in Commands /\ p.pc # "idle"
           /\ p.pc = "connect" => p.stage = "connect"
           /\ p.pc = "collect" => p.stage = "collect"
           /\ p.pc \in {"images", "documents"} => p.stage = "extract"
           /\ p.pc = "validate" => p.stage = "validate"
           /\ p.pc \in {"players", "names", "lookup", "insert", "index", "schools", "rows"} =>
                 p.stage = "load"
           /\ p.pc = "originals" => p.stage = "archive"
           /\ p.pc = "backoff" => p.stage \in {"extract", "archive"}
           /\ p.pc = "save" => p.stage \in AllStages
           /\ p.pc = "finished" => p.stage = "finished"
  BY DEF Placed, Places, AllStages

\* The first point of a stage.
Doors == {<<"collect", "collect">>, <<"extract", "images">>, <<"validate", "validate">>,
          <<"load", "players">>, <<"archive", "originals">>, <<"finished", "finished">>}

\* A stage is entered at its first point.
LEMMA FirstStepIs ==
    ASSUME NEW stage \in AllStages \cup {"finished"}
    PROVE  <<stage, FirstStep(stage)>> \in Doors
<1>1. stage \in {"collect", "extract", "validate", "load", "archive", "finished"}
  BY DEF AllStages
<1> QED
  BY <1>1 DEF FirstStep, Doors

\* The next stage is entered at its first point; nothing selected is passed over.
LEMMA EntersADoor ==
    ASSUME NEW p, Placed(p), p.pc \in {"connect", "save"}, NEW q, Entered(q, p)
    PROVE  /\ Placed(q)
           /\ <<q.stage, q.pc>> \in Doors
           /\ q.cmd = p.cmd
           /\ SameBatch(q, p) /\ SameBook(q.manifest, p.manifest)
           /\ q.stage \in StagesToRun(p.cmd.stage) \cup {"finished"}
           /\ Rank[p.stage] < Rank[q.stage]
           /\ \A t \in StagesToRun(p.cmd.stage) : Rank[p.stage] < Rank[t] => Rank[q.stage] =< Rank[t]
           /\ q.stage = "archive" => q.todo = Pending(p, "archive")
<1>1. p.stage \in {"connect"} \cup AllStages /\ p.cmd \in Commands
  BY PlacesAre
<1>2. StagesToRun(p.cmd.stage) \subseteq AllStages
  BY <1>1, StagesToRunAre
<1>3. PICK next : next = NextStage(p.stage, StagesToRun(p.cmd.stage))
  OBVIOUS
<1>4. /\ next \in (StagesToRun(p.cmd.stage) \cap AllStages) \cup {"finished"}
      /\ Rank[p.stage] < Rank[next]
      /\ \A t \in StagesToRun(p.cmd.stage) \cap AllStages :
            Rank[p.stage] < Rank[t] => Rank[next] =< Rank[t]
  BY <1>1, <1>3, NextStageIs
<1>5. /\ q.cmd = p.cmd /\ q.stage = next /\ q.pc = FirstStep(next)
      /\ SameBatch(q, p) /\ SameBook(q.manifest, p.manifest)
      /\ next = "archive" => q.todo = Pending(p, "archive")
  BY <1>3 DEF Entered
<1>6. <<q.stage, q.pc>> \in Doors
  BY <1>4, <1>5, FirstStepIs
<1>7. Doors \subseteq Places
  BY DEF Doors, Places
<1> QED
  BY <1>1, <1>2, <1>4, <1>5, <1>6, <1>7 DEF Placed

\* An error that ends the run, a crash and the exit.
LEMMA LostRun ==
    ASSUME NoLocation \/ LoadAborts \/ NoBucket \/ Crash \/ Exit
    PROVE  proc' = NoProcess
  BY DEF NoLocation, LoadAborts, NoBucket, Crash, Exit, Halt

\* The batch of images fails, or is read.
LEMMA ImagesFailStep ==
    ASSUME Inv, ImagesFail
    PROVE  /\ proc.pc = "images"
           /\ \/ proc'.pc = "backoff" /\ Moved(proc', proc)
              \/ ToDocuments(<<>>, SetFiles(proc.manifest, ToSet(ToExtract("image")), "extract", "failed"))
<1>1. proc.pc = "images"
  BY DEF ImagesFail, At
<1> QED
  BY <1>1, GotoIs DEF ImagesFail

LEMMA ExtractImagesStep ==
    ASSUME Inv, ExtractImages
    PROVE  /\ proc.pc = "images"
           /\ LET files == ToExtract("image")
              IN  \E said : /\ DOMAIN said = 1..Len(files)
                            /\ \A i \in 1..Len(files) : said[i] \in Readings[files[i]]
                            /\ ToDocuments(BatchRecords(files, said),
                                           SetFiles(proc.manifest, ToSet(files), "extract", "done"))
<1>1. proc.pc = "images"
  BY DEF ExtractImages, At
<1>2. ASSUME NEW files
      PROVE  \A said \in [1..Len(files) -> UNION {Readings[files[i]] : i \in 1..Len(files)}] :
                DOMAIN said = 1..Len(files)
  OBVIOUS
<1> QED
  BY <1>1, <1>2 DEF ExtractImages

\* A record that is not loaded is flagged, or the run is lost.
LEMMA NotLoadedStep ==
    ASSUME Inv, faults \in Nat, LoadOneUnresolved \/ LoadOneFails
    PROVE  /\ proc.pc = "rows" /\ proc.todo # <<>>
           /\ proc' = NoProcess \/ Done("flagged")
           /\ rows' = rows
           /\ LoadOneUnresolved => ~Loadable(Head(proc.todo))
           /\ LoadOneFails => faults' # 0
<1>1. proc.pc = "rows" /\ proc.todo # <<>> /\ rows' = rows
  BY DEF LoadOneUnresolved, LoadOneFails, At, db
<1>2. LoadOneUnresolved => ~Loadable(Head(proc.todo)) /\ Done("flagged")
  BY DEF LoadOneUnresolved
<1>3. LoadOneFails => Fault /\ (proc' = NoProcess \/ Done("flagged"))
  BY DEF LoadOneFails, Halt
<1>4. Fault /\ faults \in Nat => faults' # 0
  BY DEF Fault
<1> QED
  BY <1>1, <1>2, <1>3, <1>4

\* Every step takes a run from a place to a place.
LEMMA PlacedKeeps == ASSUME Inv, faults \in Nat, OnPlace, [Next]_vars PROVE OnPlace'
<1>0. proc.pc # "idle" => Placed(proc)
  BY DEF OnPlace, NoProcess
<1>1. CASE proc' = proc \/ proc' = NoProcess
  BY <1>1 DEF OnPlace, Placed
<1>2. ASSUME NEW c \in Commands, StartRun(c) PROVE Placed(proc')
  BY <1>2, StartRunStep DEF Placed, Places
<1>3. CASE Connect \/ ConnectFails
  <2>1. proc.pc = "connect" /\ (proc' = NoProcess \/ Entered(proc', proc))
    BY <1>3, ConnectStep
  <2>2. CASE Entered(proc', proc)
    BY <1>0, <2>1, <2>2, EntersADoor DEF OnPlace
  <2> QED
    BY <1>1, <2>1, <2>2
<1>4. CASE Save
  <2>1. proc.pc = "save" /\ Entered(proc', proc)
    BY <1>4, SaveStep
  <2> QED
    BY <1>0, <2>1, EntersADoor DEF OnPlace
<1>5. CASE Collect
  BY <1>5, CollectStep, PlacesAre DEF OnPlace, NoProcess, Placed, SamePlace, Places, AllStages
<1>6. ASSUME NEW recs, NEW m, ToDocuments(recs, m), proc.pc = "images" PROVE Placed(proc')
  BY <1>6, ToDocumentsIs, PlacesAre DEF OnPlace, NoProcess, Placed, SamePlace, Places
<1>7. CASE ExtractImages
  BY <1>6, <1>7, ExtractImagesStep DEF OnPlace
<1>8. CASE ImagesFail
  <2>1. CASE proc'.pc = "backoff" /\ Moved(proc', proc) /\ proc.pc = "images"
    BY <2>1, PlacesAre DEF OnPlace, NoProcess, Placed, Moved, SamePlace, Places
  <2> QED
    BY <1>6, <1>8, <2>1, ImagesFailStep DEF OnPlace
<1>9. CASE Retry
  <2>1. /\ proc.pc = "backoff" /\ proc'.pc = FirstStep(proc.stage) /\ Moved(proc', proc)
        /\ Placed(proc)
    BY <1>9, RetryStep DEF OnPlace, NoProcess
  <2>2. proc.stage \in {"extract", "archive"}
    BY <2>1, PlacesAre
  <2>3. <<proc.stage, FirstStep(proc.stage)>> \in Doors
    BY <2>2, FirstStepIs DEF AllStages
  <2> QED
    BY <2>1, <2>3 DEF OnPlace, Placed, Moved, SamePlace, Places, Doors
<1>10. CASE ExtractDocument \/ DocumentFails
  <2>1. proc.pc = "documents" /\ proc'.pc = "documents" /\ SamePlace(proc', proc)
    BY <1>10, ExtractDocumentStep, DocumentFailsStep
  <2> QED
    BY <1>0, <2>1 DEF OnPlace, Placed, SamePlace
<1>11. CASE EndExtract
  BY <1>11, EndExtractStep, PlacesAre DEF OnPlace, NoProcess, Placed, SamePlace, Places, AllStages
<1>12. CASE Validate \/ ValidateBlind
  BY <1>12, ValidateStep, PlacesAre DEF OnPlace, NoProcess, Placed, SamePlace, Places, AllStages
<1>13. CASE Resolving \/ CommitPlayers
  BY <1>13, ResolvingStep, CommitPlayersStep, PlacesAre
  DEF OnPlace, NoProcess, Placed, SamePlace, Places
<1>14. CASE NoLocation \/ LoadAborts \/ NoBucket \/ Crash \/ Exit
  BY <1>14, LostRun DEF OnPlace
<1>15. CASE BuildIndex
  BY <1>15, BuildIndexStep, PlacesAre DEF OnPlace, NoProcess, Placed, SamePlace, Places
<1>16. CASE AttachSchool
  BY <1>16, AttachSchoolStep, PlacesAre DEF OnPlace, NoProcess, Placed, Passed, SamePlace, Places
<1>17. CASE EndSchools
  BY <1>17, EndSchoolsStep, PlacesAre DEF OnPlace, NoProcess, Placed, SamePlace, Places
<1>18. ASSUME NEW status, Done(status), proc.pc = "rows" PROVE OnPlace'
  BY <1>18, DoneIs, PlacesAre DEF OnPlace, NoProcess, Placed, Passed, SamePlace, Places
<1>19. CASE LoadOne
  <2>1. \E status : Done(status)
    BY <1>19 DEF LoadOne, InsertOrSkip
  <2> QED
    BY <1>18, <1>19, <2>1 DEF LoadOne, At
<1>20. CASE LoadOneUnresolved \/ LoadOneFails
  BY <1>1, <1>18, <1>20, NotLoadedStep
<1>21. CASE EndLoad \/ EndArchive
  BY <1>21, EndLoadStep, EndArchiveStep, PlacesAre
  DEF OnPlace, NoProcess, Placed, Ended, SamePlace, Places, AllStages
<1>22. CASE ArchiveFile
  BY <1>22, ArchiveFileStep, PlacesAre DEF OnPlace, NoProcess, Placed, Passed, SamePlace, Places
<1>23. CASE ArchiveFails
  <2>1. CASE proc.pc = "originals" /\ proc'.pc = "backoff" /\ Moved(proc', proc)
    BY <2>1, PlacesAre DEF OnPlace, NoProcess, Placed, Moved, SamePlace, Places
  <2> QED
    BY <1>1, <1>23, <2>1, ArchiveFailsStep
<1>24. CASE \E k \in ApiPlayers : ApiLookUp(k) \/ ApiRegister(k)
  BY <1>1, <1>24 DEF ApiLookUp, ApiRegister
<1>25. CASE UNCHANGED vars
  BY <1>1, <1>25 DEF vars
<1> QED
  BY <1>2, <1>3, <1>4, <1>5, <1>7, <1>8, <1>9, <1>10, <1>11, <1>12, <1>13, <1>14, <1>15,
     <1>16, <1>17, <1>19, <1>20, <1>21, <1>22, <1>23, <1>24, <1>25
  DEF Next, Step, OnPlace, Resolving

-----------------------------------------------------------------------------
(* The audited ledger.  A player that two transactions have found missing  *)
(* is entered by one and journalled again by the other, so the books are   *)
(* kept only if each of them does so at most once.                         *)

\* A player that is there and still claimed by the load is one of the API's, whose
\* request is over.
Apart ==
    /\ asking \subseteq ApiPlayers
    /\ \A k \in Claims \cap DOMAIN players : k \in ApiPlayers \ asking

\* The keys that are there and claimed by someone who found them missing.
Contested == DOMAIN players \cap (asking \cup Claims)

\* A step that enters the keys ins is one of the ledger's if it settles those that
\* are there already and if only the API's come to be contested.
LEMMA Transaction ==
    ASSUME NEW ins, Journals(ins),
           ins \cap (DOMAIN players \cup DOMAIN rows) \subseteq Contested \ Contested',
           Contested' \subseteq Contested \cup
               (ApiPlayers \cap ((DOMAIN players' \cup DOMAIN rows') \ (DOMAIN players \cup DOMAIN rows)))
    PROVE  Ledger!Commit
<1>1. PICK E, F, c, d : /\ E = DOMAIN players \cup DOMAIN rows
                        /\ F = DOMAIN players' \cup DOMAIN rows'
                        /\ c = Contested /\ d = Contested'
  OBVIOUS
<1>2. F = E \cup ins /\ ins \cap E \subseteq c \ d /\ d \subseteq c \cup (ApiPlayers \cap (F \ E))
  BY <1>1 DEF Journals
<1>3. \A k \in F \ E : Ledger!Inserts(k)' = Ledger!Inserts(k) + 1
  BY <1>2 DEF Journals, One
<1>4. \A k \in E : \/ Ledger!Inserts(k)' = Ledger!Inserts(k)
                   \/ Ledger!Inserts(k)' = Ledger!Inserts(k) + 1 /\ k \in c \ d
  BY <1>2 DEF Journals, One
<1>5. \A e \in DOMAIN audit' : e[1] \in F
  BY <1>1 DEF Journals, Audited
<1> QED
  BY <1>1, <1>2, <1>3, <1>4, <1>5 DEF Ledger!Commit, Journals, Contested

\* So is a step that enters nothing.
LEMMA NoTransaction ==
    ASSUME Inv, DOMAIN players' = DOMAIN players, UNCHANGED <<rows, audit>>,
           Contested' \subseteq Contested
    PROVE  Ledger!Commit
<1>1. \A e : Ledger!Times(e)' = Ledger!Times(e) /\ Ledger!Times(e) \in Nat
  BY DEF Inv, Audited, IsABag, Ledger!Times
<1>2. \A k : Ledger!Inserts(k)' = Ledger!Inserts(k) /\ Ledger!Inserts(k) \in Nat
  BY <1>1 DEF Ledger!Inserts
<1>3. Journals({})
  BY <1>1, <1>2 DEF Inv, Audited, Journals, One
<1> QED
  BY <1>3, Transaction

\* No other step of a run claims a player that is there.
LEMMA ClaimsStay ==
    ASSUME Inv, OutsideTheDatabase \/ AttachSchool \/ LoadOne
    PROVE  Claims' \cap DOMAIN players \subseteq Claims
<1> DEFINE Stay == proc.pc # "idle" /\ proc'.created = proc.created
<1>1. ASSUME proc' = NoProcess \/ proc'.created = {} \/ Stay
             \/ (proc.pc # "idle" /\ \E k : k \notin DOMAIN players
                                            /\ proc'.created = proc.created \cup {k})
      PROVE  Claims' \cap DOMAIN players \subseteq Claims
  BY <1>1 DEF Claims, At, NoProcess
<1>2. CASE \E c \in Commands : StartRun(c)
  BY <1>1, <1>2, StartRunStep
<1>3. CASE Connect \/ ConnectFails \/ Save
  BY <1>1, <1>3, ConnectStep, SaveStep DEF Entered
<1>4. CASE Collect \/ Retry \/ ExtractDocument \/ DocumentFails \/ EndExtract
  BY <1>1, <1>4, CollectStep, RetryStep, ExtractDocumentStep, DocumentFailsStep,
     EndExtractStep DEF Moved
<1>5. ASSUME NEW recs, NEW m, ToDocuments(recs, m), proc.pc = "images" PROVE Stay
  BY <1>5, ToDocumentsIs
<1>6. CASE ExtractImages
  BY <1>1, <1>5, <1>6, ExtractImagesStep
<1>7. CASE ImagesFail
  BY <1>1, <1>5, <1>7, ImagesFailStep DEF Moved
<1>8. CASE Validate \/ ValidateBlind
  BY <1>1, <1>8, ValidateStep
<1>9. CASE Resolving
  BY <1>1, <1>9, ResolvingStep DEF Turns
<1>10. CASE NoLocation \/ LoadAborts \/ NoBucket \/ Crash \/ Exit
  BY <1>1, <1>10, LostRun
<1>11. CASE BuildIndex \/ EndSchools
  BY <1>1, <1>11, BuildIndexStep, EndSchoolsStep
<1>12. CASE AttachSchool
  BY <1>1, <1>12, AttachSchoolStep DEF Passed
<1>13. ASSUME NEW status, Done(status), proc.pc = "rows" PROVE Stay
  BY <1>13, DoneIs DEF Passed
<1>14. CASE LoadOne
  <2>1. \E status : Done(status)
    BY <1>14 DEF LoadOne, InsertOrSkip
  <2> QED
    BY <1>1, <1>13, <1>14, <2>1 DEF LoadOne, At
<1>15. CASE LoadOneUnresolved \/ LoadOneFails
  <2>1. proc.pc = "rows" /\ (proc' = NoProcess \/ \E status : Done(status))
    BY <1>15 DEF LoadOneUnresolved, LoadOneFails, At, Halt
  <2> QED
    BY <1>1, <1>13, <2>1
<1>16. CASE EndLoad \/ EndArchive
  BY <1>1, <1>16, EndLoadStep, EndArchiveStep DEF Ended
<1>17. CASE ArchiveFile
  BY <1>1, <1>17, ArchiveFileStep DEF Passed
<1>18. CASE ArchiveFails
  BY <1>1, <1>18, ArchiveFailsStep DEF Moved
<1> QED
  BY <1>2, <1>3, <1>4, <1>6, <1>7, <1>8, <1>9, <1>10, <1>11, <1>12, <1>14, <1>15, <1>16,
     <1>17, <1>18 DEF OutsideTheDatabase, Resolving

\* Steps that claim nothing and leave the players alone.
LEMMA ApartStays ==
    ASSUME Apart, asking' = asking, DOMAIN players' = DOMAIN players,
           Claims' \cap DOMAIN players \subseteq Claims
    PROVE  Apart' /\ Contested' \subseteq Contested
  BY DEF Apart, Contested

\* The load commits: what it claims is entered, or was by a request that is over.
LEMMA CommitPlayersApart ==
    ASSUME Inv, Apart, CommitPlayers
    PROVE  Apart' /\ Ledger!Commit
<1>1. PICK new, P2 : new = proc.created /\ P2 = DOMAIN players'
  OBVIOUS
<1>2. /\ proc.pc = "names" /\ asking' = asking /\ rows' = rows
      /\ P2 = DOMAIN players \cup new
      /\ proc'.pc = "index" /\ proc'.created = {}
  BY <1>1, CommitPlayersStep DEF CommitPlayers
<1>3. Claims = new /\ Claims' = {}
  BY <1>1, <1>2 DEF Claims, At
<1>4. /\ asking \subseteq ApiPlayers
      /\ \A k \in new \cap DOMAIN players : k \notin asking
  BY <1>3 DEF Apart
<1>5. Apart'
  BY <1>2, <1>3, <1>4 DEF Apart
<1>6. Contested = DOMAIN players \cap (asking \cup new) /\ Contested' = P2 \cap asking
  BY <1>1, <1>2, <1>3 DEF Contested
<1>7. /\ \A k \in new : k = <<"players", k[2], k[3]>>
      /\ \A k \in asking : k = <<"players", k[2], k[3]>>
  BY <1>1, <1>2, <1>4, Busy, PipelineAssumption DEF Running
<1>8. \A k \in new \cup asking : k \notin DOMAIN rows
  BY <1>7, KeysDiffer DEF Inv, Keyed
<1>9. Journals(new)
  BY <1>1, CommitPlayersKeeps
<1>10. new \cap (DOMAIN players \cup DOMAIN rows) \subseteq Contested \ Contested'
  BY <1>4, <1>6, <1>8
<1>11. Contested' \subseteq Contested \cup
          (ApiPlayers \cap ((DOMAIN players' \cup DOMAIN rows') \ (DOMAIN players \cup DOMAIN rows)))
  BY <1>1, <1>4, <1>6, <1>8
<1> QED
  BY <1>5, <1>9, <1>10, <1>11, Transaction

\* The API commits: its player is entered, or was by a load that is over.
LEMMA ApiRegisterApart ==
    ASSUME Inv, Apart, NEW k \in ApiPlayers, ApiRegister(k)
    PROVE  Apart' /\ Ledger!Commit
<1>1. PICK P2, A2 : P2 = DOMAIN players' /\ A2 = asking'
  OBVIOUS
<1>2. /\ k \in asking /\ A2 = asking \ {k} /\ proc' = proc /\ rows' = rows
      /\ P2 = DOMAIN players \cup {k}
  BY <1>1 DEF ApiRegister, With
<1>3. Claims' = Claims
  BY <1>2 DEF Claims, At
<1>4. /\ asking \subseteq ApiPlayers
      /\ \A x \in Claims \cap DOMAIN players : x \in ApiPlayers \ asking
  BY DEF Apart
<1>5. Apart'
  BY <1>1, <1>2, <1>3, <1>4 DEF Apart
<1>6. Contested = DOMAIN players \cap (asking \cup Claims) /\ Contested' = P2 \cap (A2 \cup Claims)
  BY <1>1, <1>3 DEF Contested
<1>7. k \notin DOMAIN rows
  BY PipelineAssumption, KeysDiffer DEF Inv, Keyed
<1>8. Journals({k})
  BY ApiRegisterKeeps
<1>9. {k} \cap (DOMAIN players \cup DOMAIN rows) \subseteq Contested \ Contested'
  BY <1>2, <1>4, <1>6, <1>7
<1>10. Contested' \subseteq Contested \cup
          (ApiPlayers \cap ((DOMAIN players' \cup DOMAIN rows') \ (DOMAIN players \cup DOMAIN rows)))
  BY <1>1, <1>2, <1>6, <1>7
<1> QED
  BY <1>5, <1>8, <1>9, <1>10, Transaction

\* Every step is a transaction of the ledger, or none.
LEMMA LedgerKept == Inv /\ Apart /\ [Next]_vars => Apart' /\ Ledger!Commit
<1> SUFFICES ASSUME Inv, Apart, [Next]_vars PROVE Apart' /\ Ledger!Commit
  OBVIOUS
<1>1. CASE OutsideTheDatabase
  <2>1. UNCHANGED <<players, rows, audit, asking>> /\ Claims' \cap DOMAIN players \subseteq Claims
    BY <1>1, OutsideKeeps, ClaimsStay
  <2> QED
    BY <2>1, ApartStays, NoTransaction
<1>2. CASE AttachSchool
  <2>1. /\ UNCHANGED <<DOMAIN players, rows, asking>> /\ Claims' \cap DOMAIN players \subseteq Claims
        /\ UNCHANGED audit \/ Journals({})
    BY <1>2, AttachSchoolKeeps, ClaimsStay
  <2>2. Apart' /\ Contested' \subseteq Contested
    BY <2>1, ApartStays
  <2>3. CASE UNCHANGED audit
    BY <2>1, <2>2, <2>3, NoTransaction
  <2>4. CASE Journals({})
    BY <2>2, <2>4, Transaction
  <2> QED
    BY <2>1, <2>2, <2>3, <2>4
<1>3. CASE LoadOne
  <2>1. UNCHANGED <<players, asking>> /\ Claims' \cap DOMAIN players \subseteq Claims
    BY <1>3, ClaimsStay DEF LoadOne
  <2>2. Apart' /\ Contested' \subseteq Contested
    BY <2>1, ApartStays
  <2>3. PICK ins : ins \cap (DOMAIN players \cup DOMAIN rows) = {} /\ Journals(ins)
    BY <1>3, LoadOneKeeps
  <2>4. Ledger!Commit
    BY <2>2, <2>3, Transaction
  <2> QED
    BY <2>2, <2>4
<1>4. CASE CommitPlayers
  BY <1>4, CommitPlayersApart
<1>5. CASE \E k \in ApiPlayers : ApiRegister(k)
  BY <1>5, ApiRegisterApart
<1>6. ASSUME NEW k \in ApiPlayers, ApiLookUp(k) PROVE Apart' /\ Ledger!Commit
  <2>1. /\ k \notin DOMAIN players /\ asking' = asking \cup {k}
        /\ UNCHANGED <<proc, players, rows, audit>>
    BY <1>6 DEF ApiLookUp
  <2>2. Claims' = Claims
    BY <2>1 DEF Claims, At
  <2>3. Apart' /\ Contested' = Contested
    BY <2>1, <2>2 DEF Apart, Contested
  <2> QED
    BY <2>1, <2>3, NoTransaction
<1>7. CASE UNCHANGED vars
  <2>1. UNCHANGED <<proc, players, rows, audit, asking>>
    BY <1>7 DEF vars, db
  <2>2. Claims' = Claims
    BY <2>1 DEF Claims, At
  <2> QED
    BY <2>1, <2>2, ApartStays, NoTransaction
<1> QED
  BY <1>1, <1>2, <1>3, <1>4, <1>5, <1>6, <1>7 DEF Next, Step, OutsideTheDatabase

LEMMA ApartFirst == Init => Apart
  BY DEF Init, Apart, Claims, At, NoProcess

\* The loader implements the audited ledger: each transaction of every run, of
\* the first and of those after a crash, is one of the ledger's, with the API's
\* registrations between any two statements of the load (load_clean_records,
\* resolve_players, _load_one).
THEOREM LoadImplementsLedger == Spec => LoadRefinesLedger
<1>1. Init => Ledger!Init
  BY DEF Init, Ledger!Init, EmptyBag, SetToBag
<1> QED
  BY <1>1, ApartFirst, LedgerKept, Inductive, PTL DEF Spec, LoadRefinesLedger, Ledger!Spec

\* The ledger keeps its books: whatever transactions are committed, each row
\* has one insert entry, or two if two writers may enter it, and each entry has
\* its row.  A load layer that commits as the ledger does has this too
\* (load_clean_records).
THEOREM LedgerEnteredOnce == Ledger!Spec => []Ledger!EnteredOnce
<1> DEFINE entered == DOMAIN players \cup DOMAIN rows
           contested == DOMAIN players \cap (asking \cup Claims)
           Books == Ledger!EnteredOnce /\ contested \subseteq ApiPlayers
<1>1. Ledger!Init => Books
  BY DEF Ledger!Init, Ledger!EnteredOnce
<1>2. Books /\ [Ledger!Commit]_<<entered, audit, contested>> => Books'
  <2>1. ASSUME Books, UNCHANGED <<entered, audit, contested>>
        PROVE  Books'
    <3>1. \A k : Ledger!Inserts(k)' = Ledger!Inserts(k)
      BY <2>1 DEF Ledger!Inserts, Ledger!Times
    <3> QED
      BY <2>1, <3>1 DEF Ledger!EnteredOnce
  <2>2. ASSUME Books, Ledger!Commit PROVE Books'
    <3>1. PICK E, F, c, d : E = entered /\ F = entered' /\ c = contested /\ d = contested'
      OBVIOUS
    <3>2. /\ d \subseteq c \cup (ApiPlayers \cap (F \ E))
          /\ \A k \in F \ E : Ledger!Inserts(k)' = Ledger!Inserts(k) + 1
          /\ \A k \in E : \/ Ledger!Inserts(k)' = Ledger!Inserts(k)
                          \/ Ledger!Inserts(k)' = Ledger!Inserts(k) + 1 /\ k \in c \ d
          /\ \A e \in DOMAIN audit' : e[1] \in F
      BY <2>2, <3>1 DEF Ledger!Commit
    <3>3. /\ \A k \in E : Ledger!Inserts(k) = 1 \/ (Ledger!Inserts(k) = 2 /\ k \in ApiPlayers \ c)
          /\ \A e \in DOMAIN audit : e[1] \in E
          /\ c \subseteq ApiPlayers
      BY <2>2, <3>1 DEF Ledger!EnteredOnce
    <3>4. \A k : k \notin E => Ledger!Inserts(k) = 0
      BY <3>3 DEF Ledger!Inserts, Ledger!Times
    <3>5. ASSUME NEW k \in F
          PROVE  Ledger!Inserts(k)' = 1 \/ (Ledger!Inserts(k)' = 2 /\ k \in ApiPlayers \ d)
      <4>1. PICK n, m : n = Ledger!Inserts(k) /\ m = Ledger!Inserts(k)'
        OBVIOUS
      <4>2. CASE k \notin E
        BY <3>2, <3>4, <3>5, <4>1, <4>2
      <4>3. CASE k \in E
        BY <3>2, <3>3, <4>1, <4>3
      <4> QED
        BY <4>2, <4>3
    <3>6. d \subseteq ApiPlayers
      BY <3>2, <3>3
    <3> QED
      BY <3>1, <3>2, <3>5, <3>6 DEF Ledger!EnteredOnce
  <2> QED
    BY <2>1, <2>2
<1>3. Books => Ledger!EnteredOnce
  OBVIOUS
<1> QED
  BY <1>1, <1>2, <1>3, PTL DEF Ledger!Spec

\* So a row is entered once and audited as inserted once, however often the same
\* files are read and loaded; a player too, unless it is one the API registers,
\* which may be audited twice (load/audit.py, load_clean_records, _insert_player).
THEOREM RowsEnteredOnce ==
    Spec => [](/\ \A k \in DOMAIN rows : Ledger!Inserts(k) = 1
               /\ \A k \in DOMAIN players : \/ Ledger!Inserts(k) = 1
                                            \/ Ledger!Inserts(k) = 2 /\ k \in ApiPlayers)
<1> DEFINE Once == /\ \A k \in DOMAIN rows : Ledger!Inserts(k) = 1
                   /\ \A k \in DOMAIN players : \/ Ledger!Inserts(k) = 1
                                                \/ Ledger!Inserts(k) = 2 /\ k \in ApiPlayers
<1>1. Inv /\ Ledger!EnteredOnce => Once
  <2>1. Inv => \A k \in DOMAIN rows : k \notin ApiPlayers
    BY KeysDiffer, PipelineAssumption DEF Inv, Keyed
  <2> QED
    BY <2>1 DEF Ledger!EnteredOnce
<1>2. Spec => []Ledger!EnteredOnce
  BY LedgerEnteredOnce, LoadImplementsLedger DEF LoadRefinesLedger
<1> QED
  BY <1>1, <1>2, Inductive, PTL

-----------------------------------------------------------------------------
(* What reaches the tables.  A row is sound only if what was prepared for  *)
(* it is: records read, selected and listed so that each measurement of a  *)
(* document stands behind the clean record of its lesson, as long as       *)
(* nothing failed.                                                         *)

\* The title stands in the table of lessons.
TitleStored(title, R) == \E k \in DOMAIN R : k[1] = "lessons" /\ k[2] = title

\* The lesson of a measurement in a document is loaded before it.
Awaited(todo, R) ==
    \A i \in 1..Len(todo) : todo[i] \in InDocuments(todo) =>
        /\ todo[i].lesson # Blank
        /\ TitleStored(todo[i].lesson, R) \/ \E j \in 1..i - 1 : Heads(todo[j], todo[i])

\* The records of a run as they are read and cleaned.
Prepared(p, P) ==
    /\ IsSequence(p.records) /\ Introduced(p.records, InDocuments(p.records))
    /\ IsSequence(p.clean) /\ Introduced(p.clean, InDocuments(p.clean))
    /\ \A r \in ToSet(p.clean) : Clean(r, {})
    /\ p.index \subseteq DOMAIN P

DocumentsLeft(p) ==
    p.pc = "documents" =>
        IsSequence(p.todo) /\ \A f \in ToSet(p.todo) : f \in ToSet(Routed) /\ Handler(f) = "docx"

RowsLeft(p, R, F) ==
    p.pc = "rows" =>
        /\ IsSequence(p.todo)
        /\ \A r \in ToSet(p.todo) : Clean(r, {}) /\ r.table # "players"
        /\ F = 0 => Awaited(p.todo, R)

Ready(p, P, R, F) == Prepared(p, P) /\ DocumentsLeft(p) /\ RowsLeft(p, R, F)

SoundRow(row, P, R, F) ==
    /\ Reasons(row.record, {}) = {}
    /\ row.record.table = "payments" => row.cents \in Prices
    /\ row.record.table # "lessons" =>
          row.player \in DOMAIN P /\ row.player \in Matches(DOMAIN P, row.record.name)
    /\ F = 0 /\ row.record.table = "student_metrics" /\ Handler(row.record.file) = "docx" =>
          row.lesson \in DOMAIN R /\ row.lesson[2] = row.record.lesson

SoundTables(P, R, F) == \A k \in DOMAIN R : SoundRow(R[k], P, R, F)

Sound ==
    /\ faults \in Nat
    /\ proc = NoProcess \/ Ready(proc, players, rows, faults)
    /\ SoundTables(players, rows, faults)

\* Players and rows are never removed, so what holds of a row lasts.
LEMMA SoundRowLasts ==
    ASSUME NEW row, NEW P, NEW R, NEW F, NEW P2, NEW R2, NEW F2, SoundRow(row, P, R, F),
           DOMAIN P \subseteq DOMAIN P2, DOMAIN R \subseteq DOMAIN R2, F2 = 0 => F = 0
    PROVE  SoundRow(row, P2, R2, F2)
<1>1. \A n : Matches(DOMAIN P, n) \subseteq Matches(DOMAIN P2, n)
  BY DEF Matches
<1> QED
  BY <1>1 DEF SoundRow

LEMMA ReadyLasts ==
    ASSUME NEW p, NEW P, NEW R, NEW F, NEW P2, NEW R2, NEW F2, Ready(p, P, R, F),
           DOMAIN P \subseteq DOMAIN P2, DOMAIN R \subseteq DOMAIN R2, F2 = 0 => F = 0
    PROVE  Ready(p, P2, R2, F2)
<1>1. Awaited(p.todo, R) => Awaited(p.todo, R2)
  BY DEF Awaited, TitleStored
<1> QED
  BY <1>1 DEF Ready, Prepared, DocumentsLeft, RowsLeft

\* Away from the two lists only the batch matters.
LEMMA ReadyElsewhere ==
    ASSUME NEW p, NEW q, NEW P, NEW R, NEW F, Ready(p, P, R, F), SameBatch(q, p),
           q.pc \notin {"documents", "rows"}
    PROVE  Ready(q, P, R, F)
  BY DEF Ready, Prepared, DocumentsLeft, RowsLeft, SameBatch

\* Steps that leave the rows alone and prepare what goes on.
LEMMA RowsAlone ==
    ASSUME Sound, rows' = rows, DOMAIN players \subseteq DOMAIN players',
           faults' = faults \/ faults' = faults + 1,
           proc' = NoProcess \/ Ready(proc', players, rows, faults)
                             \/ Ready(proc', players', rows, faults')
    PROVE  Sound'
<1>1. PICK P2, R2, F2 : P2 = players' /\ R2 = rows' /\ F2 = faults'
  OBVIOUS
<1>2. F2 \in Nat /\ (F2 = 0 => faults = 0) /\ DOMAIN players \subseteq DOMAIN P2 /\ R2 = rows
  BY <1>1 DEF Sound
<1>3. SoundTables(P2, R2, F2)
  <2>1. ASSUME NEW k \in DOMAIN R2 PROVE SoundRow(R2[k], P2, R2, F2)
    <3>1. SoundRow(rows[k], players, rows, faults)
      BY <1>2, <2>1 DEF Sound, SoundTables
    <3> QED
      BY <1>2, <3>1, SoundRowLasts
  <2> QED
    BY <2>1 DEF SoundTables
<1>4. proc' = NoProcess \/ Ready(proc', P2, R2, F2)
  BY <1>1, <1>2, ReadyLasts
<1>5. SoundTables(players', rows', faults')
  BY <1>1, <1>3
<1> QED
  BY <1>1, <1>2, <1>4, <1>5 DEF Sound

\* A list without its head.
LEMMA TailIsSequence ==
    ASSUME NEW s, IsSequence(s), s # <<>>
    PROVE  /\ IsSequence(Tail(s)) /\ ToSet(Tail(s)) \subseteq ToSet(s) /\ Head(s) \in ToSet(s)
           /\ ToSet(s) \subseteq ToSet(Tail(s)) \cup {Head(s)}
           /\ Len(s) \in Nat \ {0} /\ Len(Tail(s)) = Len(s) - 1
           /\ \A i \in 1..Len(Tail(s)) : Tail(s)[i] = s[i + 1]
           /\ Head(s) = s[1]
<1>1. s \in Seq(ToSet(s))
  BY DEF IsSequence
<1>2. Tail(s) \in Seq(ToSet(s))
  BY <1>1
<1>3. /\ Len(s) \in Nat \ {0} /\ Len(Tail(s)) = Len(s) - 1
      /\ \A i \in 1..Len(Tail(s)) : Tail(s)[i] = s[i + 1]
      /\ Head(s) = s[1] /\ DOMAIN s = 1..Len(s) /\ DOMAIN Tail(s) = 1..Len(Tail(s))
  BY <1>1
<1>4. Head(s) \in ToSet(s)
  BY <1>3 DEF ToSet
<1>5. ToSet(s) \subseteq ToSet(Tail(s)) \cup {Head(s)}
  <2>1. ASSUME NEW i \in 1..Len(s), i # 1 PROVE s[i] \in ToSet(Tail(s))
    <3>1. PICK t : t = Tail(s)
      OBVIOUS
    <3>2. PICK j : j = i - 1
      OBVIOUS
    <3>3. j \in 1..Len(t) /\ j + 1 = i
      BY <1>3, <2>1, <3>1, <3>2
    <3>4. t[j] = s[i] /\ j \in DOMAIN t
      BY <1>3, <3>1, <3>3
    <3> QED
      BY <3>1, <3>4 DEF ToSet
  <2> QED
    BY <1>3, <2>1 DEF ToSet
<1> QED
  BY <1>2, <1>3, <1>4, <1>5, SequenceOf

\* Once the head is loaded what follows may still wait for its lessons.
LEMMA AwaitedNext ==
    ASSUME NEW s, IsSequence(s), s # <<>>, NEW R, NEW R2, Awaited(s, R), DOMAIN R \subseteq DOMAIN R2,
           Head(s).table = "lessons" /\ Head(s).confidence = 100 => NaturalKey(Head(s)) \in DOMAIN R2
    PROVE  Awaited(Tail(s), R2)
<1>1. PICK t : t = Tail(s)
  OBVIOUS
<1>2. /\ Len(s) \in Nat \ {0} /\ Len(t) = Len(s) - 1
      /\ \A i \in 1..Len(t) : t[i] = s[i + 1]
      /\ Head(s) = s[1] /\ ToSet(t) \subseteq ToSet(s)
  BY <1>1, TailIsSequence
<1>3. ASSUME NEW i \in 1..Len(t), t[i] \in InDocuments(t)
      PROVE  /\ t[i].lesson # Blank
             /\ TitleStored(t[i].lesson, R2) \/ \E j \in 1..i - 1 : Heads(t[j], t[i])
  <2>1. i + 1 \in 1..Len(s) /\ s[i + 1] = t[i] /\ s[i + 1] \in InDocuments(s)
    BY <1>2, <1>3 DEF InDocuments
  <2>2. /\ t[i].lesson # Blank
        /\ TitleStored(t[i].lesson, R) \/ \E j \in 1..(i + 1) - 1 : Heads(s[j], t[i])
    BY <2>1 DEF Awaited
  <2>3. CASE TitleStored(t[i].lesson, R)
    BY <2>2, <2>3 DEF TitleStored
  <2>4. ASSUME NEW j \in 1..(i + 1) - 1, Heads(s[j], t[i])
        PROVE  TitleStored(t[i].lesson, R2) \/ \E j2 \in 1..i - 1 : Heads(t[j2], t[i])
    <3>1. CASE j = 1
      <4>1. NaturalKey(s[1]) \in DOMAIN R2 /\ s[1].table = "lessons" /\ s[1].what = t[i].lesson
        BY <1>2, <2>4, <3>1 DEF Heads
      <4>2. NaturalKey(s[1])[1] = "lessons" /\ NaturalKey(s[1])[2] = t[i].lesson
        BY <4>1 DEF NaturalKey
      <4> QED
        BY <4>1, <4>2 DEF TitleStored
    <3>2. CASE j # 1
      <4>1. PICK m : m = j - 1
        OBVIOUS
      <4>2. m \in 1..i - 1 /\ m \in 1..Len(t) /\ m + 1 = j
        BY <1>2, <3>2, <4>1
      <4>3. t[m] = s[j]
        BY <1>2, <4>2
      <4> QED
        BY <2>4, <4>2, <4>3
    <3> QED
      BY <3>1, <3>2
  <2> QED
    BY <2>2, <2>3, <2>4
<1> QED
  BY <1>1, <1>3 DEF Awaited

\* The record of a lesson read in a document is always loaded.
LEMMA LessonIsClean ==
    ASSUME NEW r, r.table = "lessons", r.confidence = 100
    PROVE  Loadable(r) /\ \A known : Clean(r, known)
<1>1. ~(100 < Threshold)
  BY PricesAssumption
<1>2. \A known : Clean(r, known)
  BY <1>1 DEF Clean, Reasons
<1> QED
  BY <1>2 DEF Loadable, ResolvesToOne

\* Whoever is known, a clean record breaks none of the other rules.
LEMMA CleanForAnyone ==
    ASSUME NEW r, NEW known, Clean(r, known)
    PROVE  Clean(r, {})
  BY Zenon DEF Clean, Reasons

\* An amount is read in two ways; the least that is listed is a list price.
LEMMA LeastOfTwo ==
    ASSUME NEW S \in SUBSET Nat, S # {}, NEW x, NEW y, S \subseteq {x, y}
    PROVE  Min(S) \in S
<1>1. \E m \in S : \A n \in S : m =< n
  <2>1. CASE x \in S /\ y \in S
    <3>1. x \in Nat /\ y \in Nat /\ S = {x, y}
      BY <2>1
    <3>2. \A n \in S : n = x \/ n = y
      BY <3>1
    <3>3. CASE x =< y
      BY <3>1, <3>2, <3>3
    <3>4. CASE ~(x =< y)
      <4>1. y =< x
        BY <3>1, <3>4
      <4> QED
        BY <3>1, <3>2, <4>1
    <3> QED
      BY <3>3, <3>4
  <2>2. \A m \in S : (\A n \in S : n = m) => \E k \in S : \A n \in S : k =< n
    <3>1. TAKE m \in S
    <3>2. m =< m
      BY m \in Nat
    <3> QED
      BY <3>2
  <2>3. CASE ~(x \in S /\ y \in S)
    <3>1. PICK m : m \in S
      OBVIOUS
    <3>2. \A n \in S : n = m
      BY <2>3, <3>1
    <3> QED
      BY <2>2, <3>1, <3>2
  <2> QED
    BY <2>1, <2>3
<1> QED
  BY <1>1 DEF Min

LEMMA CleanPayment ==
    ASSUME NEW r, Clean(r, {}), r.table = "payments"
    PROVE  AmountToCents(r.amount) \in Prices
<1>1. PICK a : a = r.amount
  OBVIOUS
<1>2. AmountCandidates(a) \cap Prices # {}
  BY <1>1 DEF Clean, Reasons, AmountHasNoTier
<1>3. \E x, y : AmountCandidates(a) \subseteq {x, y}
  <2>1. PICK x, y : x = a[2] /\ y = a[2] \div 100
    OBVIOUS
  <2>2. AmountCandidates(a) \subseteq {x, y}
    BY <2>1 DEF AmountCandidates
  <2> QED
    BY <2>2
<1>4. PICK S : S = AmountCandidates(a) \cap Prices
  OBVIOUS
<1>5. Min(S) \in S
  BY <1>2, <1>3, <1>4, PricesAssumption, LeastOfTwo
<1>6. AmountToCents(a) = Min(S)
  BY <1>2, <1>4 DEF AmountToCents
<1> QED
  BY <1>1, <1>4, <1>5, <1>6

\* Fewer measurements are introduced as well.
LEMMA FewerIntroduced ==
    ASSUME NEW s, NEW X, NEW Y, Introduced(s, X), \A i \in 1..Len(s) : s[i] \in Y => s[i] \in X
    PROVE  Introduced(s, Y)
  BY DEF Introduced

\* A selection of records that keeps the lessons.
LEMMA SelectionIntroduces ==
    ASSUME NEW s, NEW S, IsSequence(s), Introduced(s, InDocuments(s)),
           \A r \in ToSet(s) : r.table = "lessons" /\ r.confidence = 100 => r \in S
    PROVE  /\ IsSequence(Only(s, S)) /\ ToSet(Only(s, S)) = ToSet(s) \cap S
           /\ Introduced(Only(s, S), InDocuments(Only(s, S)))
<1>1. PICK t, X, Y : t = Only(s, S) /\ X = InDocuments(s) /\ Y = InDocuments(t)
  OBVIOUS
<1>2. IsSequence(t) /\ ToSet(t) = ToSet(s) \cap S
  BY <1>1, OnlyHas
<1>3. Introduced(t, X)
  BY <1>1, OnlyIntroduces
<1>4. Y \subseteq X
  BY <1>1, <1>2 DEF InDocuments
<1>5. Introduced(t, Y)
  BY <1>3, <1>4, FewerIntroduced
<1> QED
  BY <1>1, <1>2, <1>5

\* A new run is prepared.
LEMMA EmptyPrepared ==
    IsSequence(<<>>) /\ ToSet(<<>>) = {} /\ Introduced(<<>>, InDocuments(<<>>))
  BY EmptyIsSequence DEF ToSet, Introduced

\* A file that is left for the handler.
LEMMA LeftFor ==
    ASSUME NEW handler
    PROVE  /\ IsSequence(ToExtract(handler))
           /\ \A f \in ToSet(ToExtract(handler)) : f \in ToSet(Routed) /\ Handler(f) = handler
<1>1. PICK S, T : /\ S = {f \in ToSet(Routed) :
                            ~(proc.cmd.resume /\ proc.manifest.files[f]["extract"] = "done")}
                  /\ T = {f \in ToSet(Routed) : Handler(f) = handler}
  OBVIOUS
<1>2. ToExtract(handler) = Only(Only(Routed, S), T)
  BY <1>1 DEF ToExtract, Pending
<1>3. IsSequence(Only(Routed, S))
  BY RoutedFiles, OnlyHas
<1>4. IsSequence(Only(Only(Routed, S), T)) /\ ToSet(Only(Only(Routed, S), T)) \subseteq T
  BY <1>3, OnlyHas
<1> QED
  BY <1>1, <1>2, <1>4

\* Extract prepares the records.
LEMMA ToDocumentsReady ==
    ASSUME Inv, Sound, proc.pc # "idle", NEW recs, NEW m, ToDocuments(recs, m),
           IsSequence(recs), Introduced(recs, InDocuments(recs))
    PROVE  Ready(proc', players, rows, faults)
<1>1. /\ proc'.pc = "documents"
      /\ proc'.records = recs /\ proc'.clean = proc.clean /\ proc'.index = proc.index
      /\ proc'.todo = ToExtract("docx")
  BY ToDocumentsIs
<1>2. Ready(proc, players, rows, faults)
  BY DEF Sound, NoProcess
<1> QED
  BY <1>1, <1>2, LeftFor DEF Ready, Prepared, DocumentsLeft, RowsLeft

LEMMA ExtractImagesSound == ASSUME Inv, Sound, ExtractImages PROVE Sound'
<1>1. proc.pc = "images" /\ UNCHANGED <<players, rows, faults>>
  BY DEF ExtractImages, At, NoFault, db
<1>2. PICK files : files = ToExtract("image")
  OBVIOUS
<1>3. PICK said : /\ DOMAIN said = 1..Len(files)
                  /\ \A i \in 1..Len(files) : said[i] \in Readings[files[i]]
                  /\ ToDocuments(BatchRecords(files, said),
                                 SetFiles(proc.manifest, ToSet(files), "extract", "done"))
  BY <1>2, ExtractImagesStep
<1>4. IsSequence(files) /\ \A f \in ToSet(files) : f \in ToSet(Routed) /\ Handler(f) = "image"
  BY <1>2, LeftFor
<1>5. ASSUME NEW i \in 1..Len(files) PROVE Handler(files[i]) = "image" /\ IsSequence(said[i])
  <2>1. files[i] \in ToSet(files)
    BY <1>4 DEF IsSequence, ToSet
  <2>2. files[i] \in ToSet(Source) /\ Handler(files[i]) = "image" /\ Extension(files[i]) = "image"
    BY <1>4, <2>1, RoutedFiles
  <2>3. files[i] \in DOMAIN Readings
    BY <2>2, SourceAssumption
  <2> QED
    BY <1>3, <2>2, <2>3, SourceAssumption
<1>6. PICK recs : recs = BatchRecords(files, said)
  OBVIOUS
<1>7. IsSequence(recs) /\ \A r \in ToSet(recs) : Handler(r.file) = "image"
  BY <1>3, <1>4, <1>5, <1>6, BatchIsSequence
<1>8. Introduced(recs, InDocuments(recs))
  BY <1>7 DEF Introduced, InDocuments
<1>9. Ready(proc', players, rows, faults)
  BY <1>1, <1>3, <1>6, <1>7, <1>8, ToDocumentsReady
<1> QED
  BY <1>1, <1>9, RowsAlone

LEMMA ImagesFailSound == ASSUME Inv, Sound, ImagesFail PROVE Sound'
<1>1. proc.pc = "images" /\ UNCHANGED <<players, rows, faults>>
  BY DEF ImagesFail, At, NoFault, db
<1>2. CASE proc'.pc = "backoff" /\ Moved(proc', proc)
  <2>1. Ready(proc, players, rows, faults)
    BY <1>1 DEF Sound, NoProcess
  <2>2. Ready(proc', players, rows, faults)
    BY <1>2, <2>1, ReadyElsewhere DEF Moved
  <2> QED
    BY <1>1, <2>2, RowsAlone
<1>3. ASSUME NEW m, ToDocuments(<<>>, m) PROVE Sound'
  <2>1. Ready(proc', players, rows, faults)
    BY <1>1, <1>3, EmptyPrepared, ToDocumentsReady
  <2> QED
    BY <1>1, <2>1, RowsAlone
<1> QED
  BY <1>2, <1>3, ImagesFailStep

\* A run past its start is ready.
LEMMA ReadyIfBusy ==
    ASSUME Sound, proc.pc # "idle"
    PROVE  Ready(proc, players, rows, faults)
  BY DEF Sound, NoProcess

\* Each document adds records that are introduced.
LEMMA ExtractDocumentSound == ASSUME Inv, Sound, ExtractDocument PROVE Sound'
<1>1. UNCHANGED <<players, rows, faults>>
  BY DEF ExtractDocument, NoFault, db
<1>2. PICK f, d, s, q : f = Head(proc.todo) /\ d = DocumentRecords[f] /\ s = proc.records /\ q = proc'
  OBVIOUS
<1>3. /\ proc.pc = "documents" /\ proc.todo # <<>> /\ q.pc = "documents"
      /\ q.clean = proc.clean /\ q.index = proc.index
      /\ q.todo = Tail(proc.todo) /\ q.records = s \o d
  BY <1>2, ExtractDocumentStep
<1>4. Ready(proc, players, rows, faults)
  BY <1>3, ReadyIfBusy
<1>5. IsSequence(proc.todo) /\ \A g \in ToSet(proc.todo) : g \in ToSet(Routed) /\ Handler(g) = "docx"
  BY <1>3, <1>4 DEF Ready, DocumentsLeft
<1>6. /\ IsSequence(q.todo) /\ f \in ToSet(proc.todo)
      /\ \A g \in ToSet(q.todo) : g \in ToSet(Routed) /\ Handler(g) = "docx"
  BY <1>2, <1>3, <1>5, TailIsSequence
<1>7. IsSequence(d) /\ Introduced(d, InDocuments(d))
  BY <1>2, <1>5, <1>6, DocumentIntroduces
<1>8. IsSequence(s) /\ Introduced(s, InDocuments(s))
  BY <1>2, <1>4 DEF Ready, Prepared
<1>9. PICK A, X, u : A = ToSet(s) \cup ToSet(d) /\ X = InDocuments(s \o d) /\ u = s \o d
  OBVIOUS
<1>10. s \in Seq(A) /\ d \in Seq(A) /\ IsSequence(u)
  BY <1>7, <1>8, <1>9, ConcatIsSequence DEF IsSequence
<1>11. Introduced(s, X) /\ Introduced(d, X)
  <2>1. \A r \in X : r.table = "student_metrics" /\ Handler(r.file) = "docx"
    BY <1>9 DEF InDocuments
  <2>2. \A i \in 1..Len(s) : s[i] \in ToSet(s)
    BY <1>8 DEF IsSequence, ToSet
  <2>3. \A i \in 1..Len(d) : d[i] \in ToSet(d)
    BY <1>7 DEF IsSequence, ToSet
  <2>4. \A i \in 1..Len(s) : s[i] \in X => s[i] \in InDocuments(s)
    BY <2>1, <2>2 DEF InDocuments
  <2>5. \A i \in 1..Len(d) : d[i] \in X => d[i] \in InDocuments(d)
    BY <2>1, <2>3 DEF InDocuments
  <2> QED
    BY <1>7, <1>8, <2>4, <2>5, FewerIntroduced
<1>12. Introduced(u, InDocuments(u))
  BY <1>9, <1>10, <1>11, ConcatIntroduces
<1>13. Ready(q, players, rows, faults)
  BY <1>3, <1>4, <1>6, <1>9, <1>10, <1>12 DEF Ready, Prepared, DocumentsLeft, RowsLeft
<1> QED
  BY <1>1, <1>2, <1>13, RowsAlone

LEMMA DocumentFailsSound == ASSUME Inv, Sound, DocumentFails PROVE Sound'
<1>1. UNCHANGED <<players, rows>> /\ faults' = faults + 1
  BY DEF DocumentFails, Fault, db
<1>2. PICK q : q = proc'
  OBVIOUS
<1>3. /\ proc.pc = "documents" /\ proc.todo # <<>> /\ q.pc = "documents"
      /\ SameBatch(q, proc) /\ q.todo = Tail(proc.todo)
  BY <1>2, DocumentFailsStep
<1>4. Ready(proc, players, rows, faults)
  BY <1>3, ReadyIfBusy
<1>5. IsSequence(proc.todo) /\ \A g \in ToSet(proc.todo) : g \in ToSet(Routed) /\ Handler(g) = "docx"
  BY <1>3, <1>4 DEF Ready, DocumentsLeft
<1>6. IsSequence(q.todo) /\ \A g \in ToSet(q.todo) : g \in ToSet(Routed) /\ Handler(g) = "docx"
  BY <1>3, <1>5, TailIsSequence
<1>7. Ready(q, players, rows, faults)
  BY <1>3, <1>4, <1>6 DEF Ready, Prepared, DocumentsLeft, RowsLeft, SameBatch
<1> QED
  BY <1>1, <1>2, <1>7, RowsAlone

\* Validate keeps the lessons, and clean records.
LEMMA ValidateSound == ASSUME Inv, Sound, Validate \/ ValidateBlind PROVE Sound'
<1>1. UNCHANGED <<players, rows>> /\ (faults' = faults \/ faults' = faults + 1)
  BY DEF Validate, ValidateBlind, ValidateWith, Fault, NoFault, db
<1>2. PICK q, s : q = proc' /\ s = proc.records
  OBVIOUS
<1>3. PICK known : /\ proc.pc = "validate" /\ q.pc = "save"
                   /\ q.records = s /\ q.index = proc.index
                   /\ q.clean = CleanRecords(known)
  BY <1>2, ValidateStep
<1>4. Ready(proc, players, rows, faults)
  BY <1>3, ReadyIfBusy
<1>5. IsSequence(s) /\ Introduced(s, InDocuments(s))
  BY <1>2, <1>4 DEF Ready, Prepared
<1>6. PICK S : S = {r \in ToSet(s) : Clean(r, known)}
  OBVIOUS
<1>7. q.clean = Only(s, S)
  BY <1>2, <1>3, <1>6 DEF CleanRecords
<1>8. \A r \in ToSet(s) : r.table = "lessons" /\ r.confidence = 100 => r \in S
  BY <1>6, LessonIsClean
<1>9. /\ IsSequence(q.clean) /\ ToSet(q.clean) = ToSet(s) \cap S
      /\ Introduced(q.clean, InDocuments(q.clean))
  BY <1>5, <1>7, <1>8, SelectionIntroduces
<1>10. \A r \in ToSet(q.clean) : Clean(r, {})
  BY <1>6, <1>9, CleanForAnyone
<1>11. Ready(q, players, rows, faults)
  BY <1>3, <1>4, <1>5, <1>9, <1>10 DEF Ready, Prepared, DocumentsLeft, RowsLeft
<1> QED
  BY <1>1, <1>2, <1>11, RowsAlone

\* Load knows players that are in the table.
LEMMA BuildIndexSound == ASSUME Inv, Sound, BuildIndex PROVE Sound'
<1>1. UNCHANGED <<players, rows, faults>>
  BY DEF BuildIndex, NoFault, db
<1>2. /\ proc.pc = "index" /\ proc'.pc = "schools"
      /\ proc'.records = proc.records /\ proc'.clean = proc.clean
      /\ proc'.index = DOMAIN players
  BY BuildIndexStep
<1>3. Ready(proc, players, rows, faults)
  BY <1>2, ReadyIfBusy
<1>4. Ready(proc', players, rows, faults)
  BY <1>2, <1>3 DEF Ready, Prepared, DocumentsLeft, RowsLeft
<1> QED
  BY <1>1, <1>4, RowsAlone

\* The rows wait for their lessons.
LEMMA EndSchoolsSound == ASSUME Inv, Sound, EndSchools PROVE Sound'
<1>1. UNCHANGED <<players, rows, faults>>
  BY DEF EndSchools, NoFault, db
<1>2. PICK q, s : q = proc' /\ s = proc.clean
  OBVIOUS
<1>3. /\ proc.pc = "schools" /\ q.pc = "rows" /\ SameBatch(q, proc) /\ q.todo = Others
  BY <1>2, EndSchoolsStep
<1>4. Ready(proc, players, rows, faults)
  BY <1>3, ReadyIfBusy
<1>5. IsSequence(s) /\ Introduced(s, InDocuments(s)) /\ \A r \in ToSet(s) : Clean(r, {})
  BY <1>2, <1>4 DEF Ready, Prepared
<1>6. PICK S : S = {r \in ToSet(s) : r.table # "players"}
  OBVIOUS
<1>7. q.todo = Only(s, S)
  BY <1>2, <1>3, <1>6 DEF Others
<1>8. \A r \in ToSet(s) : r.table = "lessons" /\ r.confidence = 100 => r \in S
  BY <1>6
<1>9. /\ IsSequence(q.todo) /\ ToSet(q.todo) = ToSet(s) \cap S
      /\ Introduced(q.todo, InDocuments(q.todo))
  BY <1>5, <1>7, <1>8, SelectionIntroduces
<1>10. \A r \in ToSet(q.todo) : Clean(r, {}) /\ r.table # "players"
  BY <1>5, <1>6, <1>9
<1>11. Awaited(q.todo, rows)
  BY <1>9 DEF Introduced, Awaited
<1>12. Ready(q, players, rows, faults)
  BY <1>3, <1>4, <1>9, <1>10, <1>11 DEF Ready, Prepared, DocumentsLeft, RowsLeft, SameBatch
<1> QED
  BY <1>1, <1>2, <1>12, RowsAlone

\* The steps that neither read, select nor load records.
LEMMA ElsewhereSound ==
    ASSUME Inv, OnPlace, Sound,
           Connect \/ ConnectFails \/ Save \/ Collect \/ Retry \/ EndExtract
           \/ Resolving \/ CommitPlayers \/ AttachSchool \/ EndLoad \/ ArchiveFile \/ ArchiveFails \/ EndArchive
    PROVE  Sound'
<1>1. /\ rows' = rows /\ (faults' = faults \/ faults' = faults + 1)
      /\ UNCHANGED players \/ CommitPlayers \/ AttachSchool
  BY DEF Connect, ConnectFails, Save, Collect, Retry, EndExtract, Resolving, LoadPlayers,
         ReadNames, LookUpPlayer, InsertPlayer, CommitPlayers, AttachSchool, EndLoad, ArchiveFile, ArchiveFails, EndArchive, Fault, NoFault, db
<1>2. DOMAIN players \subseteq DOMAIN players'
  BY <1>1, CommitPlayersStep, AttachSchoolStep
<1>3. proc.pc # "idle" => Placed(proc) /\ Ready(proc, players, rows, faults)
  BY ReadyIfBusy DEF OnPlace, NoProcess
<1>4. ASSUME proc.pc # "idle", SameBatch(proc', proc), proc'.pc \notin {"documents", "rows"} PROVE Sound'
  BY <1>1, <1>2, <1>3, <1>4, ReadyElsewhere, RowsAlone
<1>5. ASSUME proc' = NoProcess PROVE Sound'
  BY <1>1, <1>2, <1>5, RowsAlone
<1>6. ASSUME proc.pc \in {"connect", "save"}, Entered(proc', proc) PROVE Sound'
  <2>1. <<proc'.stage, proc'.pc>> \in Doors /\ SameBatch(proc', proc)
    BY <1>3, <1>6, EntersADoor
  <2> QED
    BY <1>4, <1>6, <2>1 DEF Doors
<1>7. CASE Connect \/ ConnectFails
  BY <1>5, <1>6, <1>7, ConnectStep
<1>8. CASE Save
  BY <1>6, <1>8, SaveStep
<1>9. CASE Collect
  BY <1>4, <1>9, CollectStep
<1>10. CASE Retry
  <2>1. proc.pc = "backoff" /\ proc'.pc = FirstStep(proc.stage) /\ SameBatch(proc', proc)
    BY <1>10, RetryStep DEF Moved
  <2>2. proc.stage \in {"extract", "archive"}
    BY <1>3, <2>1, PlacesAre
  <2>3. <<proc.stage, FirstStep(proc.stage)>> \in Doors
    BY <2>2, FirstStepIs DEF AllStages
  <2> QED
    BY <1>4, <2>1, <2>3 DEF Doors
<1>11. CASE EndExtract
  BY <1>4, <1>11, EndExtractStep
<1>12. CASE Resolving \/ CommitPlayers
  BY <1>4, <1>12, ResolvingStep, CommitPlayersStep
<1>13. CASE AttachSchool
  BY <1>4, <1>13, AttachSchoolStep DEF Passed
<1>14. CASE EndLoad \/ EndArchive
  BY <1>4, <1>14, EndLoadStep, EndArchiveStep DEF Ended
<1>15. CASE ArchiveFile
  BY <1>4, <1>15, ArchiveFileStep DEF Passed
<1>16. CASE ArchiveFails
  BY <1>4, <1>5, <1>16, ArchiveFailsStep DEF Moved
<1> QED
  BY <1>7, <1>8, <1>9, <1>10, <1>11, <1>12, <1>13, <1>14, <1>15, <1>16

\* A record that is loaded.
LEMMA RowIsSound ==
    ASSUME NEW r, NEW lesson, NEW P, NEW R, NEW F, Clean(r, {}), Loadable(r),
           proc.index \subseteq DOMAIN P,
           F = 0 /\ r.table = "student_metrics" /\ Handler(r.file) = "docx" =>
              lesson \in DOMAIN R /\ lesson[2] = r.lesson
    PROVE  SoundRow(Row(r, lesson), P, R, F)
<1>1. PICK row : row = Row(r, lesson)
  OBVIOUS
<1>2. PICK M : M = Matches(proc.index, r.name)
  OBVIOUS
<1>3. /\ row.record = r /\ row.lesson = lesson
      /\ r.table # "lessons" => row.player = CHOOSE k \in M : TRUE
      /\ r.table = "payments" => row.cents = AmountToCents(r.amount)
  BY <1>1, <1>2 DEF Row
<1>4. r.table # "lessons" => row.player \in M
  <2>1. r.table # "lessons" => Cardinality(M) = 1
    BY <1>2 DEF Loadable, ResolvesToOne
  <2>2. Cardinality({}) = 0
    BY FS_EmptySet
  <2> QED
    BY <1>3, <2>1, <2>2
<1>5. M \subseteq Matches(DOMAIN P, r.name) /\ M \subseteq DOMAIN P
  BY <1>2 DEF Matches
<1>6. Reasons(r, {}) = {}
  BY DEF Clean
<1> QED
  BY <1>1, <1>3, <1>4, <1>5, <1>6, CleanPayment DEF SoundRow

\* A row is loaded, and is sound.
LEMMA LoadOneSound == ASSUME Inv, Sound, LoadOne PROVE Sound'
<1>1. /\ UNCHANGED <<players, faults>> /\ proc.pc = "rows" /\ proc.todo # <<>>
      /\ Loadable(Head(proc.todo))
  BY DEF LoadOne, NoFault, At
<1>2. PICK r, k, q, R2 : r = Head(proc.todo) /\ k = NaturalKey(r) /\ q = proc' /\ R2 = rows'
  OBVIOUS
<1>3. PICK lesson : /\ lesson \in IF LessonsTitled(r) = {} THEN {Absent} ELSE LessonsTitled(r)
                    /\ InsertOrSkip(r, lesson)
  BY <1>2 DEF LoadOne
<1>4. Ready(proc, players, rows, faults)
  BY <1>1, ReadyIfBusy
<1>5. /\ IsSequence(proc.todo)
      /\ \A x \in ToSet(proc.todo) : Clean(x, {}) /\ x.table # "players"
      /\ faults = 0 => Awaited(proc.todo, rows)
  BY <1>1, <1>4 DEF Ready, RowsLeft
<1>6. /\ IsSequence(Tail(proc.todo)) /\ ToSet(Tail(proc.todo)) \subseteq ToSet(proc.todo)
      /\ r \in ToSet(proc.todo) /\ Len(proc.todo) \in Nat \ {0} /\ r = proc.todo[1]
  BY <1>1, <1>2, <1>5, TailIsSequence
<1>7. SameBatch(q, proc) /\ q.pc = "rows" /\ q.todo = Tail(proc.todo)
  <2>1. \E status : Done(status)
    BY <1>3 DEF InsertOrSkip
  <2> QED
    BY <1>1, <1>2, <2>1, DoneIs DEF Passed
<1>8. /\ DOMAIN R2 = DOMAIN rows \cup {k}
      /\ \A x \in DOMAIN rows : R2[x] = rows[x]
      /\ k \notin DOMAIN rows => R2[k] = Row(r, lesson)
  <2>1. CASE k \in DOMAIN rows
    BY <1>2, <1>3, <2>1 DEF InsertOrSkip
  <2>2. CASE k \notin DOMAIN rows
    <3>1. R2 = With(rows, k, Row(r, lesson))
      BY <1>2, <1>3, <2>2 DEF InsertOrSkip
    <3>2. PICK row : row = Row(r, lesson)
      OBVIOUS
    <3> QED
      BY <3>1, <3>2, <2>2 DEF With
  <2> QED
    BY <2>1, <2>2
<1>9. faults = 0 /\ r.table = "student_metrics" /\ Handler(r.file) = "docx" =>
         lesson \in DOMAIN R2 /\ lesson[2] = r.lesson
  <2> SUFFICES ASSUME faults = 0, r.table = "student_metrics", Handler(r.file) = "docx"
               PROVE  lesson \in DOMAIN R2 /\ lesson[2] = r.lesson
    OBVIOUS
  <2>1. 1 \in 1..Len(proc.todo) /\ proc.todo[1] \in InDocuments(proc.todo) /\ 1..1 - 1 = {}
    BY <1>6 DEF InDocuments
  <2>2. r.lesson # Blank /\ TitleStored(r.lesson, rows)
    BY <1>5, <1>6, <2>1 DEF Awaited
  <2>3. LessonsTitled(r) # {}
    BY <2>2 DEF LessonsTitled, TitleStored
  <2>4. lesson \in DOMAIN rows /\ lesson[2] = r.lesson
    BY <1>3, <2>2, <2>3 DEF LessonsTitled
  <2> QED
    BY <1>8, <2>4
<1>10. SoundTables(players, R2, faults)
  <2>1. ASSUME NEW x \in DOMAIN R2 PROVE SoundRow(R2[x], players, R2, faults)
    <3>1. CASE x \in DOMAIN rows
      <4>1. SoundRow(rows[x], players, rows, faults)
        BY <3>1 DEF Sound, SoundTables
      <4>2. SoundRow(rows[x], players, R2, faults)
        BY <1>8, <4>1, SoundRowLasts
      <4> QED
        BY <1>8, <3>1, <4>2
    <3>2. CASE x \notin DOMAIN rows
      <4>1. Clean(r, {}) /\ Loadable(r) /\ proc.index \subseteq DOMAIN players
        BY <1>1, <1>2, <1>4, <1>5, <1>6 DEF Ready, Prepared
      <4>2. SoundRow(Row(r, lesson), players, R2, faults)
        BY <1>9, <4>1, RowIsSound
      <4> QED
        BY <1>8, <2>1, <3>2, <4>2
    <3> QED
      BY <3>1, <3>2
  <2> QED
    BY <2>1 DEF SoundTables
<1>11. faults = 0 => Awaited(Tail(proc.todo), R2)
  BY <1>1, <1>2, <1>5, <1>8, AwaitedNext
<1>12. Ready(q, players, R2, faults)
  BY <1>4, <1>5, <1>6, <1>7, <1>11 DEF Ready, Prepared, DocumentsLeft, RowsLeft, SameBatch
<1>13. Ready(proc', players', rows', faults') /\ SoundTables(players', rows', faults')
  <2>1. PICK P2, F2 : P2 = players' /\ F2 = faults'
    OBVIOUS
  <2>2. P2 = players /\ F2 = faults
    BY <1>1, <2>1
  <2> QED
    BY <1>2, <1>10, <1>12, <2>1, <2>2
<1> QED
  BY <1>1, <1>13 DEF Sound

\* A lesson read in a document is not among those that are not loaded.
LEMMA NotLoadedSound == ASSUME Inv, Sound, LoadOneUnresolved \/ LoadOneFails PROVE Sound'
<1>1. /\ players' = players /\ rows' = rows /\ proc.pc = "rows" /\ proc.todo # <<>>
      /\ proc' = NoProcess \/ Done("flagged")
      /\ LoadOneUnresolved => ~Loadable(Head(proc.todo))
      /\ LoadOneFails => faults' # 0
      /\ faults' = faults \/ faults' = faults + 1
      /\ LoadOneUnresolved => faults' = faults
  <2>1. faults \in Nat
    BY DEF Sound
  <2>2. /\ players' = players /\ (faults' = faults \/ faults' = faults + 1)
        /\ LoadOneUnresolved => faults' = faults
    BY DEF LoadOneUnresolved, LoadOneFails, NoFault, Fault, db
  <2> QED
    BY <2>1, <2>2, NotLoadedStep
<1>2. CASE proc' = NoProcess
  BY <1>1, <1>2, RowsAlone
<1>3. CASE Done("flagged")
  <2>1. PICK q, F2 : q = proc' /\ F2 = faults'
    OBVIOUS
  <2>2. SameBatch(q, proc) /\ q.pc = "rows" /\ q.todo = Tail(proc.todo)
    BY <1>1, <1>3, <2>1, DoneIs DEF Passed
  <2>3. Ready(proc, players, rows, faults)
    BY <1>1, ReadyIfBusy
  <2>4. /\ IsSequence(proc.todo)
        /\ \A x \in ToSet(proc.todo) : Clean(x, {}) /\ x.table # "players"
        /\ faults = 0 => Awaited(proc.todo, rows)
    BY <1>1, <2>3 DEF Ready, RowsLeft
  <2>5. IsSequence(Tail(proc.todo)) /\ ToSet(Tail(proc.todo)) \subseteq ToSet(proc.todo)
    BY <1>1, <2>4, TailIsSequence
  <2>6. F2 = 0 => Awaited(Tail(proc.todo), rows)
    <3> SUFFICES ASSUME F2 = 0 PROVE Awaited(Tail(proc.todo), rows)
      OBVIOUS
    <3>1. ~Loadable(Head(proc.todo)) /\ faults = 0
      BY <1>1, <2>1
    <3>2. ~(Head(proc.todo).table = "lessons" /\ Head(proc.todo).confidence = 100)
      BY <3>1, LessonIsClean
    <3> QED
      BY <1>1, <2>4, <3>1, <3>2, AwaitedNext
  <2>7. Ready(q, players, rows, F2)
    BY <2>2, <2>3, <2>4, <2>5, <2>6 DEF Ready, Prepared, DocumentsLeft, RowsLeft, SameBatch
  <2>8. Ready(proc', players', rows, faults')
    <3>1. PICK P2 : P2 = players'
      OBVIOUS
    <3>2. P2 = players
      BY <1>1, <3>1
    <3> QED
      BY <2>1, <2>7, <3>1, <3>2
  <2> QED
    BY <1>1, <2>8, RowsAlone
<1> QED
  BY <1>1, <1>2, <1>3

\* Every step keeps the tables sound.
LEMMA SoundKeeps == ASSUME Inv, OnPlace, Sound, [Next]_vars PROVE Sound'
<1>1. ASSUME NEW c \in Commands, StartRun(c) PROVE Sound'
  <2>1. UNCHANGED <<players, rows, faults>>
    BY <1>1 DEF StartRun, db
  <2>2. /\ proc'.pc = "connect" /\ proc'.records = <<>> /\ proc'.clean = <<>> /\ proc'.index = {}
    BY <1>1, StartRunStep
  <2>3. Ready(proc', players, rows, faults)
    BY <2>2, EmptyPrepared DEF Ready, Prepared, DocumentsLeft, RowsLeft
  <2> QED
    BY <2>1, <2>3, RowsAlone
<1>2. CASE NoLocation \/ LoadAborts \/ NoBucket \/ Crash \/ Exit
  <2>1. UNCHANGED <<players, rows>> /\ (faults' = faults \/ faults' = faults + 1)
    BY <1>2 DEF NoLocation, LoadAborts, NoBucket, Crash, Exit, Fault, NoFault, db
  <2> QED
    BY <1>2, <2>1, LostRun, RowsAlone
<1>3. ASSUME proc' = proc, rows' = rows, faults' = faults, DOMAIN players \subseteq DOMAIN players'
      PROVE  Sound'
  <2>1. proc' = NoProcess \/ Ready(proc', players, rows, faults)
    BY <1>3 DEF Sound
  <2> QED
    BY <1>3, <2>1, RowsAlone
<1>4. CASE \E k \in ApiPlayers : ApiLookUp(k) \/ ApiRegister(k)
  <2>1. proc' = proc /\ rows' = rows /\ faults' = faults
    BY <1>4 DEF ApiLookUp, ApiRegister
  <2>2. DOMAIN players \subseteq DOMAIN players'
    BY <1>4 DEF ApiLookUp, ApiRegister, With
  <2> QED
    BY <1>3, <2>1, <2>2
<1>5. CASE UNCHANGED vars
  BY <1>3, <1>5 DEF vars, db
<1> QED
  BY <1>1, <1>2, <1>4, <1>5, ElsewhereSound, ExtractImagesSound, ImagesFailSound,
     ExtractDocumentSound, DocumentFailsSound, ValidateSound, BuildIndexSound,
     EndSchoolsSound, LoadOneSound, NotLoadedSound
  DEF Next, Step, Resolving

\* What reaches the tables is what Validate would pass, for every folder, reading
\* and sequence of runs: a row breaks no rule, its payment is a list price, its
\* player exists and answers to the name, and a metric of a document is linked to
\* its lesson unless something failed (partition, _build_columns, _load_one).
THEOREM RowsSound == Spec => []RowsAreSound
<1>1. Init => OnPlace /\ Sound
  BY DEF Init, OnPlace, Sound, SoundTables
<1>2. Inv /\ OnPlace /\ Sound /\ [Next]_vars => (OnPlace /\ Sound)'
  BY PlacedKeeps, SoundKeeps DEF Sound
<1>3. Sound => RowsAreSound
  BY DEF Sound, SoundTables, SoundRow, RowsAreSound
<1> QED
  BY <1>1, <1>2, <1>3, Inductive, PTL DEF Spec

-----------------------------------------------------------------------------
(* What a run leaves behind.                                               *)

\* The stage s is one of the run's and over.
Behind(p, s) ==
    /\ s \in StagesToRun(p.cmd.stage)
    /\ Rank[s] < Rank[p.stage] \/ (s = p.stage /\ p.pc = "save")

\* Every file is routed or recorded as skipped.
Collected(m) == \A f \in ToSet(Source) : f \in m.skips \/ f \in ToSet(Routed)

\* Every file is read or failed, and every original archived, or left to do.
Tried(m, left) == \A f \in ToSet(Routed) : m.files[f].extract # "pending" \/ f \in left

Kept(m, left) == \A f \in ToSet(Routed) : m.files[f].archive = "done" \/ f \in left

\* Every record is in the manifest.
Marked(m, recs) == \A r \in ToSet(recs) : RecordId(r) \in DOMAIN m.records

\* Every record is clean or has another mark than extracted.
Sorted(m, recs, clean) ==
    /\ ToSet(clean) \subseteq ToSet(recs)
    /\ \A r \in ToSet(recs) : m.records[RecordId(r)] # "extracted" \/ r \in ToSet(clean)

\* Every clean record of a row has been dealt with, or is left to do.
Met(m, clean, left) ==
    \A r \in ToSet(clean) :
        r.table # "players" => m.records[RecordId(r)] # "extracted" \/ r \in left

\* The keys of a name in the batch and in the table.
Namesakes(clean, keys, n) ==
    {DedupKey(r) : r \in {c \in ToSet(clean) : c.table = "players" /\ c.name # Absent /\ c.name = n}}
    \cup {k \in keys : k[2] = n}

\* Every clean player is in the table unless the name is missing or ambiguous.
Known(clean, keys) ==
    \A r \in ToSet(clean) :
        r.table = "players" =>
            \/ r.name = Absent
            \/ DedupKey(r) \in keys
            \/ Cardinality(Namesakes(clean, keys, r.name)) > 1

\* Or its name is one of those left to look for.
KnownBut(clean, keys, left) ==
    \A r \in ToSet(clean) :
        r.table = "players" =>
            \/ r.name = Absent
            \/ DedupKey(r) \in keys
            \/ Cardinality(Namesakes(clean, keys, r.name)) > 1
            \/ \E c \in ToSet(left) : c.name = r.name

\* The name at the head has one key in the batch once it has been read, and the
\* load claims it when it inserts.
Sought(p, keys) ==
    /\ IsSequence(p.todo)
    /\ \A c \in ToSet(p.todo) : c \in ToSet(p.clean) /\ c.table = "players" /\ c.name # Absent
    /\ KnownBut(p.clean, keys \cup p.created, p.todo)
    /\ p.pc \in {"lookup", "insert"} =>
          /\ p.todo # <<>>
          /\ \A r \in ToSet(p.clean) : r.table = "players" /\ r.name = Head(p.todo).name =>
                DedupKey(r) = DedupKey(Head(p.todo))
    /\ p.pc = "insert" => DedupKey(Head(p.todo)) \in p.created

\* What a run has behind it is on record.
OnRecord(p, keys) ==
    /\ p.stage \in StagesToRun(p.cmd.stage) \cup {"connect", "finished"}
    /\ Behind(p, "collect") => Collected(p.manifest)
    /\ Behind(p, "extract") => Tried(p.manifest, {}) /\ Marked(p.manifest, p.records)
    /\ p.pc = "documents" => Tried(p.manifest, ToSet(p.todo))
    /\ Behind(p, "validate") => Sorted(p.manifest, p.records, p.clean)
    /\ p.pc \in {"names", "lookup", "insert"} => Sought(p, keys)
    /\ Behind(p, "load") \/ p.pc \in {"index", "schools", "rows"} => Known(p.clean, keys)
    /\ Behind(p, "load") => Met(p.manifest, p.clean, {})
    /\ p.pc = "rows" => Met(p.manifest, p.clean, ToSet(p.todo))
    /\ Behind(p, "archive") => Kept(p.manifest, {})
    /\ p.stage = "archive" /\ p.pc # "save" => IsSequence(p.todo) /\ Kept(p.manifest, ToSet(p.todo))

Complete ==
    /\ IsFiniteSet(DOMAIN players)
    /\ proc # NoProcess /\ ~proc.cmd.resume => OnRecord(proc, DOMAIN players)

\* Within a stage nothing comes to be behind the run, at its end the stage does.
LEMMA BehindStays ==
    ASSUME NEW p, NEW q, SamePlace(q, p), NEW s, Behind(q, s)
    PROVE  Behind(p, s) \/ (q.pc = "save" /\ s = p.stage)
  BY DEF Behind, SamePlace

LEMMA BehindEntered ==
    ASSUME NEW p, Placed(p), p.pc \in {"connect", "save"}, NEW q, Entered(q, p), NEW s, Behind(q, s)
    PROVE  Behind(p, s)
<1>1. /\ <<q.stage, q.pc>> \in Doors /\ q.cmd = p.cmd
      /\ \A t \in StagesToRun(p.cmd.stage) : Rank[p.stage] < Rank[t] => Rank[q.stage] =< Rank[t]
  BY EntersADoor
<1>2. q.pc # "save"
  BY <1>1 DEF Doors
<1>3. s \in StagesToRun(p.cmd.stage) /\ Rank[s] < Rank[q.stage]
  BY <1>1, <1>2 DEF Behind
<1>4. p.cmd \in Commands /\ p.stage \in {"connect"} \cup AllStages
      /\ (p.pc = "connect" => p.stage = "connect")
      /\ (p.pc = "save" => p.stage \in AllStages)
  BY PlacesAre
<1>5. s \in AllStages
  BY <1>3, <1>4, StagesToRunAre
<1>6. Rank[s] \in 1..5 /\ ALL_STAGES[Rank[s]] = s
  BY <1>5, StagesAre
<1>7. CASE p.stage = "connect"
  <2>1. Rank[p.stage] = 0
    BY <1>7 DEF Rank
  <2>2. Rank["collect"] = 1 /\ Rank["extract"] = 2 /\ Rank["validate"] = 3
        /\ Rank["load"] = 4 /\ Rank["archive"] = 5 /\ Rank["finished"] = 6
    BY DEF Rank
  <2>3. Rank[q.stage] \in 1..6
    BY <1>1, <2>2 DEF Doors
  <2> QED
    BY <1>1, <1>3, <1>6, <2>1, <2>3
<1>8. CASE p.stage # "connect"
  <2>1. p.stage \in AllStages /\ p.pc = "save"
    BY <1>4, <1>8
  <2>2. Rank[p.stage] \in 1..5 /\ ALL_STAGES[Rank[p.stage]] = p.stage
    BY <2>1, StagesAre
  <2>3. Rank["collect"] = 1 /\ Rank["extract"] = 2 /\ Rank["validate"] = 3
        /\ Rank["load"] = 4 /\ Rank["archive"] = 5 /\ Rank["finished"] = 6
    BY DEF Rank
  <2>4. Rank[q.stage] \in 1..6
    BY <1>1, <2>3 DEF Doors
  <2>5. ~(Rank[p.stage] < Rank[s])
    BY <1>1, <1>3, <1>6, <2>4
  <2>6. Rank[s] < Rank[p.stage] \/ Rank[s] = Rank[p.stage]
    BY <1>6, <2>2, <2>5
  <2>7. Rank[s] = Rank[p.stage] => s = p.stage
    BY <1>6, <2>2
  <2> QED
    BY <1>3, <2>1, <2>6, <2>7 DEF Behind
<1> QED
  BY <1>7, <1>8

\* Another mark than extracted takes nothing back.
LEMMA MarkLasts ==
    ASSUME NEW m, Manifest(m), NEW ids, NEW status, status # "extracted",
           NEW n, SameBook(n, Mark(m, ids, status)), NEW recs, Marked(m, recs)
    PROVE  /\ Marked(n, recs) /\ n.files = m.files /\ n.skips = m.skips
           /\ \A r \in ToSet(recs) :
                 /\ m.records[RecordId(r)] # "extracted" => n.records[RecordId(r)] # "extracted"
                 /\ RecordId(r) \in ids => n.records[RecordId(r)] # "extracted"
<1>1. /\ n.files = m.files /\ n.skips = m.skips
      /\ n.records = [id \in DOMAIN m.records \cup ids |->
                                 IF id \in ids THEN status ELSE m.records[id]]
  BY MarkIs DEF SameBook
<1>2. ASSUME NEW r \in ToSet(recs)
      PROVE  /\ RecordId(r) \in DOMAIN n.records
             /\ n.records[RecordId(r)] = IF RecordId(r) \in ids THEN status ELSE m.records[RecordId(r)]
  <2>1. PICK id : id = RecordId(r)
    OBVIOUS
  <2>2. id \in DOMAIN m.records
    BY <2>1 DEF Marked
  <2> QED
    BY <1>1, <2>1, <2>2
<1> QED
  BY <1>1, <1>2 DEF Marked

\* The keys of a batch are finitely many.
LEMMA KeysFinite ==
    ASSUME NEW clean, IsSequence(clean)
    PROVE  IsFiniteSet({DedupKey(r) : r \in ToSet(clean)})
<1>1. Len(clean) \in Nat /\ DOMAIN clean = 1..Len(clean)
  BY DEF IsSequence
<1>2. PICK I : I = 1..Len(clean)
  OBVIOUS
<1> DEFINE key(i) == DedupKey(clean[i])
           D == {key(i) : i \in I}
           f == [i \in I |-> key(i)]
<1>3. IsFiniteSet(I)
  BY <1>1, <1>2, FS_Interval
<1>4. {DedupKey(r) : r \in ToSet(clean)} = D
  BY <1>1, <1>2 DEF ToSet
<1>5. f \in Surjection(I, D)
  <2> HIDE DEF key
  <2> QED
    BY DEF Surjection
<1>6. IsFiniteSet(D)
  BY <1>3, <1>5, FS_Surjection
<1> QED
  BY <1>4, <1>6

\* So are those of a name,
LEMMA NamesakesFinite ==
    ASSUME NEW clean, IsSequence(clean), NEW keys, IsFiniteSet(keys), NEW n
    PROVE  IsFiniteSet(Namesakes(clean, keys, n))
<1>1. PICK D : D = {DedupKey(r) : r \in ToSet(clean)}
  OBVIOUS
<1>2. IsFiniteSet(D \cup keys)
  BY <1>1, KeysFinite, FS_Union
<1>3. Namesakes(clean, keys, n) \in SUBSET (D \cup keys)
  BY <1>1 DEF Namesakes
<1> QED
  BY <1>2, <1>3, FS_Subset

\* Names grow only more ambiguous.
LEMMA NamesakesGrow ==
    ASSUME NEW clean, IsSequence(clean), NEW keys, NEW more, keys \subseteq more, IsFiniteSet(more),
           NEW n, Cardinality(Namesakes(clean, keys, n)) > 1
    PROVE  Cardinality(Namesakes(clean, more, n)) > 1
<1>1. PICK A, B : A = Namesakes(clean, keys, n) /\ B = Namesakes(clean, more, n)
  OBVIOUS
<1>2. IsFiniteSet(B)
  BY <1>1, NamesakesFinite
<1>3. A \in SUBSET B
  BY <1>1 DEF Namesakes
<1>4. IsFiniteSet(A) /\ Cardinality(A) =< Cardinality(B)
  BY <1>2, <1>3, FS_Subset
<1>5. Cardinality(A) \in Nat /\ Cardinality(B) \in Nat
  BY <1>2, <1>4, FS_CardinalityType
<1> QED
  BY <1>1, <1>4, <1>5

\* A player that is known, or ambiguous, stays so.
LEMMA KnownLasts ==
    ASSUME NEW clean, IsSequence(clean), NEW keys, NEW more, keys \subseteq more, IsFiniteSet(more),
           Known(clean, keys)
    PROVE  Known(clean, more)
  BY NamesakesGrow DEF Known

LEMMA KnownButLasts ==
    ASSUME NEW clean, IsSequence(clean), NEW keys, NEW more, keys \subseteq more, IsFiniteSet(more),
           NEW left, KnownBut(clean, keys, left)
    PROVE  KnownBut(clean, more, left)
  BY NamesakesGrow DEF KnownBut

\* The name at the head of those left is known too.
LEMMA KnownButNext ==
    ASSUME NEW clean, NEW keys, NEW left, IsSequence(left), left # <<>>,
           KnownBut(clean, keys, left),
           \A r \in ToSet(clean) : r.table = "players" /\ r.name = Head(left).name =>
               DedupKey(r) \in keys \/ Cardinality(Namesakes(clean, keys, r.name)) > 1
    PROVE  KnownBut(clean, keys, Tail(left))
<1>1. ToSet(left) \subseteq ToSet(Tail(left)) \cup {Head(left)}
  BY TailIsSequence
<1> QED
  BY <1>1 DEF KnownBut

\* Which stages are behind a run that is not at the end of its own.
LEMMA BehindIn ==
    ASSUME NEW p
    PROVE  /\ p.pc # "save" /\ p.stage \in {"connect", "collect"} =>
                 \A s \in AllStages : ~Behind(p, s)
           /\ p.pc # "save" /\ p.stage = "extract" =>
                 \A s \in {"extract", "validate", "load", "archive"} : ~Behind(p, s)
           /\ p.pc # "save" /\ p.stage = "validate" =>
                 \A s \in {"validate", "load", "archive"} : ~Behind(p, s)
           /\ p.pc # "save" /\ p.stage = "load" => ~Behind(p, "load") /\ ~Behind(p, "archive")
           /\ p.pc # "save" /\ p.stage = "archive" => ~Behind(p, "archive")
<1>1. /\ Rank["connect"] = 0 /\ Rank["collect"] = 1 /\ Rank["extract"] = 2 /\ Rank["validate"] = 3
      /\ Rank["load"] = 4 /\ Rank["archive"] = 5
  BY DEF Rank
<1> QED
  BY <1>1 DEF Behind, AllStages

\* What is validated or loaded has the stages before it behind it.
LEMMA BehindBefore ==
    ASSUME NEW p, p.cmd \in Commands, p.stage \in StagesToRun(p.cmd.stage)
    PROVE  /\ p.stage = "validate" => Behind(p, "extract")
           /\ p.stage = "load" => Behind(p, "extract") /\ Behind(p, "validate")
<1>1. Rank["extract"] = 2 /\ Rank["validate"] = 3 /\ Rank["load"] = 4
  BY DEF Rank
<1> QED
  BY <1>1, StagesToRunAre DEF Behind

\* A stage that is completed or reopened changes none of this.
LEMMA SameBookHolds ==
    ASSUME NEW m, NEW n, SameBook(n, m)
    PROVE  /\ Collected(n) <=> Collected(m)
           /\ \A left : (Tried(n, left) <=> Tried(m, left)) /\ (Kept(n, left) <=> Kept(m, left))
           /\ \A recs : Marked(n, recs) <=> Marked(m, recs)
           /\ \A recs, clean : Sorted(n, recs, clean) <=> Sorted(m, recs, clean)
           /\ \A clean, left : Met(n, clean, left) <=> Met(m, clean, left)
  BY DEF SameBook, Collected, Tried, Kept, Marked, Sorted, Met

\* A run that was not resumed has every routed file to do.
LEMMA AllPending ==
    ASSUME NEW p, ~p.cmd.resume, NEW stage
    PROVE  IsSequence(Pending(p, stage)) /\ ToSet(Pending(p, stage)) = ToSet(Routed)
<1>1. PICK S : S = {f \in ToSet(Routed) : ~(p.cmd.resume /\ p.manifest.files[f][stage] = "done")}
  OBVIOUS
<1>2. S = ToSet(Routed) /\ Pending(p, stage) = Only(Routed, S)
  BY <1>1 DEF Pending
<1> QED
  BY <1>2, RoutedFiles, OnlyHas

\* So what is behind a run stays on record when it enters a stage.
LEMMA EnteredRecord ==
    ASSUME NEW p, Placed(p), p.pc \in {"connect", "save"}, ~p.cmd.resume,
           NEW q, Entered(q, p), NEW keys, OnRecord(p, keys)
    PROVE  OnRecord(q, keys)
<1>1. /\ <<q.stage, q.pc>> \in Doors /\ q.cmd = p.cmd
      /\ SameBatch(q, p) /\ SameBook(q.manifest, p.manifest)
      /\ q.stage \in StagesToRun(p.cmd.stage) \cup {"finished"}
      /\ q.stage = "archive" => q.todo = Pending(p, "archive")
  BY EntersADoor
<1>2. q.pc \notin {"documents", "names", "lookup", "insert", "index", "schools", "rows"}
  BY <1>1 DEF Doors
<1>3. \A s : Behind(q, s) => Behind(p, s)
  BY BehindEntered
<1>4. q.stage = "archive" => IsSequence(q.todo) /\ Kept(q.manifest, ToSet(q.todo))
  <2>1. q.stage = "archive" => IsSequence(q.todo) /\ ToSet(q.todo) = ToSet(Routed)
    BY <1>1, AllPending
  <2> QED
    BY <2>1 DEF Kept
<1> QED
  BY <1>1, <1>2, <1>3, <1>4, SameBookHolds DEF OnRecord, SameBatch

\* A run that only moves within its stage.
LEMMA MovedRecord ==
    ASSUME NEW p, NEW q, NEW keys, OnRecord(p, keys), Moved(q, p), p.pc # "save",
           q.pc \notin {"save", "documents", "names", "lookup", "insert", "index", "schools", "rows"}
    PROVE  OnRecord(q, keys)
<1>1. \A s : Behind(q, s) => Behind(p, s)
  BY BehindStays DEF Moved
<1>2. SamePlace(q, p) /\ SameBatch(q, p) /\ q.manifest = p.manifest /\ q.todo = p.todo
  BY DEF Moved
<1> QED
  BY <1>1, <1>2 DEF OnRecord, SamePlace, SameBatch

\* Where a run is that was not resumed.
LEMMA OnItsWay ==
    ASSUME Inv, OnPlace, Sound, Complete, proc.pc # "idle"
    PROVE  /\ Placed(proc) /\ Ready(proc, players, rows, faults) /\ Manifest(proc.manifest)
           /\ ~proc.cmd.resume => OnRecord(proc, DOMAIN players)
  BY BusyFields, ReadyIfBusy DEF OnPlace, Complete, NoProcess

\* Steps that leave the keys of the players alone.
LEMMA SameKeys ==
    ASSUME Complete, DOMAIN players' = DOMAIN players,
           proc' = NoProcess \/ (~(proc'.cmd.resume) => OnRecord(proc', DOMAIN players))
    PROVE  Complete'
<1>1. PICK q, P2 : q = proc' /\ P2 = players'
  OBVIOUS
<1>2. DOMAIN P2 = DOMAIN players
  BY <1>1
<1>3. q # NoProcess /\ ~q.cmd.resume => OnRecord(q, DOMAIN P2)
  BY <1>1, <1>2
<1>4. IsFiniteSet(DOMAIN P2)
  BY <1>2 DEF Complete
<1> QED
  BY <1>1, <1>3, <1>4 DEF Complete

\* A new run has nothing behind it.
LEMMA StartRunComplete ==
    ASSUME Complete, NEW c \in Commands, StartRun(c)
    PROVE  Complete'
<1>1. players' = players
  BY DEF StartRun, db
<1>2. proc'.pc = "connect" /\ proc'.stage = "connect" /\ proc'.cmd = c
  BY StartRunStep
<1>3. PICK q : q = proc'
  OBVIOUS
<1>4. \A s \in AllStages : ~Behind(q, s)
  BY <1>2, <1>3, BehindIn
<1>5. OnRecord(q, DOMAIN players)
  BY <1>2, <1>3, <1>4 DEF OnRecord, AllStages
<1> QED
  BY <1>1, <1>3, <1>5, SameKeys

\* The steps between stages and the retries keep the record.
LEMMA EnterComplete ==
    ASSUME Inv, OnPlace, Sound, Complete, Connect \/ ConnectFails \/ Save
    PROVE  Complete'
<1>1. /\ players' = players /\ proc.pc \in {"connect", "save"}
      /\ proc' = NoProcess \/ Entered(proc', proc)
  BY ConnectStep, SaveStep DEF Connect, ConnectFails, Save, db
<1>2. Placed(proc) /\ (~proc.cmd.resume => OnRecord(proc, DOMAIN players))
  BY <1>1, OnItsWay
<1>3. ASSUME Entered(proc', proc) PROVE ~(proc'.cmd.resume) => OnRecord(proc', DOMAIN players)
  BY <1>1, <1>2, <1>3, EnteredRecord DEF Entered
<1> QED
  BY <1>1, <1>3, SameKeys

\* So does a step that waits or tries again.
LEMMA MoveComplete ==
    ASSUME Inv, OnPlace, Sound, Complete, players' = players,
           proc.pc \notin {"idle", "save"}, Moved(proc', proc),
           proc'.pc \notin {"save", "documents", "names", "lookup", "insert", "index", "schools", "rows"}
    PROVE  Complete'
<1>1. ~proc.cmd.resume => OnRecord(proc, DOMAIN players)
  BY OnItsWay
<1>2. ~(proc'.cmd.resume) => OnRecord(proc', DOMAIN players)
  BY <1>1, MovedRecord DEF Moved, SamePlace
<1> QED
  BY <1>2, SameKeys

\* Collect skips what it does not route.
LEMMA CollectComplete ==
    ASSUME Inv, OnPlace, Sound, Complete, Collect
    PROVE  Complete'
<1>1. /\ players' = players /\ proc.pc = "collect" /\ proc'.pc = "save"
      /\ SamePlace(proc', proc) /\ SameBatch(proc', proc)
      /\ ToSet(Source) \ ToSet(Routed) \subseteq proc'.manifest.skips
  BY CollectStep DEF Collect, db
<1>2. Placed(proc) /\ (~proc.cmd.resume => OnRecord(proc, DOMAIN players))
  BY <1>1, OnItsWay
<1>3. PICK q : q = proc'
  OBVIOUS
<1>4. proc.stage = "collect"
  BY <1>1, <1>2, PlacesAre
<1>5. \A s \in AllStages : Behind(q, s) => s = "collect"
  BY <1>1, <1>3, <1>4, BehindStays, BehindIn
<1>6. Collected(q.manifest)
  BY <1>1, <1>3 DEF Collected
<1>7. ~q.cmd.resume => OnRecord(q, DOMAIN players)
  BY <1>1, <1>2, <1>3, <1>4, <1>5, <1>6 DEF OnRecord, AllStages, SamePlace
<1> QED
  BY <1>1, <1>3, <1>7, SameKeys

\* Marking records adds them to the manifest.
LEMMA MarkAdds ==
    ASSUME NEW m, Manifest(m), NEW ids, NEW status, NEW n, SameBook(n, Mark(m, ids, status))
    PROVE  /\ n.files = m.files /\ n.skips = m.skips
           /\ DOMAIN n.records = DOMAIN m.records \cup ids
<1>1. /\ n.files = m.files /\ n.skips = m.skips
      /\ n.records = [id \in DOMAIN m.records \cup ids |->
                                 IF id \in ids THEN status ELSE m.records[id]]
  BY MarkIs DEF SameBook
<1> QED
  BY <1>1

\* The files that are read or failed are no longer left to do.
LEMMA FilesTried ==
    ASSUME NEW m, Manifest(m), NEW fs, NEW status \in {"done", "failed"},
           NEW n, n = SetFiles(m, fs, "extract", status),
           NEW left, NEW rest, left \subseteq rest \cup fs, Tried(m, left)
    PROVE  Tried(n, rest) /\ (Collected(m) => Collected(n))
<1>1. /\ n.skips = m.skips
      /\ \A f \in ToSet(Routed) :
            n.files[f]["extract"] = IF f \in fs THEN status ELSE m.files[f]["extract"]
  BY SetFilesIs
<1> QED
  BY <1>1 DEF Tried, Collected

\* The images are read or failed, and the documents left to do.
LEMMA ToDocumentsRecord ==
    ASSUME Inv, OnPlace, Sound, Complete, proc.pc = "images", NEW recs,
           NEW status \in {"done", "failed"},
           ToDocuments(recs, SetFiles(proc.manifest, ToSet(ToExtract("image")), "extract", status))
    PROVE  ~(proc'.cmd.resume) => OnRecord(proc', DOMAIN players)
<1>1. PICK m, q : /\ m = SetFiles(proc.manifest, ToSet(ToExtract("image")), "extract", status)
                  /\ q = proc'
  OBVIOUS
<1>2. /\ q.pc = "documents" /\ SamePlace(q, proc)
      /\ q.todo = ToExtract("docx") /\ q.manifest = m
  BY <1>1, ToDocumentsIs
<1>3. /\ Placed(proc) /\ Manifest(proc.manifest)
      /\ ~proc.cmd.resume => OnRecord(proc, DOMAIN players)
  BY OnItsWay
<1>4. proc.stage = "extract"
  BY <1>3, PlacesAre
<1> SUFFICES ASSUME ~q.cmd.resume PROVE OnRecord(q, DOMAIN players)
  BY <1>1
<1>5. ~proc.cmd.resume
  BY <1>2 DEF SamePlace
<1>6. \A s \in AllStages : Behind(q, s) => s = "collect" /\ Behind(proc, s)
  BY <1>2, <1>4, BehindStays, BehindIn DEF AllStages
<1>7. ASSUME NEW handler, NEW f \in ToSet(Routed), Handler(f) = handler
      PROVE  f \in ToSet(ToExtract(handler))
  <2>1. PICK S : S = {g \in ToSet(Routed) : Handler(g) = handler}
    OBVIOUS
  <2>2. ToExtract(handler) = Only(Pending(proc, "extract"), S)
    BY <2>1 DEF ToExtract
  <2> QED
    BY <1>5, <1>7, <2>1, <2>2, AllPending, OnlyHas
<1>8. \A f : Handler(f) = "docx" \/ Handler(f) = "image"
  BY DEF Handler
<1>9. ToSet(Routed) \subseteq ToSet(q.todo) \cup ToSet(ToExtract("image"))
  BY <1>2, <1>7, <1>8
<1>10. Tried(m, ToSet(q.todo)) /\ (Collected(proc.manifest) => Collected(m))
  <2>1. Tried(proc.manifest, ToSet(Routed))
    BY DEF Tried
  <2> QED
    BY <1>1, <1>3, <1>9, <2>1, FilesTried
<1> QED
  BY <1>2, <1>3, <1>4, <1>5, <1>6, <1>10 DEF OnRecord, AllStages, SamePlace

\* The images are read, failed or tried again.
LEMMA ImagesComplete ==
    ASSUME Inv, OnPlace, Sound, Complete, ExtractImages \/ ImagesFail
    PROVE  Complete'
<1>1. players' = players /\ proc.pc = "images"
  BY ExtractImagesStep, ImagesFailStep DEF ExtractImages, ImagesFail, db
<1>2. ASSUME NEW recs, NEW status \in {"done", "failed"},
             ToDocuments(recs, SetFiles(proc.manifest, ToSet(ToExtract("image")), "extract", status))
      PROVE  Complete'
  BY <1>1, <1>2, ToDocumentsRecord, SameKeys
<1>3. CASE ExtractImages
  BY <1>2, <1>3, ExtractImagesStep
<1>4. CASE ImagesFail
  BY <1>1, <1>2, <1>4, ImagesFailStep, MoveComplete
<1> QED
  BY <1>3, <1>4

\* A document is read or failed.
LEMMA DocumentComplete ==
    ASSUME Inv, OnPlace, Sound, Complete, ExtractDocument \/ DocumentFails
    PROVE  Complete'
<1>1. PICK q, status : /\ q = proc' /\ status \in {"done", "failed"}
                       /\ q.manifest = SetFiles(proc.manifest, {Head(proc.todo)}, "extract", status)
  BY ExtractDocumentStep, DocumentFailsStep
<1>2. /\ players' = players /\ proc.pc = "documents" /\ proc.todo # <<>>
      /\ q.pc = "documents" /\ SamePlace(q, proc) /\ q.todo = Tail(proc.todo)
  BY <1>1, ExtractDocumentStep, DocumentFailsStep DEF ExtractDocument, DocumentFails, db
<1>3. /\ Placed(proc) /\ Manifest(proc.manifest) /\ Ready(proc, players, rows, faults)
      /\ ~proc.cmd.resume => OnRecord(proc, DOMAIN players)
  BY <1>2, OnItsWay
<1>4. proc.stage = "extract"
  BY <1>2, <1>3, PlacesAre
<1>5. ASSUME ~q.cmd.resume PROVE OnRecord(q, DOMAIN players)
  <2>1. ~proc.cmd.resume
    BY <1>2, <1>5 DEF SamePlace
  <2>2. \A s \in AllStages : Behind(q, s) => s = "collect" /\ Behind(proc, s)
    BY <1>2, <1>4, BehindStays, BehindIn DEF AllStages
  <2>4. ToSet(proc.todo) \subseteq ToSet(q.todo) \cup {Head(proc.todo)}
    BY <1>2, <1>3, TailIsSequence DEF Ready, DocumentsLeft
  <2>5. Tried(proc.manifest, ToSet(proc.todo))
    BY <1>2, <1>3, <2>1 DEF OnRecord
  <2>6. Tried(q.manifest, ToSet(q.todo)) /\ (Collected(proc.manifest) => Collected(q.manifest))
    BY <1>1, <1>3, <2>4, <2>5, FilesTried
  <2> QED
    BY <1>2, <1>3, <1>4, <2>1, <2>2, <2>6 DEF OnRecord, AllStages, SamePlace
<1> QED
  BY <1>1, <1>2, <1>5, SameKeys

\* All records go into the manifest.
LEMMA EndExtractComplete ==
    ASSUME Inv, OnPlace, Sound, Complete, EndExtract
    PROVE  Complete'
<1>1. PICK q : q = proc'
  OBVIOUS
<1>2. /\ players' = players /\ proc.pc = "documents" /\ proc.todo = <<>> /\ q.pc = "save"
      /\ SamePlace(q, proc) /\ SameBatch(q, proc)
      /\ SameBook(q.manifest, Mark(proc.manifest, Ids(proc.records), "extracted"))
  BY <1>1, EndExtractStep DEF EndExtract, db
<1>3. /\ Placed(proc) /\ Manifest(proc.manifest) /\ Ready(proc, players, rows, faults)
      /\ ~proc.cmd.resume => OnRecord(proc, DOMAIN players)
  BY <1>2, OnItsWay
<1>4. proc.stage = "extract"
  BY <1>2, <1>3, PlacesAre
<1>5. ASSUME ~q.cmd.resume PROVE OnRecord(q, DOMAIN players)
  <2>1. ~proc.cmd.resume
    BY <1>2, <1>5 DEF SamePlace
  <2>2. \A s \in AllStages : Behind(q, s) => s = "extract" \/ (s = "collect" /\ Behind(proc, s))
    BY <1>2, <1>4, BehindStays, BehindIn DEF AllStages
  <2>3. /\ q.manifest.skips = proc.manifest.skips /\ q.manifest.files = proc.manifest.files
        /\ DOMAIN q.manifest.records = DOMAIN proc.manifest.records \cup Ids(proc.records)
    BY <1>2, <1>3, MarkAdds
  <2>4. \A r \in ToSet(proc.records) : RecordId(r) \in Ids(proc.records)
    <3>1. DOMAIN proc.records = 1..Len(proc.records)
      BY <1>3 DEF Ready, Prepared, IsSequence
    <3> QED
      BY <3>1 DEF ToSet, Ids
  <2>5. Marked(q.manifest, q.records)
    BY <1>2, <2>3, <2>4 DEF Marked, SameBatch
  <2>6. Tried(q.manifest, {})
    <3>1. Tried(proc.manifest, ToSet(proc.todo))
      BY <1>2, <1>3, <2>1 DEF OnRecord
    <3>2. ToSet(proc.todo) = {}
      BY <1>2, EmptyPrepared
    <3> QED
      BY <2>3, <3>1, <3>2 DEF Tried
  <2>7. Collected(proc.manifest) => Collected(q.manifest)
    BY <2>3 DEF Collected
  <2> QED
    BY <1>2, <1>3, <1>4, <2>1, <2>2, <2>5, <2>6, <2>7 DEF OnRecord, AllStages, SamePlace
<1> QED
  BY <1>1, <1>2, <1>5, SameKeys

\* What is not clean is flagged.
LEMMA ValidateComplete ==
    ASSUME Inv, OnPlace, Sound, Complete, Validate \/ ValidateBlind
    PROVE  Complete'
<1>1. PICK q : q = proc'
  OBVIOUS
<1>2. /\ players' = players /\ proc.pc = "validate" /\ q.pc = "save"
      /\ SamePlace(q, proc) /\ q.records = proc.records
  BY <1>1, ValidateStep DEF Validate, ValidateBlind, ValidateWith, db
<1>3. PICK known : /\ q.clean = CleanRecords(known)
                   /\ SameBook(q.manifest, Mark(proc.manifest, Unclean(known), "flagged"))
  BY <1>1, ValidateStep
<1>4. /\ Placed(proc) /\ Manifest(proc.manifest) /\ Ready(proc, players, rows, faults)
      /\ ~proc.cmd.resume => OnRecord(proc, DOMAIN players)
  BY <1>2, OnItsWay
<1>5. proc.stage = "validate" /\ proc.cmd \in Commands
  BY <1>2, <1>4, PlacesAre
<1>6. ASSUME ~q.cmd.resume PROVE OnRecord(q, DOMAIN players)
  <2>1. OnRecord(proc, DOMAIN players)
    BY <1>2, <1>4, <1>6 DEF SamePlace
  <2>2. \A s \in AllStages :
           Behind(q, s) => s = "validate" \/ (s \in {"collect", "extract"} /\ Behind(proc, s))
    BY <1>2, <1>5, BehindStays, BehindIn DEF AllStages
  <2>3. Behind(proc, "extract")
    BY <1>5, <2>1, BehindBefore DEF OnRecord
  <2>4. Marked(proc.manifest, proc.records) /\ Tried(proc.manifest, {})
    BY <2>1, <2>3 DEF OnRecord
  <2>5. /\ Marked(q.manifest, q.records) /\ q.manifest.files = proc.manifest.files
        /\ q.manifest.skips = proc.manifest.skips
        /\ \A r \in ToSet(q.records) :
              RecordId(r) \in Unclean(known) => q.manifest.records[RecordId(r)] # "extracted"
    BY <1>2, <1>3, <1>4, <2>4, MarkLasts
  <2>6. ToSet(q.clean) = {r \in ToSet(q.records) : Clean(r, known)}
    <3>1. PICK S : S = {r \in ToSet(proc.records) : Clean(r, known)}
      OBVIOUS
    <3>2. q.clean = Only(proc.records, S)
      BY <1>3, <3>1 DEF CleanRecords
    <3>3. ToSet(q.clean) = ToSet(proc.records) \cap S
      BY <1>4, <3>2, OnlyHas DEF Ready, Prepared
    <3> QED
      BY <1>2, <3>1, <3>3
  <2>7. \A r \in ToSet(q.records) : ~Clean(r, known) => RecordId(r) \in Unclean(known)
    BY <1>2 DEF Unclean
  <2>8. Sorted(q.manifest, q.records, q.clean)
    BY <2>5, <2>6, <2>7 DEF Sorted
  <2>9. Tried(q.manifest, {}) /\ (Collected(proc.manifest) => Collected(q.manifest))
    BY <2>4, <2>5 DEF Tried, Collected
  <2> QED
    BY <1>2, <1>5, <2>1, <2>2, <2>5, <2>8, <2>9 DEF OnRecord, AllStages, SamePlace
<1> QED
  BY <1>1, <1>2, <1>6, SameKeys

\* A record is marked, and there is one less to deal with.
LEMMA OtherMark ==
    ASSUME NEW m, Manifest(m), NEW ids, NEW status, status # "extracted",
           NEW n, SameBook(n, Mark(m, ids, status)),
           NEW recs, Marked(m, recs), NEW clean, Sorted(m, recs, clean)
    PROVE  /\ Marked(n, recs) /\ Sorted(n, recs, clean)
           /\ Tried(m, {}) => Tried(n, {})
           /\ Collected(m) => Collected(n)
           /\ \A left, rest : Met(m, clean, left) /\ (\A r \in left : r \in rest \/ RecordId(r) \in ids)
                                 => Met(n, clean, rest)
<1>1. /\ Marked(n, recs) /\ n.files = m.files /\ n.skips = m.skips
      /\ \A r \in ToSet(recs) :
            /\ m.records[RecordId(r)] # "extracted" => n.records[RecordId(r)] # "extracted"
            /\ RecordId(r) \in ids => n.records[RecordId(r)] # "extracted"
  BY MarkLasts
<1>2. Sorted(n, recs, clean)
  BY <1>1 DEF Sorted
<1>3. ASSUME NEW left, NEW rest, Met(m, clean, left), \A r \in left : r \in rest \/ RecordId(r) \in ids
      PROVE  Met(n, clean, rest)
  BY <1>1, <1>3 DEF Met, Sorted
<1> QED
  BY <1>1, <1>2, <1>3 DEF Tried, Collected

\* A run that goes on loading.
LEMMA LoadRecord ==
    ASSUME NEW p, Placed(p), p.stage = "load", p.pc # "save", NEW keys, OnRecord(p, keys),
           NEW q, SamePlace(q, p), q.records = p.records, q.clean = p.clean,
           q.pc \in {"index", "schools", "rows"},
           Marked(q.manifest, q.records), Sorted(q.manifest, q.records, q.clean),
           Tried(p.manifest, {}) => Tried(q.manifest, {}),
           Collected(p.manifest) => Collected(q.manifest),
           NEW more, Known(q.clean, more),
           q.pc = "rows" => Met(q.manifest, q.clean, ToSet(q.todo))
    PROVE  OnRecord(q, more)
<1>1. \A s \in AllStages : Behind(q, s) => s \in {"collect", "extract", "validate"} /\ Behind(p, s)
  BY BehindStays, BehindIn DEF AllStages
<1> QED
  BY <1>1 DEF OnRecord, AllStages, SamePlace

\* A run that looks about before it loads.
LEMMA ResolveRecord ==
    ASSUME NEW p, Placed(p), p.stage = "load", p.pc # "save", NEW keys, OnRecord(p, keys),
           NEW q, SamePlace(q, p), SameBatch(q, p), q.manifest = p.manifest,
           q.pc \in {"names", "lookup", "insert"}, Sought(q, keys)
    PROVE  OnRecord(q, keys)
<1>1. \A s \in AllStages : Behind(q, s) => s \in {"collect", "extract", "validate"} /\ Behind(p, s)
  BY BehindStays, BehindIn DEF AllStages
<1> QED
  BY <1>1 DEF OnRecord, AllStages, SamePlace, SameBatch

\* What a run knows of its records while it loads them.
LEMMA Loading ==
    ASSUME Inv, OnPlace, Sound, Complete, ~proc.cmd.resume,
           proc.pc \in {"players", "names", "lookup", "insert", "index", "schools", "rows"}
    PROVE  /\ Placed(proc) /\ proc.stage = "load" /\ Manifest(proc.manifest)
           /\ IsSequence(proc.clean) /\ IsFiniteSet(DOMAIN players)
           /\ OnRecord(proc, DOMAIN players)
           /\ Marked(proc.manifest, proc.records)
           /\ Sorted(proc.manifest, proc.records, proc.clean)
<1>1. /\ Placed(proc) /\ Manifest(proc.manifest) /\ Ready(proc, players, rows, faults)
      /\ OnRecord(proc, DOMAIN players)
  BY OnItsWay
<1>2. proc.stage = "load" /\ proc.cmd \in Commands
  BY <1>1, PlacesAre
<1>3. Behind(proc, "extract") /\ Behind(proc, "validate")
  BY <1>1, <1>2, BehindBefore DEF OnRecord
<1> QED
  BY <1>1, <1>2, <1>3 DEF OnRecord, Ready, Prepared, Complete

\* The candidates are the players of the batch that have a name.
LEMMA CandidatesAre ==
    ASSUME IsSequence(proc.clean)
    PROVE  ToSet(Candidates) = {r \in ToSet(proc.clean) : r.table = "players" /\ r.name # Absent}
<1>1. PICK S : S = {r \in ToSet(proc.clean) : r.table = "players" /\ r.name # Absent}
  OBVIOUS
<1>2. Candidates = Only(proc.clean, S)
  BY <1>1 DEF Candidates
<1> QED
  BY <1>1, <1>2, OnlyHas

\* The keys of a name, as the load counts them.
LEMMA NamesakesAre ==
    ASSUME IsSequence(proc.clean), NEW n
    PROVE  KeysOfName(n) = Namesakes(proc.clean, DOMAIN players, n)
  BY CandidatesAre DEF KeysOfName, Namesakes

\* Each name of the batch has a group.
LEMMA GroupsAre ==
    ASSUME IsSequence(proc.clean)
    PROVE  /\ IsSequence(Groups) /\ ToSet(Groups) \subseteq ToSet(Candidates)
           /\ \A r \in ToSet(Candidates) : \E c \in ToSet(Groups) : c.name = r.name
<1>1. PICK C, T, S : /\ C = Candidates /\ T = ToSet(Candidates)
                     /\ S = {CHOOSE r \in T : r.name = n : n \in {c.name : c \in T}}
  OBVIOUS
<1>2. IsSequence(C)
  <2>1. PICK U : U = {r \in ToSet(proc.clean) : r.table = "players" /\ r.name # Absent}
    OBVIOUS
  <2>2. C = Only(proc.clean, U)
    BY <1>1, <2>1 DEF Candidates
  <2> QED
    BY <2>2, OnlyHas
<1>3. Groups = Only(C, S)
  BY <1>1 DEF Groups
<1>4. IsSequence(Groups) /\ ToSet(Groups) = T \cap S
  BY <1>1, <1>2, <1>3, OnlyHas
<1>5. ASSUME NEW r \in T PROVE \E c \in T \cap S : c.name = r.name
  <2>1. PICK c : c = CHOOSE x \in T : x.name = r.name
    OBVIOUS
  <2>2. c \in T /\ c.name = r.name
    BY <2>1
  <2>3. c \in S
    BY <1>1, <2>1
  <2> QED
    BY <2>2, <2>3
<1> QED
  BY <1>1, <1>4, <1>5

\* What a name's keys tell of the players that have it.
LEMMA KeysTell ==
    ASSUME IsSequence(proc.clean), IsFiniteSet(DOMAIN players),
           NEW h \in ToSet(proc.clean), h.table = "players", h.name # Absent,
           NEW r \in ToSet(proc.clean), r.table = "players", r.name = h.name
    PROVE  /\ Cardinality(KeysOfName(h.name)) = 1 => DedupKey(r) = DedupKey(h)
           /\ Cardinality(KeysOfName(h.name)) # 1 =>
                 Cardinality(Namesakes(proc.clean, DOMAIN players, r.name)) > 1
<1>1. PICK K : K = KeysOfName(h.name)
  OBVIOUS
<1>2. K = Namesakes(proc.clean, DOMAIN players, h.name)
  BY <1>1, NamesakesAre
<1>3. DedupKey(r) \in K /\ DedupKey(h) \in K
  BY <1>2 DEF Namesakes
<1>4. IsFiniteSet(K)
  BY <1>2, NamesakesFinite
<1>5. Cardinality(K) \in Nat /\ Cardinality(K) # 0
  BY <1>3, <1>4, FS_CardinalityType, FS_EmptySet
<1>6. Cardinality(K) = 1 => DedupKey(r) = DedupKey(h)
  BY <1>3, <1>4, FS_Singleton
<1>7. Cardinality(K) # 1 => Cardinality(K) > 1
  BY <1>5
<1> QED
  BY <1>1, <1>2, <1>6, <1>7

\* While the names are taken, a player is known, claimed or has its turn to come.
LEMMA ResolvingSought ==
    ASSUME Inv, OnPlace, Sound, Complete, Resolving, ~proc.cmd.resume,
           NEW q, q = proc'
    PROVE  Sought(q, DOMAIN players)
<1>1. /\ proc.pc \in {"players", "names", "lookup", "insert"}
      /\ q.pc \in {"names", "lookup", "insert"}
      /\ SameBatch(q, proc) /\ Turns(q)
  BY ResolvingStep
<1>2. /\ IsSequence(proc.clean) /\ IsFiniteSet(DOMAIN players)
      /\ OnRecord(proc, DOMAIN players)
  BY <1>1, Loading
<1>3. IsFiniteSet(proc.created)
  BY <1>1, Busy DEF Running
<1>4. PICK clean, keys, left, h : /\ clean = proc.clean /\ left = proc.todo /\ h = Head(left)
                                  /\ keys = DOMAIN players \cup proc.created
  OBVIOUS
<1>5. q.clean = clean /\ IsFiniteSet(keys)
  BY <1>1, <1>2, <1>3, <1>4, FS_Union DEF SameBatch
<1>6. CASE proc.pc = "players"
  <2>1. q.pc = "names" /\ q.todo = Groups /\ q.created = proc.created
    BY <1>1, <1>6 DEF Turns
  <2>2. /\ IsSequence(Groups)
        /\ \A c \in ToSet(Groups) : c \in ToSet(clean) /\ c.table = "players" /\ c.name # Absent
        /\ \A r \in ToSet(clean) : r.table = "players" /\ r.name # Absent =>
              \E c \in ToSet(Groups) : c.name = r.name
    BY <1>2, <1>4, GroupsAre, CandidatesAre
  <2> QED
    BY <1>4, <1>5, <2>1, <2>2 DEF Sought, KnownBut
<1>7. CASE proc.pc # "players"
  <2>1. /\ Sought(proc, DOMAIN players) /\ left # <<>>
    BY <1>1, <1>2, <1>4, <1>7 DEF OnRecord, Sought, Turns
  <2>2. /\ IsSequence(left) /\ KnownBut(clean, keys, left)
        /\ \A c \in ToSet(left) : c \in ToSet(clean) /\ c.table = "players" /\ c.name # Absent
    BY <1>4, <2>1 DEF Sought
  <2>3. /\ IsSequence(Tail(left)) /\ ToSet(Tail(left)) \subseteq ToSet(left) /\ h \in ToSet(left)
    BY <1>4, <2>1, <2>2, TailIsSequence
  <2>4. h \in ToSet(clean) /\ h.table = "players" /\ h.name # Absent
    BY <2>2, <2>3
  <2>5. HeadKey = DedupKey(h)
    BY <1>4 DEF HeadKey
  <2>6. ASSUME q.todo = Tail(left), q.pc = "names", q.created = proc.created,
               \A r \in ToSet(clean) : r.table = "players" /\ r.name = h.name =>
                   DedupKey(r) \in keys \/ Cardinality(Namesakes(clean, keys, r.name)) > 1
        PROVE  Sought(q, DOMAIN players)
    <3>1. KnownBut(clean, keys, Tail(left))
      BY <1>4, <2>1, <2>2, <2>6, KnownButNext
    <3> QED
      BY <1>4, <1>5, <2>2, <2>3, <2>6, <3>1 DEF Sought
  <2>7. CASE proc.pc = "names" /\ Cardinality(KeysOfName(h.name)) = 1
    <3>1. q.pc = "lookup" /\ q.todo = left /\ q.created = proc.created
      BY <1>1, <1>4, <2>7 DEF Turns
    <3>2. \A r \in ToSet(clean) : r.table = "players" /\ r.name = h.name => DedupKey(r) = DedupKey(h)
      BY <1>2, <1>4, <2>4, <2>7, KeysTell
    <3> QED
      BY <1>4, <1>5, <2>1, <2>2, <3>1, <3>2 DEF Sought
  <2>8. CASE proc.pc = "names" /\ Cardinality(KeysOfName(h.name)) # 1
    <3>1. q.pc = "names" /\ q.todo = Tail(left) /\ q.created = proc.created
      BY <1>1, <1>4, <2>8 DEF Turns
    <3>2. ASSUME NEW r \in ToSet(clean), r.table = "players", r.name = h.name
          PROVE  Cardinality(Namesakes(clean, keys, r.name)) > 1
      <4>1. Cardinality(Namesakes(clean, DOMAIN players, r.name)) > 1
        BY <1>2, <1>4, <2>4, <2>8, <3>2, KeysTell
      <4>2. DOMAIN players \subseteq keys
        BY <1>4
      <4> QED
        BY <1>2, <1>4, <1>5, <4>1, <4>2, NamesakesGrow
    <3> QED
      BY <2>6, <3>1, <3>2
  <2>9. CASE proc.pc \in {"lookup", "insert"}
    <3>1. /\ \A r \in ToSet(clean) : r.table = "players" /\ r.name = h.name => DedupKey(r) = DedupKey(h)
          /\ proc.pc = "insert" => DedupKey(h) \in keys
      BY <1>4, <2>1, <2>9 DEF Sought
    <3>2. CASE q.pc = "names"
      <4>1. q.todo = Tail(left) /\ q.created = proc.created /\ DedupKey(h) \in keys
        BY <1>1, <1>4, <2>5, <2>9, <3>1, <3>2 DEF Turns
      <4> QED
        BY <2>6, <3>1, <3>2, <4>1
    <3>3. CASE q.pc # "names"
      <4>1. q.pc = "insert" /\ q.todo = left /\ q.created = proc.created \cup {DedupKey(h)}
        BY <1>1, <1>4, <2>5, <2>9, <3>3 DEF Turns
      <4>2. PICK more : more = DOMAIN players \cup q.created
        OBVIOUS
      <4>3. keys \subseteq more /\ IsFiniteSet(more)
        <5>1. more = keys \cup {DedupKey(h)}
          BY <1>4, <4>1, <4>2
        <5> QED
          BY <1>5, <5>1, FS_AddElement
      <4>4. KnownBut(clean, more, left)
        BY <1>2, <1>4, <2>2, <4>3, KnownButLasts
      <4> QED
        BY <1>4, <1>5, <2>1, <2>2, <3>1, <4>1, <4>2, <4>4 DEF Sought
    <3> QED
      BY <3>2, <3>3
  <2> QED
    BY <1>1, <1>7, <2>7, <2>8, <2>9
<1> QED
  BY <1>6, <1>7

LEMMA ResolvingComplete ==
    ASSUME Inv, OnPlace, Sound, Complete, Resolving
    PROVE  Complete'
<1>1. PICK q : q = proc'
  OBVIOUS
<1>2. /\ proc.pc \in {"players", "names", "lookup", "insert"}
      /\ q.pc \in {"names", "lookup", "insert"}
      /\ SamePlace(q, proc) /\ SameBatch(q, proc) /\ q.manifest = proc.manifest
  BY <1>1, ResolvingStep
<1>3. players' = players
  BY DEF Resolving, LoadPlayers, ReadNames, LookUpPlayer, InsertPlayer, db
<1>4. ASSUME ~q.cmd.resume PROVE OnRecord(q, DOMAIN players)
  <2>1. ~proc.cmd.resume
    BY <1>2, <1>4 DEF SamePlace
  <2>2. Placed(proc) /\ proc.stage = "load" /\ proc.pc # "save" /\ OnRecord(proc, DOMAIN players)
    BY <1>2, <2>1, Loading
  <2>3. Sought(q, DOMAIN players)
    BY <1>1, <2>1, ResolvingSought
  <2> QED
    BY <1>2, <2>2, <2>3, ResolveRecord
<1> QED
  BY <1>1, <1>3, <1>4, SameKeys

\* The players of the batch are in the table or ambiguous.
LEMMA CommitPlayersComplete ==
    ASSUME Inv, OnPlace, Sound, Complete, CommitPlayers
    PROVE  Complete'
<1>1. PICK q, more : q = proc' /\ more = DOMAIN players'
  OBVIOUS
<1>2. /\ proc.pc = "names" /\ proc.todo = <<>> /\ q.pc = "index"
      /\ SamePlace(q, proc) /\ SameBatch(q, proc)
      /\ q.manifest = proc.manifest /\ more = DOMAIN players \cup proc.created
  BY <1>1, CommitPlayersStep
<1>3. IsFiniteSet(more)
  BY <1>2, Busy, FS_Union DEF Complete, Running
<1>4. ASSUME ~q.cmd.resume PROVE OnRecord(q, more)
  <2>1. ~proc.cmd.resume
    BY <1>2, <1>4 DEF SamePlace
  <2>2. KnownBut(proc.clean, more, <<>>)
    BY <1>2, <2>1, Loading DEF OnRecord, Sought
  <2>3. Known(proc.clean, more)
    <3>1. ToSet(<<>>) = {}
      BY EmptyPrepared
    <3> QED
      BY <2>2, <3>1 DEF KnownBut, Known
  <2> QED
    BY <1>2, <2>1, <2>3, Loading, LoadRecord DEF SameBatch
<1> QED
  BY <1>1, <1>3, <1>4 DEF Complete

\* A record is flagged, loaded or skipped.
LEMMA DoneRecord ==
    ASSUME Inv, OnPlace, Sound, Complete, proc.pc \in {"schools", "rows"}, ~proc.cmd.resume,
           NEW status, status # "extracted", NEW q, Passed(q, proc),
           q.manifest = Mark(proc.manifest, {RecordId(Head(proc.todo))}, status),
           proc.pc = "rows" => proc.todo # <<>>
    PROVE  OnRecord(q, DOMAIN players)
<1>1. PICK ids : ids = {RecordId(Head(proc.todo))}
  OBVIOUS
<1>2. /\ Placed(proc) /\ proc.stage = "load" /\ Manifest(proc.manifest)
      /\ OnRecord(proc, DOMAIN players)
      /\ Marked(proc.manifest, proc.records)
      /\ Sorted(proc.manifest, proc.records, proc.clean)
  BY Loading
<1>3. /\ SamePlace(q, proc) /\ SameBatch(q, proc) /\ q.pc = proc.pc /\ q.todo = Tail(proc.todo)
      /\ SameBook(q.manifest, Mark(proc.manifest, ids, status))
  BY <1>1 DEF Passed, SameBook
<1>4. /\ Marked(q.manifest, proc.records) /\ Sorted(q.manifest, proc.records, proc.clean)
      /\ Tried(proc.manifest, {}) => Tried(q.manifest, {})
      /\ Collected(proc.manifest) => Collected(q.manifest)
      /\ \A left, rest :
            Met(proc.manifest, proc.clean, left)
            /\ (\A r \in left : r \in rest \/ RecordId(r) \in ids)
               => Met(q.manifest, proc.clean, rest)
  <2>1. PICK m, n, recs, clean : /\ m = proc.manifest /\ n = q.manifest
                                 /\ recs = proc.records /\ clean = proc.clean
    OBVIOUS
  <2>2. /\ Manifest(m) /\ SameBook(n, Mark(m, ids, status))
        /\ Marked(m, recs) /\ Sorted(m, recs, clean)
    BY <1>2, <1>3, <2>1
  <2>3. /\ Marked(n, recs) /\ Sorted(n, recs, clean)
        /\ Tried(m, {}) => Tried(n, {})
        /\ Collected(m) => Collected(n)
        /\ \A left, rest : Met(m, clean, left) /\ (\A r \in left : r \in rest \/ RecordId(r) \in ids)
                              => Met(n, clean, rest)
    BY <2>2, OtherMark, Zenon
  <2> QED
    BY <2>1, <2>3
<1>5. ASSUME q.pc = "rows" PROVE Met(q.manifest, q.clean, ToSet(q.todo))
  <2>1. Ready(proc, players, rows, faults) /\ proc.pc = "rows"
    BY <1>3, <1>5, OnItsWay
  <2>2. ToSet(proc.todo) \subseteq ToSet(Tail(proc.todo)) \cup {Head(proc.todo)}
    BY <2>1, TailIsSequence DEF Ready, RowsLeft
  <2>3. \A r \in ToSet(proc.todo) : r \in ToSet(q.todo) \/ RecordId(r) \in ids
    BY <1>1, <1>3, <2>2
  <2>4. Met(proc.manifest, proc.clean, ToSet(proc.todo))
    BY <1>2, <2>1 DEF OnRecord
  <2>5. Met(q.manifest, proc.clean, ToSet(q.todo))
    BY <1>4, <2>3, <2>4
  <2> QED
    BY <1>3, <2>5 DEF SameBatch
<1>6. Known(q.clean, DOMAIN players)
  BY <1>2, <1>3 DEF OnRecord, SameBatch
<1> QED
  BY <1>2, <1>3, <1>4, <1>5, <1>6, LoadRecord DEF SameBatch

\* The schools, the index and the rows leave the players known.
LEMMA AttachSchoolComplete ==
    ASSUME Inv, OnPlace, Sound, Complete, AttachSchool
    PROVE  Complete'
<1>1. PICK q : q = proc'
  OBVIOUS
<1>2. /\ proc.pc = "schools" /\ Passed(q, proc)
      /\ \/ q.manifest = proc.manifest
         \/ q.manifest = Mark(proc.manifest, {RecordId(Head(proc.todo))}, "flagged")
      /\ DOMAIN players' = DOMAIN players
  BY <1>1, AttachSchoolStep
<1>3. ASSUME ~q.cmd.resume PROVE OnRecord(q, DOMAIN players)
  <2>1. ~proc.cmd.resume
    BY <1>2, <1>3 DEF Passed, SamePlace
  <2>2. CASE q.manifest = proc.manifest
    <3>1. Known(proc.clean, DOMAIN players)
      BY <1>2, <2>1, Loading DEF OnRecord
    <3>2. SamePlace(q, proc) /\ SameBatch(q, proc) /\ q.pc = "schools"
      BY <1>2 DEF Passed
    <3> QED
      BY <1>2, <2>1, <2>2, <3>1, <3>2, Loading, LoadRecord DEF SameBatch
  <2>3. CASE q.manifest = Mark(proc.manifest, {RecordId(Head(proc.todo))}, "flagged")
    BY <1>2, <2>1, <2>3, DoneRecord
  <2> QED
    BY <1>2, <2>2, <2>3
<1> QED
  BY <1>1, <1>2, <1>3, SameKeys

\* The index changes nothing of this.
LEMMA BuildIndexComplete ==
    ASSUME Inv, OnPlace, Sound, Complete, BuildIndex
    PROVE  Complete'
<1>1. PICK q : q = proc'
  OBVIOUS
<1>2. /\ proc.pc = "index" /\ q.pc = "schools" /\ SamePlace(q, proc)
      /\ q.records = proc.records /\ q.clean = proc.clean /\ q.manifest = proc.manifest
      /\ players' = players
  BY <1>1, BuildIndexStep DEF BuildIndex, db
<1>3. ASSUME ~q.cmd.resume PROVE OnRecord(q, DOMAIN players)
  <2>1. ~proc.cmd.resume
    BY <1>2, <1>3 DEF SamePlace
  <2>2. Known(proc.clean, DOMAIN players)
    BY <1>2, <2>1, Loading DEF OnRecord
  <2> QED
    BY <1>2, <2>1, <2>2, Loading, LoadRecord
<1> QED
  BY <1>1, <1>2, <1>3, SameKeys

\* Every clean record that is not a player is left to do as a row.
LEMMA EndSchoolsComplete ==
    ASSUME Inv, OnPlace, Sound, Complete, EndSchools
    PROVE  Complete'
<1>1. PICK q : q = proc'
  OBVIOUS
<1>2. /\ proc.pc = "schools" /\ q.pc = "rows" /\ SamePlace(q, proc) /\ SameBatch(q, proc)
      /\ q.manifest = proc.manifest /\ q.todo = Others /\ players' = players
  BY <1>1, EndSchoolsStep DEF EndSchools, db
<1>3. ASSUME ~q.cmd.resume PROVE OnRecord(q, DOMAIN players)
  <2>1. ~proc.cmd.resume
    BY <1>2, <1>3 DEF SamePlace
  <2>2. Known(proc.clean, DOMAIN players) /\ IsSequence(proc.clean)
    BY <1>2, <2>1, Loading DEF OnRecord
  <2>3. ToSet(Others) = {r \in ToSet(proc.clean) : r.table # "players"}
    <3>1. PICK S : S = {r \in ToSet(proc.clean) : r.table # "players"}
      OBVIOUS
    <3>2. Others = Only(proc.clean, S)
      BY <3>1 DEF Others
    <3> QED
      BY <2>2, <3>1, <3>2, OnlyHas
  <2>4. Met(q.manifest, q.clean, ToSet(q.todo))
    BY <1>2, <2>3 DEF Met, SameBatch
  <2> QED
    BY <1>2, <2>1, <2>2, <2>4, Loading, LoadRecord DEF SameBatch
<1> QED
  BY <1>1, <1>2, <1>3, SameKeys

\* Each is loaded, skipped or flagged, or the run is lost.
LEMMA RowComplete ==
    ASSUME Inv, OnPlace, Sound, Complete, LoadOne \/ LoadOneUnresolved \/ LoadOneFails
    PROVE  Complete'
<1>1. /\ players' = players /\ proc.pc = "rows" /\ proc.todo # <<>>
      /\ proc' = NoProcess \/ \E status : status # "extracted" /\ Done(status)
  <2>1. CASE LoadOne
    <3>1. \E status \in {"loaded", "skipped"} : Done(status)
      BY <2>1 DEF LoadOne, InsertOrSkip
    <3> QED
      BY <2>1, <3>1 DEF LoadOne, At
  <2>2. CASE LoadOneUnresolved \/ LoadOneFails
    <3>1. players' = players
      BY <2>2 DEF LoadOneUnresolved, LoadOneFails, db
    <3>2. proc.pc = "rows" /\ proc.todo # <<>> /\ (proc' = NoProcess \/ Done("flagged"))
      BY <2>2, NotLoadedStep DEF Sound
    <3> QED
      BY <3>1, <3>2
  <2> QED
    BY <2>1, <2>2
<1>2. ASSUME NEW status, status # "extracted", Done(status) PROVE Complete'
  <2>1. PICK q : q = proc'
    OBVIOUS
  <2>2. /\ Passed(q, proc)
        /\ q.manifest = Mark(proc.manifest, {RecordId(Head(proc.todo))}, status)
    BY <1>1, <1>2, <2>1, DoneIs
  <2>3. ~q.cmd.resume => ~proc.cmd.resume
    BY <2>2 DEF Passed, SamePlace
  <2>4. ~q.cmd.resume => OnRecord(q, DOMAIN players)
    BY <1>1, <1>2, <2>2, <2>3, DoneRecord
  <2> QED
    BY <1>1, <2>1, <2>4, SameKeys
<1> QED
  BY <1>1, <1>2, SameKeys

\* Load ends when none is left.
LEMMA EndLoadComplete ==
    ASSUME Inv, OnPlace, Sound, Complete, EndLoad
    PROVE  Complete'
<1>1. PICK q : q = proc'
  OBVIOUS
<1>2. /\ proc.pc = "rows" /\ proc.todo = <<>> /\ players' = players /\ q.pc = "save"
      /\ SamePlace(q, proc) /\ SameBatch(q, proc) /\ SameBook(q.manifest, proc.manifest)
  BY <1>1, EndLoadStep DEF EndLoad, Ended, db
<1>3. ASSUME ~q.cmd.resume PROVE OnRecord(q, DOMAIN players)
  <2>1. ~proc.cmd.resume
    BY <1>2, <1>3 DEF SamePlace
  <2>2. Placed(proc) /\ proc.stage = "load" /\ OnRecord(proc, DOMAIN players)
    BY <1>2, <2>1, Loading
  <2>3. \A s \in AllStages :
           Behind(q, s) => s = "load" \/ (s \in {"collect", "extract", "validate"} /\ Behind(proc, s))
    BY <1>2, <2>2, BehindStays, BehindIn DEF AllStages
  <2>4. Met(proc.manifest, proc.clean, {})
    BY <1>2, <2>2, EmptyPrepared DEF OnRecord
  <2> QED
    BY <1>2, <2>2, <2>3, <2>4, SameBookHolds DEF OnRecord, AllStages, SamePlace, SameBatch
<1> QED
  BY <1>1, <1>2, <1>3, SameKeys

\* The originals that are stored are no longer left to do.
LEMMA FilesKept ==
    ASSUME NEW m, Manifest(m), NEW fs, NEW n, n = SetFiles(m, fs, "archive", "done"),
           NEW left, NEW rest, left \subseteq rest \cup fs, Kept(m, left)
    PROVE  /\ Kept(n, rest)
           /\ Collected(m) => Collected(n)
           /\ Tried(m, {}) => Tried(n, {})
           /\ \A recs : Marked(m, recs) => Marked(n, recs)
           /\ \A recs, clean : Sorted(m, recs, clean) => Sorted(n, recs, clean)
           /\ \A clean : Met(m, clean, {}) => Met(n, clean, {})
<1>1. /\ n.records = m.records /\ n.skips = m.skips
      /\ \A f \in ToSet(Routed) :
            /\ n.files[f]["archive"] = IF f \in fs THEN "done" ELSE m.files[f]["archive"]
            /\ n.files[f]["extract"] = m.files[f]["extract"]
  BY SetFilesIs
<1> QED
  BY <1>1 DEF Kept, Collected, Tried, Marked, Sorted, Met

\* An original is stored, and the next one follows.
LEMMA ArchiveFileComplete ==
    ASSUME Inv, OnPlace, Sound, Complete, ArchiveFile
    PROVE  Complete'
<1>1. PICK q, m, n : q = proc' /\ m = proc.manifest /\ n = q.manifest
  OBVIOUS
<1>2. /\ players' = players /\ proc.pc = "originals" /\ proc.todo # <<>>
      /\ q.pc = "originals" /\ SamePlace(q, proc) /\ SameBatch(q, proc)
      /\ q.todo = Tail(proc.todo) /\ n = SetFiles(m, {Head(proc.todo)}, "archive", "done")
  BY <1>1, ArchiveFileStep DEF ArchiveFile, Passed, db
<1>3. /\ Placed(proc) /\ Manifest(m)
      /\ ~proc.cmd.resume => OnRecord(proc, DOMAIN players)
  BY <1>1, <1>2, OnItsWay
<1>4. proc.stage = "archive"
  BY <1>2, <1>3, PlacesAre
<1>5. ASSUME ~q.cmd.resume PROVE OnRecord(q, DOMAIN players)
  <2>1. OnRecord(proc, DOMAIN players)
    BY <1>2, <1>3, <1>5 DEF SamePlace
  <2>2. \A s \in AllStages : Behind(q, s) => s # "archive" /\ Behind(proc, s)
    BY <1>2, <1>4, BehindStays, BehindIn
  <2>3. IsSequence(proc.todo) /\ Kept(m, ToSet(proc.todo))
    BY <1>1, <1>2, <1>4, <2>1 DEF OnRecord
  <2>4. IsSequence(q.todo) /\ ToSet(proc.todo) \subseteq ToSet(q.todo) \cup {Head(proc.todo)}
    BY <1>2, <2>3, TailIsSequence
  <2>5. /\ Kept(n, ToSet(q.todo))
        /\ Collected(m) => Collected(n)
        /\ Tried(m, {}) => Tried(n, {})
        /\ Marked(m, proc.records) => Marked(n, proc.records)
        /\ Sorted(m, proc.records, proc.clean) => Sorted(n, proc.records, proc.clean)
        /\ Met(m, proc.clean, {}) => Met(n, proc.clean, {})
    BY <1>2, <1>3, <2>3, <2>4, FilesKept
  <2> QED
    BY <1>1, <1>2, <1>4, <2>1, <2>2, <2>4, <2>5 DEF OnRecord, AllStages, SamePlace, SameBatch
<1> QED
  BY <1>1, <1>2, <1>5, SameKeys

\* Archive ends when none is left.
LEMMA EndArchiveComplete ==
    ASSUME Inv, OnPlace, Sound, Complete, EndArchive
    PROVE  Complete'
<1>1. PICK q : q = proc'
  OBVIOUS
<1>2. /\ proc.pc = "originals" /\ proc.todo = <<>> /\ players' = players /\ q.pc = "save"
      /\ SamePlace(q, proc) /\ SameBatch(q, proc) /\ SameBook(q.manifest, proc.manifest)
  BY <1>1, EndArchiveStep DEF EndArchive, Ended, db
<1>3. /\ Placed(proc)
      /\ ~proc.cmd.resume => OnRecord(proc, DOMAIN players)
  BY <1>2, OnItsWay
<1>4. proc.stage = "archive"
  BY <1>2, <1>3, PlacesAre
<1>5. ASSUME ~q.cmd.resume PROVE OnRecord(q, DOMAIN players)
  <2>1. OnRecord(proc, DOMAIN players)
    BY <1>2, <1>3, <1>5 DEF SamePlace
  <2>2. \A s \in AllStages : Behind(q, s) => s = "archive" \/ Behind(proc, s)
    BY <1>2, <1>4, BehindStays
  <2>3. Kept(proc.manifest, {})
    BY <1>2, <1>4, <2>1, EmptyPrepared DEF OnRecord
  <2> QED
    BY <1>2, <1>4, <2>1, <2>2, <2>3, SameBookHolds DEF OnRecord, AllStages, SamePlace, SameBatch
<1> QED
  BY <1>1, <1>2, <1>5, SameKeys

\* A failed call waits, and the stage begins again with what is left.
LEMMA AgainComplete ==
    ASSUME Inv, OnPlace, Sound, Complete, ArchiveFails \/ Retry
    PROVE  Complete'
<1>1. players' = players
  BY DEF ArchiveFails, Retry, db
<1>2. CASE ArchiveFails
  <2>1. /\ proc.pc = "originals"
        /\ proc' = NoProcess \/ (proc'.pc = "backoff" /\ Moved(proc', proc))
    BY <1>2, ArchiveFailsStep
  <2> QED
    BY <1>1, <2>1, SameKeys, MoveComplete
<1>3. CASE Retry
  <2>1. proc.pc = "backoff" /\ proc'.pc = FirstStep(proc.stage) /\ Moved(proc', proc)
    BY <1>3, RetryStep
  <2>2. proc.stage \in {"extract", "archive"}
    BY <2>1, OnItsWay, PlacesAre
  <2>3. proc'.pc \in {"images", "originals"}
    BY <2>1, <2>2 DEF FirstStep
  <2> QED
    BY <1>1, <2>1, <2>3, MoveComplete
<1> QED
  BY <1>2, <1>3

\* A player that comes from elsewhere may make a name ambiguous.
LEMMA ApiRegisterComplete ==
    ASSUME Inv, OnPlace, Sound, Complete, NEW k \in ApiPlayers, ApiRegister(k)
    PROVE  Complete'
<1>1. PICK q, keys, more : q = proc' /\ keys = DOMAIN players /\ more = DOMAIN players'
  OBVIOUS
<1>2. q = proc /\ more = keys \cup {k}
  BY <1>1 DEF ApiRegister, With
<1>3. keys \subseteq more /\ IsFiniteSet(more)
  BY <1>1, <1>2, FS_AddElement DEF Complete
<1>4. ASSUME q # NoProcess, ~q.cmd.resume PROVE OnRecord(q, more)
  <2>1. OnRecord(q, keys) /\ IsSequence(q.clean)
    BY <1>1, <1>2, <1>4 DEF Complete, Sound, Ready, Prepared
  <2>2. Known(q.clean, keys) => Known(q.clean, more)
    BY <1>3, <2>1, KnownLasts
  <2>3. Sought(q, keys) => Sought(q, more)
    <3>1. PICK old, new : old = keys \cup q.created /\ new = more \cup q.created
      OBVIOUS
    <3>2. old \subseteq new /\ IsFiniteSet(new)
      BY <1>2, <1>3, <1>4, <3>1, FS_Union DEF Inv, Process, Running
    <3>3. KnownBut(q.clean, old, q.todo) => KnownBut(q.clean, new, q.todo)
      BY <2>1, <3>2, KnownButLasts
    <3> QED
      BY <3>1, <3>3 DEF Sought
  <2> QED
    BY <2>1, <2>2, <2>3 DEF OnRecord
<1> QED
  BY <1>1, <1>3, <1>4 DEF Complete

\* Every step keeps the record complete.
LEMMA CompleteKeeps ==
    ASSUME Inv, OnPlace, Sound, Complete, [Next]_vars
    PROVE  Complete'
<1>1. CASE NoLocation \/ LoadAborts \/ NoBucket \/ Crash \/ Exit
  <2>1. players' = players
    BY <1>1 DEF NoLocation, LoadAborts, NoBucket, Crash, Exit, db
  <2> QED
    BY <1>1, <2>1, LostRun, SameKeys
<1>2. CASE UNCHANGED vars \/ \E k \in ApiPlayers : ApiLookUp(k)
  BY <1>2 DEF vars, db, ApiLookUp, Complete
<1> QED
  BY <1>1, <1>2, StartRunComplete, EnterComplete, CollectComplete, ImagesComplete,
     DocumentComplete, EndExtractComplete, ValidateComplete, ResolvingComplete,
     CommitPlayersComplete, BuildIndexComplete, AttachSchoolComplete, EndSchoolsComplete, RowComplete,
     EndLoadComplete, ArchiveFileComplete, EndArchiveComplete, AgainComplete,
     ApiRegisterComplete
  DEF Next, Step, Resolving

\* A run that is finished has all its stages behind it.
LEMMA FinishedIs ==
    ASSUME Inv, OnPlace, Sound, Complete
    PROVE  NothingLeftBehind
<1> SUFFICES ASSUME proc.pc = "finished", ~proc.cmd.resume
             PROVE  LET m == proc.manifest
                    IN  /\ \A f \in ToSet(Source) : f \in m.skips \/ f \in DOMAIN m.files
                        /\ "extract" \in Stages => \A f \in ToSet(Routed) : m.files[f].extract # "pending"
                        /\ "archive" \in Stages => \A f \in ToSet(Routed) : m.files[f].archive = "done"
                        /\ "load" \in Stages =>
                              \A r \in ToSet(proc.records) :
                                 \/ m.records[RecordId(r)] # "extracted"
                                 \/ r.table = "players" /\ (\/ r.name = Absent
                                                           \/ DedupKey(r) \in DOMAIN players
                                                           \/ Cardinality(KeysOfName(r.name)) > 1)
  BY DEF NothingLeftBehind
<1>1. PICK p, m, keys : p = proc /\ m = proc.manifest /\ keys = DOMAIN players
  OBVIOUS
<1>2. /\ Placed(p) /\ Manifest(m) /\ OnRecord(p, keys) /\ IsSequence(p.clean)
  BY <1>1, OnItsWay DEF Ready, Prepared
<1>3. p.stage = "finished" /\ p.cmd \in Commands
  BY <1>1, <1>2, PlacesAre
<1>4. Stages = StagesToRun(p.cmd.stage) /\ "collect" \in Stages
      /\ ("load" \in Stages => "validate" \in Stages) /\ Stages \subseteq AllStages
  BY <1>1, <1>3, StagesToRunAre DEF Stages
<1>5. \A s \in Stages : Behind(p, s)
  <2>1. Rank["finished"] = 6
    BY DEF Rank
  <2>2. \A s \in AllStages : Rank[s] < 6
    BY StagesAre
  <2> QED
    BY <1>3, <1>4, <2>1, <2>2 DEF Behind
<1>6. \A f \in ToSet(Source) : f \in m.skips \/ f \in DOMAIN m.files
  BY <1>1, <1>2, <1>4, <1>5 DEF OnRecord, Collected, Manifest
<1>7. "extract" \in Stages => \A f \in ToSet(Routed) : m.files[f].extract # "pending"
  BY <1>1, <1>2, <1>5 DEF OnRecord, Tried
<1>8. "archive" \in Stages => \A f \in ToSet(Routed) : m.files[f].archive = "done"
  BY <1>1, <1>2, <1>5 DEF OnRecord, Kept
<1>9. ASSUME "load" \in Stages, NEW r \in ToSet(p.records)
      PROVE  \/ m.records[RecordId(r)] # "extracted"
             \/ r.table = "players" /\ (\/ r.name = Absent
                                       \/ DedupKey(r) \in keys
                                       \/ Cardinality(KeysOfName(r.name)) > 1)
  <2>1. Behind(p, "validate") /\ Behind(p, "load")
    BY <1>4, <1>5, <1>9
  <2>2. Sorted(m, p.records, p.clean) /\ Known(p.clean, keys) /\ Met(m, p.clean, {})
    BY <1>1, <1>2, <2>1 DEF OnRecord
  <2>3. KeysOfName(r.name) = Namesakes(p.clean, keys, r.name)
    BY <1>1, <1>2, NamesakesAre
  <2> QED
    BY <2>2, <2>3 DEF Sorted, Known, Met
<1> QED
  BY <1>1, <1>6, <1>7, <1>8, <1>9

\* A run that was not resumed and gets to its end has taken up everything: each
\* source file is skipped or routed, each routed file is read or failed and each
\* original stored if those stages were asked for, and after a load each record
\* has left the state "extracted" or is a player that is in the table, has no
\* name or shares it with another (run_pipeline, _run_extract, _run_load,
\* _run_archive, load_clean_records).
THEOREM NothingIsLeftBehind == Spec => []NothingLeftBehind
<1>1. Init => OnPlace /\ Sound /\ Complete
  BY FS_EmptySet DEF Init, OnPlace, Sound, SoundTables, Complete
<1>2. Inv /\ OnPlace /\ Sound /\ Complete /\ [Next]_vars => (OnPlace /\ Sound /\ Complete)'
  BY PlacedKeeps, SoundKeeps, CompleteKeeps DEF Sound
<1>3. Inv /\ OnPlace /\ Sound /\ Complete => NothingLeftBehind
  BY FinishedIs
<1> QED
  BY <1>1, <1>2, <1>3, Inductive, PTL DEF Spec

-----------------------------------------------------------------------------
(* Types.                                                                  *)

\* A run has a manifest and attempts left to wait for.
Worked(p) ==
    /\ IsManifest(p.manifest)
    /\ p.attempt \in 1..MaxAttempts
    /\ p.pc = "backoff" => p.attempt < MaxAttempts

Typed ==
    /\ \A id \in RunIds : disk[id] # Absent => IsManifest(disk[id])
    /\ proc # NoProcess => Worked(proc)
    /\ \A k \in DOMAIN players : players[k] \in Schools \cup {Blank}
    /\ seeded \in BOOLEAN
    /\ runs \in 0..MaxRuns
    /\ faults \in 0..MaxFaults

\* Manifests keep their type when records, files and stages are marked.
LEMMA BookTyped ==
    ASSUME NEW m, IsManifest(m), NEW n, SameBook(n, m), n.completed \subseteq ToSet(ALL_STAGES)
    PROVE  IsManifest(n)
  BY DEF IsManifest, SameBook

\* So they do when records are marked,
LEMMA MarkTyped ==
    ASSUME NEW m, Manifest(m), IsManifest(m), NEW ids, NEW status \in Statuses,
           NEW n, n = Mark(m, ids, status)
    PROVE  IsManifest(n)
<1> DEFINE recs == [id \in DOMAIN m.records \cup ids |->
                                 IF id \in ids THEN status ELSE m.records[id]]
<1>1. PICK r : r = recs
  OBVIOUS
<1>2. n = [m EXCEPT !.records = r]
  BY <1>1 DEF Mark
<1>3. \A id \in DOMAIN r : r[id] \in Statuses
  BY <1>1 DEF IsManifest
<1> HIDE DEF recs
<1>4. n.files = m.files /\ n.records = r /\ n.completed = m.completed
  BY <1>2 DEF Manifest
<1> QED
  BY <1>3, <1>4 DEF IsManifest

\* n is m with the files of fs at another status of the stage.
FilesSet(n, m, fs, stage, status) ==
    /\ DOMAIN n.files = ToSet(Routed)
    /\ n.records = m.records /\ n.completed = m.completed
    /\ \A f \in ToSet(Routed) :
          /\ n.files[f][stage] = IF f \in fs THEN status ELSE m.files[f][stage]
          /\ \A s \in {"extract", "archive"} \ {stage} : n.files[f][s] = m.files[f][s]

LEMMA FilesAreSet ==
    ASSUME NEW m, Manifest(m), NEW fs, NEW stage \in {"extract", "archive"}, NEW status,
           NEW n, n = SetFiles(m, fs, stage, status)
    PROVE  FilesSet(n, m, fs, stage, status)
<1> DEFINE files == [f \in DOMAIN m.files |->
                IF f \in fs THEN [m.files[f] EXCEPT ![stage] = status] ELSE m.files[f]]
<1>1. PICK g : g = files
  OBVIOUS
<1>2. n = [m EXCEPT !.files = g]
  BY <1>1, Zenon DEF SetFiles
<1>3. DOMAIN g = ToSet(Routed)
      /\ \A f \in ToSet(Routed) :
            g[f] = IF f \in fs THEN [m.files[f] EXCEPT ![stage] = status] ELSE m.files[f]
  BY <1>1 DEF Manifest
<1> HIDE DEF files
<1>4. n.files = g /\ n.records = m.records /\ n.completed = m.completed
  BY <1>2 DEF Manifest
<1>5. \A f \in ToSet(Routed) : DOMAIN m.files[f] = {"extract", "archive"}
  BY DEF Manifest
<1>6. ASSUME NEW f \in ToSet(Routed)
      PROVE  /\ g[f][stage] = IF f \in fs THEN status ELSE m.files[f][stage]
             /\ \A s \in {"extract", "archive"} \ {stage} : g[f][s] = m.files[f][s]
  <2>1. PICK e : e = m.files[f]
    OBVIOUS
  <2>2. g[f] = (IF f \in fs THEN [e EXCEPT ![stage] = status] ELSE e)
        /\ DOMAIN e = {"extract", "archive"}
    BY <1>3, <1>5, <2>1
  <2> QED
    BY <2>1, <2>2
<1> QED
  BY <1>3, <1>4, <1>6 DEF FilesSet

\* and when files are.
LEMMA SetFilesTyped ==
    ASSUME NEW m, Manifest(m), IsManifest(m), NEW fs, NEW stage \in {"extract", "archive"},
           NEW status \in {"done", "failed"}, stage = "archive" => status = "done",
           NEW n, n = SetFiles(m, fs, stage, status)
    PROVE  IsManifest(n)
<1>1. FilesSet(n, m, fs, stage, status)
  BY FilesAreSet
<1>2. \A f \in ToSet(Routed) : /\ n.files[f]["extract"] \in {"pending", "done", "failed"}
                               /\ n.files[f]["archive"] \in {"pending", "done"}
  BY <1>1 DEF FilesSet, IsManifest
<1> QED
  BY <1>1, <1>2 DEF FilesSet, IsManifest

\* A stage is entered at the first attempt, and its completion is taken back.
LEMMA EnterNextTyped ==
    ASSUME NEW p, p = [x \in Fields |-> p[x]], Manifest(p.manifest), IsManifest(p.manifest),
           NEW q, q = EnterNext(p)
    PROVE  q.attempt = 1 /\ IsManifest(q.manifest)
<1>1. PICK nx, td, c, pc :
         /\ nx = NextStage(p.stage, StagesToRun(p.cmd.stage))
         /\ td = IF nx = "archive" THEN Pending(p, "archive") ELSE <<>>
         /\ c = p.manifest.completed \ ({nx} \ {"validate"})
         /\ pc = FirstStep(nx)
  OBVIOUS
<1>2. q = [p EXCEPT !.pc = pc, !.stage = nx, !.attempt = 1,
                    !.manifest = [p.manifest EXCEPT !.completed = c], !.todo = td]
  BY <1>1 DEF EnterNext, Fields
<1>3. q.attempt = 1 /\ q.manifest = [p.manifest EXCEPT !.completed = c]
  BY <1>2 DEF Fields
<1>4. SameBook(q.manifest, p.manifest) /\ q.manifest.completed = c
  BY <1>3 DEF Manifest, SameBook
<1>5. c \subseteq ToSet(ALL_STAGES)
  BY <1>1 DEF IsManifest
<1> QED
  BY <1>3, <1>4, <1>5, BookTyped

\* A stage that is over is added to those completed.
LEMMA CompletedTyped ==
    ASSUME NEW p, p = [x \in Fields |-> p[x]], Manifest(p.manifest), IsManifest(p.manifest),
           p.stage \in AllStages, NEW q, q = Completed(p)
    PROVE  q.pc = "save" /\ q.attempt = p.attempt /\ IsManifest(q.manifest)
<1>1. PICK c : c = p.manifest.completed \cup {p.stage}
  OBVIOUS
<1>2. q = [p EXCEPT !.pc = "save", !.manifest = [p.manifest EXCEPT !.completed = c]]
  BY <1>1 DEF Completed, Fields
<1>3. q.pc = "save" /\ q.attempt = p.attempt /\ q.manifest = [p.manifest EXCEPT !.completed = c]
  BY <1>2 DEF Fields
<1>4. SameBook(q.manifest, p.manifest) /\ q.manifest.completed = c
  BY <1>3 DEF Manifest, SameBook
<1>5. c \subseteq ToSet(ALL_STAGES)
  BY <1>1, StagesAre DEF IsManifest
<1> QED
  BY <1>3, <1>4, <1>5, BookTyped

\* A new manifest has its type.
LEMMA FreshTyped == IsManifest(Fresh)
<1>1. DOMAIN Fresh.files = ToSet(Routed) /\ DOMAIN Fresh.records = {} /\ Fresh.completed = {}
  BY DEF Fresh
<1>2. \A f \in ToSet(Routed) : Fresh.files[f].extract = "pending" /\ Fresh.files[f].archive = "pending"
  BY DEF Fresh
<1> QED
  BY <1>1, <1>2 DEF IsManifest

\* What a run that is going has.
LEMMA Going ==
    ASSUME Inv, OnPlace, Typed, proc.pc # "idle"
    PROVE  /\ proc = [x \in Fields |-> proc[x]] /\ Manifest(proc.manifest)
           /\ Placed(proc) /\ Worked(proc)
  BY BusyFields DEF OnPlace, Typed, NoProcess

\* A step that saves nothing and leaves the schools alone.
LEMMA QuietTyped ==
    ASSUME Typed, UNCHANGED <<disk, players, runs>>,
           seeded' \in BOOLEAN, faults' = faults \/ Fault,
           proc' = NoProcess \/ Worked(proc')
    PROVE  Typed'
<1>1. faults' \in 0..MaxFaults
  BY PipelineAssumption DEF Typed, Fault
<1> QED
  BY <1>1 DEF Typed

\* A run starts with a new or a saved manifest.
LEMMA StartRunTyped ==
    ASSUME Inv, Typed, NEW c \in Commands, StartRun(c)
    PROVE  Typed'
<1>1. PICK m : /\ m = (IF c.resume THEN disk[c.run] ELSE Fresh)
               /\ proc' = NewProcess(c, m) /\ disk' = [disk EXCEPT ![c.run] = m]
  BY DEF StartRun
<1>2. IsManifest(m)
  BY <1>1, FreshTyped, PipelineAssumption DEF StartRun, Typed
<1>3. Worked(proc')
  <2>1. PICK q : q = proc'
    OBVIOUS
  <2>2. q.manifest = m /\ q.attempt = 1 /\ q.pc = "connect"
    BY <1>1, <2>1 DEF NewProcess
  <2> QED
    BY <1>2, <2>1, <2>2, PipelineAssumption DEF Worked
<1>4. \A id \in RunIds : disk'[id] # Absent => IsManifest(disk'[id])
  <2>1. disk = [id \in RunIds |-> disk[id]]
    BY DEF Inv, Disk
  <2> QED
    BY <1>1, <1>2, <2>1 DEF Typed
<1>5. runs' \in 0..MaxRuns /\ UNCHANGED <<players, seeded, faults>>
  BY PipelineAssumption DEF StartRun, Typed, db
<1> QED
  BY <1>3, <1>4, <1>5 DEF Typed

\* The steps from stage to stage.
LEMMA ConnectTyped ==
    ASSUME Inv, OnPlace, Typed, Connect \/ ConnectFails
    PROVE  Typed'
<1>1. /\ proc = [x \in Fields |-> proc[x]] /\ Manifest(proc.manifest)
      /\ Placed(proc) /\ Worked(proc) /\ proc.pc = "connect"
  BY Going, ConnectStep
<1>2. proc' = NoProcess \/ \E p : /\ p = [x \in Fields |-> p[x]] /\ p.manifest = proc.manifest
                                  /\ proc' = EnterNext(p)
  <2>1. CASE Connect
    <3>1. PICK c, p : c = NeedDb /\ p = [proc EXCEPT !.conn = c]
      OBVIOUS
    <3>2. proc' = EnterNext(p)
      BY <2>1, <3>1 DEF Connect
    <3>3. p = [x \in Fields |-> p[x]] /\ p.manifest = proc.manifest
      BY <1>1, <3>1 DEF Fields
    <3> QED
      BY <3>2, <3>3
  <2>2. CASE ConnectFails
    <3>1. proc' = NoProcess \/ proc' = EnterNext(proc)
      BY <2>2 DEF ConnectFails, Halt
    <3> QED
      BY <1>1, <3>1
  <2> QED
    BY <2>1, <2>2
<1>3. ASSUME proc' # NoProcess PROVE Worked(proc')
  <2>1. proc'.attempt = 1 /\ IsManifest(proc'.manifest)
    BY <1>1, <1>2, <1>3, EnterNextTyped DEF Worked
  <2>2. proc'.pc # "backoff"
    BY <1>1, <1>3, ConnectStep, EntersADoor DEF Doors
  <2> QED
    BY <2>1, <2>2, PipelineAssumption DEF Worked
<1>4. /\ UNCHANGED <<disk, players, runs>> /\ seeded' \in BOOLEAN
      /\ faults' = faults \/ Fault
  <2>1. CASE Connect
    BY <2>1 DEF Connect, store, NoFault, Typed
  <2>2. CASE ConnectFails
    BY <2>2 DEF ConnectFails, store, db, Typed
  <2> QED
    BY <2>1, <2>2
<1> QED
  BY <1>3, <1>4, QuietTyped

\* Saving puts the manifest of the run on disk.
LEMMA SaveTyped ==
    ASSUME Inv, OnPlace, Typed, Save \/ Exit
    PROVE  Typed'
<1>1. proc.pc \in {"save", "finished"}
  BY DEF Save, Exit, At
<1>2. /\ proc = [x \in Fields |-> proc[x]] /\ Manifest(proc.manifest)
      /\ Placed(proc) /\ Worked(proc)
  BY <1>1, Going
<1>3. proc' = NoProcess \/ Worked(proc')
  <2>1. CASE Save
    <3>1. proc' = EnterNext(proc)
      BY <2>1 DEF Save
    <3>2. proc'.attempt = 1 /\ IsManifest(proc'.manifest)
      BY <1>2, <3>1, EnterNextTyped DEF Worked
    <3>3. proc'.pc # "backoff"
      BY <1>2, <2>1, SaveStep, EntersADoor DEF Doors
    <3> QED
      BY <3>2, <3>3, PipelineAssumption DEF Worked
  <2> QED
    BY <2>1 DEF Exit, Halt
<1>4. \A id \in RunIds : disk'[id] # Absent => IsManifest(disk'[id])
  <2>1. disk = [id \in RunIds |-> disk[id]]
    BY DEF Inv, Disk
  <2>2. disk' = [disk EXCEPT ![proc.cmd.run] = proc.manifest]
    BY DEF Save, Exit
  <2> QED
    BY <1>2, <2>1, <2>2 DEF Typed, Worked
<1>5. UNCHANGED <<players, seeded, runs, faults>>
  BY DEF Save, Exit, db, NoFault
<1> QED
  BY <1>3, <1>4, <1>5 DEF Typed

\* A process with marked records.
AtEnd(p, r) ==
    /\ p = [x \in Fields |-> p[x]] /\ Manifest(p.manifest) /\ IsManifest(p.manifest)
    /\ p.stage = r.stage /\ p.attempt = r.attempt

LEMMA MarkedTyped ==
    ASSUME NEW r, AtEnd(r, r),
           NEW ids, NEW cl, NEW status \in Statuses, NEW m, m = Mark(r.manifest, ids, status),
           NEW p, p = [r EXCEPT !.clean = cl, !.manifest = m]
    PROVE  AtEnd(p, r)
<1>1. Manifest(m) /\ IsManifest(m)
  BY MarkIs, MarkTyped DEF AtEnd
<1>2. /\ p = [x \in Fields |-> p[x]] /\ p.manifest = m
      /\ p.stage = r.stage /\ p.attempt = r.attempt
  BY DEF AtEnd, Fields
<1> QED
  BY <1>1, <1>2 DEF AtEnd

\* The end of Collect, Extract, Validate, Load and Archive.
LEMMA EndTyped ==
    ASSUME Inv, OnPlace, Typed, Collect \/ EndExtract \/ Validate \/ ValidateBlind \/ EndLoad \/ EndArchive
    PROVE  Typed'
<1>1. proc.pc \in {"collect", "documents", "validate", "rows", "originals"}
  BY DEF Collect, EndExtract, Validate, ValidateBlind, EndLoad, EndArchive, At
<1>2. /\ proc = [x \in Fields |-> proc[x]] /\ Manifest(proc.manifest)
      /\ Placed(proc) /\ Worked(proc)
  BY <1>1, Going
<1>3. proc.stage \in AllStages
  BY <1>1, <1>2, PlacesAre DEF AllStages
<1>4. \E p : /\ p = [x \in Fields |-> p[x]] /\ Manifest(p.manifest) /\ IsManifest(p.manifest)
             /\ p.stage = proc.stage /\ p.attempt = proc.attempt /\ proc' = Completed(p)
  <2>1. CASE Collect
    <3>1. PICK s : s = proc.manifest.skips \cup (ToSet(Source) \ ToSet(Routed))
                \cup {<<d>> : d \in ToSet(SUBFOLDER_SPECS) \ {Folder(f) : f \in ToSet(Source)}}
      OBVIOUS
    <3>2. PICK m, p : m = [proc.manifest EXCEPT !.skips = s] /\ p = [proc EXCEPT !.manifest = m]
      OBVIOUS
    <3>3. proc' = Completed(p)
      BY <1>2, <2>1, <3>1, <3>2 DEF Collect, Fields
    <3>4. m = [files |-> proc.manifest.files, records |-> proc.manifest.records,
               skips |-> s, completed |-> proc.manifest.completed]
      BY <1>2, <3>2 DEF Manifest
    <3>5. Manifest(m) /\ IsManifest(m)
      BY <1>2, <3>4 DEF Manifest, IsManifest, Worked
    <3>6. /\ p = [x \in Fields |-> p[x]] /\ p.manifest = m
          /\ p.stage = proc.stage /\ p.attempt = proc.attempt
      BY <1>2, <3>2 DEF Fields
    <3> QED
      BY <3>3, <3>5, <3>6
  <2>2. CASE EndExtract
    <3>1. PICK cl, m, p : /\ cl = proc.clean
                          /\ m = Mark(proc.manifest, Ids(proc.records), "extracted")
                          /\ p = [proc EXCEPT !.clean = cl, !.manifest = m]
      OBVIOUS
    <3>2. p = [proc EXCEPT !.manifest = m]
      BY <1>2, <3>1 DEF Fields
    <3>3. proc' = Completed(p)
      BY <1>2, <2>2, <3>1, <3>2 DEF EndExtract, Fields
    <3>4. AtEnd(p, proc)
      <4>1. AtEnd(proc, proc)
        BY <1>2 DEF AtEnd, Worked
      <4> QED
        BY <3>1, <4>1, MarkedTyped DEF Statuses
    <3> QED
      BY <3>3, <3>4 DEF AtEnd
  <2>3. CASE Validate \/ ValidateBlind
    <3>1. PICK known : ValidateWith(known)
      BY <2>3 DEF Validate, ValidateBlind
    <3>2. PICK cl, m, p : /\ cl = CleanRecords(known)
                          /\ m = Mark(proc.manifest, Unclean(known), "flagged")
                          /\ p = [proc EXCEPT !.clean = cl, !.manifest = m]
      OBVIOUS
    <3>3. proc' = Completed(p)
      BY <1>2, <3>1, <3>2 DEF ValidateWith, Fields, Unclean
    <3>4. AtEnd(p, proc)
      <4>1. AtEnd(proc, proc)
        BY <1>2 DEF AtEnd, Worked
      <4> QED
        BY <3>2, <4>1, MarkedTyped DEF Statuses
    <3> QED
      BY <3>3, <3>4 DEF AtEnd
  <2>4. CASE EndLoad \/ EndArchive
    <3>1. proc' = Completed(proc)
      BY <2>4 DEF EndLoad, EndArchive
    <3> QED
      BY <1>2, <3>1 DEF Worked
  <2> QED
    BY <2>1, <2>2, <2>3, <2>4
<1>5. Worked(proc')
  <2>1. proc'.pc = "save" /\ proc'.attempt = proc.attempt /\ IsManifest(proc'.manifest)
    BY <1>3, <1>4, CompletedTyped
  <2> QED
    BY <1>2, <2>1 DEF Worked
<1>6. UNCHANGED <<disk, players, runs, seeded>> /\ (faults' = faults \/ Fault)
  BY DEF Collect, EndExtract, Validate, ValidateBlind, ValidateWith, EndLoad, EndArchive,
         db, store, NoFault
<1> QED
  BY <1>5, <1>6, QuietTyped DEF Typed

\* Waiting for another attempt, and making it.
LEMMA AttemptTyped ==
    ASSUME Inv, OnPlace, Typed, proc.pc # "idle", Goto("backoff"), proc.attempt < MaxAttempts
    PROVE  Worked(proc')
<1>1. proc = [x \in Fields |-> proc[x]] /\ Worked(proc)
  BY Going
<1>2. PICK q : q = proc'
  OBVIOUS
<1>3. q.manifest = proc.manifest /\ q.attempt = proc.attempt
  BY <1>1, <1>2 DEF Goto, Fields
<1> QED
  BY <1>1, <1>2, <1>3 DEF Worked

LEMMA RetryTyped ==
    ASSUME Inv, OnPlace, Typed, Retry
    PROVE  Typed'
<1>1. proc.pc = "backoff"
  BY DEF Retry, At
<1>2. /\ proc = [x \in Fields |-> proc[x]] /\ Placed(proc) /\ Worked(proc)
  BY <1>1, Going
<1>3. proc.stage \in {"extract", "archive"}
  BY <1>1, <1>2, PlacesAre
<1>4. PICK q, pc, a : q = proc' /\ pc = FirstStep(proc.stage) /\ a = proc.attempt + 1
  OBVIOUS
<1>5. q = [proc EXCEPT !.pc = pc, !.attempt = a]
  BY <1>2, <1>4 DEF Retry, Fields
<1>6. q.manifest = proc.manifest /\ q.attempt = a /\ q.pc = pc
  BY <1>2, <1>5 DEF Fields
<1>7. pc # "backoff"
  BY <1>3, <1>4 DEF FirstStep
<1>8. a \in 1..MaxAttempts
  BY <1>1, <1>2, <1>4, PipelineAssumption DEF Worked
<1>9. Worked(proc')
  BY <1>2, <1>4, <1>6, <1>7, <1>8 DEF Worked
<1> QED
  BY <1>9, QuietTyped DEF Retry, NoFault, db, store, Typed

\* Extract.
LEMMA DocumentsTyped ==
    ASSUME Inv, OnPlace, Typed, proc.pc # "idle", NEW recs, NEW fs, NEW status \in {"done", "failed"},
           ToDocuments(recs, SetFiles(proc.manifest, fs, "extract", status))
    PROVE  Worked(proc')
<1>1. /\ proc = [x \in Fields |-> proc[x]] /\ Manifest(proc.manifest) /\ Worked(proc)
  BY Going
<1>2. PICK q, td, m : /\ q = proc' /\ td = ToExtract("docx")
                      /\ m = SetFiles(proc.manifest, fs, "extract", status)
  OBVIOUS
<1>3. q = [proc EXCEPT !.pc = "documents", !.todo = td, !.records = recs, !.manifest = m]
  BY <1>2 DEF ToDocuments
<1>4. q.manifest = m /\ q.attempt = proc.attempt /\ q.pc = "documents"
  BY <1>1, <1>3 DEF Fields
<1>5. IsManifest(m)
  BY <1>1, <1>2, SetFilesTyped DEF Worked
<1> QED
  BY <1>1, <1>2, <1>4, <1>5 DEF Worked

\* The batch of images is tried as often as the policy allows.
LEMMA ImagesTyped ==
    ASSUME Inv, OnPlace, Typed, ExtractImages \/ ImagesFail
    PROVE  Typed'
<1>1. proc.pc = "images"
  BY DEF ExtractImages, ImagesFail, At
<1>2. CASE ExtractImages
  <2>1. PICK files, said : ToDocuments(BatchRecords(files, said),
                                       SetFiles(proc.manifest, ToSet(files), "extract", "done"))
    BY <1>2 DEF ExtractImages
  <2>2. Worked(proc')
    BY <1>1, <2>1, DocumentsTyped
  <2> QED
    BY <1>2, <2>2, QuietTyped DEF ExtractImages, NoFault, db, store, Typed
<1>3. CASE ImagesFail
  <2>1. Worked(proc')
    <3>1. CASE proc.attempt < MaxAttempts
      BY <1>1, <1>3, <3>1, AttemptTyped DEF ImagesFail
    <3>2. CASE ~(proc.attempt < MaxAttempts)
      BY <1>1, <1>3, <3>2, DocumentsTyped DEF ImagesFail
    <3> QED
      BY <3>1, <3>2
  <2> QED
    BY <1>3, <2>1, QuietTyped DEF ImagesFail, NoFault, db, store, Typed
<1> QED
  BY <1>2, <1>3

\* A document is read or failed.
LEMMA DocumentDone ==
    ASSUME Inv, OnPlace, Typed, proc.pc = "documents", NEW status \in {"done", "failed"}, NEW td, NEW rs,
           NEW m, m = SetFiles(proc.manifest, {Head(proc.todo)}, "extract", status),
           proc' = [proc EXCEPT !.todo = td, !.records = rs, !.manifest = m]
    PROVE  Worked(proc')
<1>1. /\ proc = [x \in Fields |-> proc[x]] /\ Manifest(proc.manifest) /\ Worked(proc)
  BY Going
<1>2. PICK q : q = proc'
  OBVIOUS
<1>3. q.manifest = m /\ q.attempt = proc.attempt /\ q.pc = "documents"
  BY <1>1, <1>2 DEF Fields
<1>4. IsManifest(m)
  BY <1>1, SetFilesTyped DEF Worked
<1> QED
  BY <1>1, <1>2, <1>3, <1>4 DEF Worked

LEMMA DocumentTyped ==
    ASSUME Inv, OnPlace, Typed, ExtractDocument \/ DocumentFails
    PROVE  Typed'
<1>1. proc.pc = "documents"
  BY DEF ExtractDocument, DocumentFails, At
<1>2. proc = [x \in Fields |-> proc[x]]
  BY <1>1, Going
<1>3. Worked(proc')
  <2>1. CASE ExtractDocument
    <3>1. PICK td, rs, m : /\ td = Tail(proc.todo)
                           /\ rs = proc.records \o DocumentRecords[Head(proc.todo)]
                           /\ m = SetFiles(proc.manifest, {Head(proc.todo)}, "extract", "done")
      OBVIOUS
    <3>2. proc' = [proc EXCEPT !.todo = td, !.records = rs, !.manifest = m]
      BY <1>2, <2>1, <3>1 DEF ExtractDocument, Fields
    <3> QED
      BY <1>1, <3>1, <3>2, DocumentDone
  <2>2. CASE DocumentFails
    <3>1. PICK td, rs, m : /\ td = Tail(proc.todo) /\ rs = proc.records
                           /\ m = SetFiles(proc.manifest, {Head(proc.todo)}, "extract", "failed")
      OBVIOUS
    <3>2. proc' = [proc EXCEPT !.todo = td, !.manifest = m]
      BY <1>2, <2>2, <3>1 DEF DocumentFails, Fields
    <3>3. proc' = [proc EXCEPT !.todo = td, !.records = rs, !.manifest = m]
      BY <1>2, <3>1, <3>2 DEF Fields
    <3> QED
      BY <1>1, <3>1, <3>3, DocumentDone
  <2> QED
    BY <2>1, <2>2
<1> QED
  BY <1>3, QuietTyped DEF ExtractDocument, DocumentFails, NoFault, db, store, Typed

\* Load.
LEMMA ListTyped ==
    ASSUME Inv, OnPlace, Typed, BuildIndex \/ EndSchools
    PROVE  Typed'
<1>1. proc.pc \in {"index", "schools"}
  BY DEF BuildIndex, EndSchools, At
<1>2. proc = [x \in Fields |-> proc[x]] /\ Worked(proc)
  BY <1>1, Going
<1>3. PICK q : q = proc'
  OBVIOUS
<1>4. q.manifest = proc.manifest /\ q.attempt = proc.attempt /\ q.pc # "backoff"
  <2>1. PICK td, ix : td = Others /\ ix = DOMAIN players
    OBVIOUS
  <2>2. \/ q = [proc EXCEPT !.pc = "schools", !.index = ix]
        \/ q = [proc EXCEPT !.pc = "rows", !.todo = td]
    BY <1>3, <2>1 DEF BuildIndex, EndSchools
  <2> QED
    BY <1>2, <2>2 DEF Fields
<1>5. Worked(proc')
  BY <1>2, <1>3, <1>4 DEF Worked
<1> QED
  BY <1>5, QuietTyped DEF BuildIndex, EndSchools, NoFault, db, store, Typed

\* New players have no school yet,
LEMMA PlayersTyped ==
    ASSUME Inv, OnPlace, Typed, Resolving \/ CommitPlayers
    PROVE  Typed'
<1>1. /\ proc.pc \in {"players", "names", "lookup", "insert"}
      /\ proc'.pc \in {"names", "lookup", "insert", "index"}
      /\ proc'.manifest = proc.manifest /\ proc'.attempt = proc.attempt
  BY ResolvingStep, CommitPlayersStep
<1>2. Worked(proc)
  BY <1>1, Going
<1>3. Worked(proc')
  BY <1>1, <1>2 DEF Worked
<1>4. UNCHANGED <<disk, seeded, runs, faults>>
  BY DEF Resolving, LoadPlayers, ReadNames, LookUpPlayer, InsertPlayer, CommitPlayers,
         db, store, NoFault
<1>5. \A k \in DOMAIN players' : players'[k] \in Schools \cup {Blank}
  <2>1. PICK P2, cr : P2 = players' /\ cr = proc.created
    OBVIOUS
  <2>2. P2 = players \/ P2 = [k \in DOMAIN players \cup cr |->
                                 IF k \in DOMAIN players THEN players[k] ELSE Blank]
    BY <2>1 DEF Resolving, LoadPlayers, ReadNames, LookUpPlayer, InsertPlayer, CommitPlayers, db
  <2>3. \A k \in DOMAIN P2 : P2[k] \in Schools \cup {Blank}
    BY <2>2 DEF Typed
  <2> QED
    BY <2>1, <2>3
<1> QED
  BY <1>3, <1>4, <1>5 DEF Typed

\* A record is marked.
LEMMA DoneTyped ==
    ASSUME Inv, OnPlace, Typed, proc.pc \in {"schools", "rows"}, NEW status \in Statuses, Done(status)
    PROVE  Worked(proc')
<1>1. /\ proc = [x \in Fields |-> proc[x]] /\ Manifest(proc.manifest) /\ Worked(proc)
  BY Going
<1>2. PICK q, td, m : /\ q = proc' /\ td = Tail(proc.todo)
                      /\ m = Mark(proc.manifest, {RecordId(Head(proc.todo))}, status)
  OBVIOUS
<1>3. q = [proc EXCEPT !.todo = td, !.manifest = m]
  BY <1>1, <1>2 DEF Done, Fields
<1>4. q.manifest = m /\ q.attempt = proc.attempt /\ q.pc = proc.pc
  BY <1>1, <1>3 DEF Fields
<1>5. IsManifest(m)
  BY <1>1, <1>2, MarkTyped DEF Worked
<1> QED
  BY <1>1, <1>2, <1>4, <1>5 DEF Worked

\* and are given one of the reference data.
LEMMA AttachSchoolTyped ==
    ASSUME Inv, OnPlace, Typed, AttachSchool
    PROVE  Typed'
<1>1. proc.pc = "schools"
  BY DEF AttachSchool, At
<1>2. proc = [x \in Fields |-> proc[x]] /\ Worked(proc)
  BY <1>1, Going
<1>3. Worked(proc')
  <2>1. CASE Done("flagged")
    BY <1>1, <2>1, DoneTyped DEF Statuses
  <2>2. CASE proc' = [proc EXCEPT !.todo = Tail(@)]
    <3>1. PICK q, td : q = proc' /\ td = Tail(proc.todo)
      OBVIOUS
    <3>2. q = [proc EXCEPT !.todo = td]
      BY <1>2, <2>2, <3>1 DEF Fields
    <3>3. q.manifest = proc.manifest /\ q.attempt = proc.attempt /\ q.pc = "schools"
      BY <1>1, <1>2, <3>2 DEF Fields
    <3> QED
      BY <1>2, <3>1, <3>3 DEF Worked
  <2> QED
    BY <2>1, <2>2 DEF AttachSchool
<1>4. players' = players \/ \E k, school : /\ school \in Schools
                               /\ players' = [players EXCEPT ![k] = IF @ = Blank THEN school ELSE @]
  BY DEF AttachSchool
<1>5. \A k \in DOMAIN players' : players'[k] \in Schools \cup {Blank}
  <2>1. PICK P2 : P2 = players'
    OBVIOUS
  <2>2. \A k \in DOMAIN P2 : P2[k] \in Schools \cup {Blank}
    BY <1>4, <2>1 DEF Typed
  <2> QED
    BY <2>1, <2>2
<1>6. UNCHANGED <<disk, seeded, runs>> /\ faults' \in 0..MaxFaults
  BY PipelineAssumption DEF AttachSchool, store, NoFault, Fault, Typed
<1> QED
  BY <1>3, <1>5, <1>6 DEF Typed

\* Rows change none of this.
LEMMA RowTyped ==
    ASSUME Inv, OnPlace, Typed, LoadOne \/ LoadOneUnresolved \/ LoadOneFails
    PROVE  Typed'
<1>1. proc.pc = "rows"
  BY DEF LoadOne, LoadOneUnresolved, LoadOneFails, At
<1>2. proc' = NoProcess \/ \E status \in Statuses : Done(status)
  BY DEF LoadOne, LoadOneUnresolved, LoadOneFails, InsertOrSkip, Halt, Statuses
<1>3. proc' = NoProcess \/ Worked(proc')
  BY <1>1, <1>2, DoneTyped
<1>4. UNCHANGED <<disk, players, runs, seeded>> /\ (faults' = faults \/ Fault)
  BY DEF LoadOne, LoadOneUnresolved, LoadOneFails, db, store, NoFault
<1> QED
  BY <1>3, <1>4, QuietTyped DEF Typed

\* Archive.
LEMMA OriginalTyped ==
    ASSUME Inv, OnPlace, Typed, ArchiveFile \/ ArchiveFails
    PROVE  Typed'
<1>1. proc.pc = "originals"
  BY DEF ArchiveFile, ArchiveFails, At
<1>2. /\ proc = [x \in Fields |-> proc[x]] /\ Manifest(proc.manifest) /\ Worked(proc)
  BY <1>1, Going
<1>3. proc' = NoProcess \/ Worked(proc')
  <2>1. CASE ArchiveFile
    <3>1. PICK q, td, m : /\ q = proc' /\ td = Tail(proc.todo)
                          /\ m = SetFiles(proc.manifest, {Head(proc.todo)}, "archive", "done")
      OBVIOUS
    <3>2. q = [proc EXCEPT !.todo = td, !.attempt = 1, !.manifest = m]
      BY <1>2, <2>1, <3>1 DEF ArchiveFile, Fields
    <3>3. q.manifest = m /\ q.attempt = 1 /\ q.pc = "originals"
      BY <1>1, <1>2, <3>2 DEF Fields
    <3>4. IsManifest(m)
      BY <1>2, <3>1, SetFilesTyped DEF Worked
    <3> QED
      BY <3>1, <3>3, <3>4, PipelineAssumption DEF Worked
  <2>2. CASE ArchiveFails
    BY <1>1, <2>2, AttemptTyped DEF ArchiveFails, Halt
  <2> QED
    BY <2>1, <2>2
<1>4. UNCHANGED <<disk, players, runs, seeded, faults>>
  BY DEF ArchiveFile, ArchiveFails, db, NoFault
<1> QED
  BY <1>3, <1>4, QuietTyped DEF Typed

\* The API registers players without a school.
LEMMA ApiTyped ==
    ASSUME Typed, NEW k \in ApiPlayers, ApiLookUp(k) \/ ApiRegister(k)
    PROVE  Typed'
<1>1. PICK P2 : P2 = players'
  OBVIOUS
<1>2. \/ P2 = players
      \/ P2 = [key \in DOMAIN players \cup {k} |-> IF key = k THEN Blank ELSE players[key]]
  BY <1>1 DEF ApiLookUp, ApiRegister, With
<1>3. \A key \in DOMAIN P2 : P2[key] \in Schools \cup {Blank}
  BY <1>2 DEF Typed
<1>4. UNCHANGED <<proc, disk, seeded, runs, faults>>
  BY DEF ApiLookUp, ApiRegister, store
<1> QED
  BY <1>1, <1>3, <1>4 DEF Typed

\* Every step keeps the types.
LEMMA TypedKeeps == ASSUME Inv, OnPlace, Typed, [Next]_vars PROVE Typed'
<1>1. CASE NoLocation \/ LoadAborts \/ NoBucket \/ Crash
  <2>1. proc' = NoProcess
    BY <1>1, LostRun
  <2>2. UNCHANGED <<disk, players, runs, seeded>> /\ (faults' = faults \/ Fault)
    BY <1>1 DEF NoLocation, LoadAborts, NoBucket, Crash, db, store, NoFault
  <2> QED
    BY <2>1, <2>2, QuietTyped DEF Typed
<1>2. CASE UNCHANGED vars
  BY <1>2 DEF vars, db, store, Typed
<1> QED
  BY <1>1, <1>2, StartRunTyped, ConnectTyped, SaveTyped, EndTyped, ImagesTyped, RetryTyped,
     DocumentTyped, PlayersTyped, ListTyped, AttachSchoolTyped, RowTyped, OriginalTyped,
     ApiTyped
  DEF Next, Step, Resolving

\* Manifests, players and the process keep their types for any source folder,
\* documents and command lines, and a call is never attempted more often than the
\* policy allows (RunManifest, run_pipeline, retry_call).
THEOREM TypeCorrect == Spec => []TypeOK
<1>1. Init => OnPlace /\ Sound
  BY DEF Init, OnPlace, Sound, SoundTables
<1>2. ASSUME Init PROVE Typed
  <2>1. \A id \in RunIds : disk[id] = Absent
    BY <1>2 DEF Init
  <2>2. DOMAIN players = {}
    BY <1>2 DEF Init
  <2>3. proc = NoProcess /\ seeded = FALSE /\ runs = 0 /\ faults = 0
    BY <1>2 DEF Init
  <2>4. runs \in 0..MaxRuns /\ faults \in 0..MaxFaults
    BY <2>3, PipelineAssumption
  <2> QED
    BY <2>1, <2>2, <2>3, <2>4 DEF Typed
<1>3. Inv /\ OnPlace /\ Sound /\ Typed /\ [Next]_vars => (OnPlace /\ Sound /\ Typed)'
  BY PlacedKeeps, SoundKeeps, TypedKeeps DEF Sound
<1>4. OnPlace /\ Sound /\ Typed /\ Apart => TypeOK
  BY DEF Typed, Worked, Sound, Ready, Prepared, Apart, TypeOK
<1> QED
  BY <1>1, <1>2, <1>3, <1>4, ApartFirst, LedgerKept, Inductive, PTL DEF Spec

-----------------------------------------------------------------------------
(* The pure functions between a source and the database (Extraction).      *)

\* What the input is.
InputType ==
    \/ input = <<"document", input[2]>> /\ input[2] \in Seq(Blocks)
    \/ \E f \in Unlisted \cup {"list", "records"}, s \in Seq(Items) :
          input = <<"answer", [form |-> f, items |-> s]>>
    \/ input = <<"date", input[2]>> /\ input[2] \in Dates
    \/ input = <<"amount", input[2]>> /\ input[2] \in Amounts

\* The input is a document, an answer, a date or an amount.
LEMMA InputInductive == InputSpec => []InputType
<1>1. InitInput => InputType
  <2>1. <<>> \in Seq(Blocks) /\ <<>> \in Seq(Items)
    OBVIOUS
  <2>2. CASE input = <<"document", <<>>>>
    BY <2>1, <2>2 DEF InputType
  <2>3. ASSUME NEW f \in Unlisted \cup {"list", "records"},
               input = <<"answer", [form |-> f, items |-> <<>>]>>
        PROVE  InputType
    BY <2>1, <2>3 DEF InputType
  <2>4. ASSUME NEW d \in Dates, input = <<"date", d>> PROVE InputType
    BY <2>4 DEF InputType
  <2>5. ASSUME NEW a \in Amounts, input = <<"amount", a>> PROVE InputType
    BY <2>5 DEF InputType
  <2> QED
    BY <2>2, <2>3, <2>4, <2>5 DEF InitInput
<1>2. InputType /\ [GrowInput]_input => InputType'
  <2>1. CASE GrowDocument
    <3>1. PICK b \in Blocks : input' = <<"document", Append(input[2], b)>>
      BY <2>1 DEF GrowDocument
    <3>2. ASSUME InputType PROVE input[2] \in Seq(Blocks)
      BY <2>1, <3>2 DEF GrowDocument, InputType
    <3> QED
      BY <3>1, <3>2 DEF InputType
  <2>2. CASE GrowAnswer
    <3>1. PICK item \in Items :
             input' = <<"answer", [input[2] EXCEPT !.items = Append(@, item)]>>
      BY <2>2 DEF GrowAnswer
    <3> SUFFICES ASSUME InputType PROVE InputType'
      OBVIOUS
    <3>2. PICK f \in Unlisted \cup {"list", "records"}, s \in Seq(Items) :
             input = <<"answer", [form |-> f, items |-> s]>>
      BY <2>2 DEF GrowAnswer, InputType
    <3>3. input' = <<"answer", [form |-> f, items |-> Append(s, item)]>>
      <4>1. ASSUME NEW q, q = [form |-> f, items |-> s]
            PROVE  [q EXCEPT !.items = Append(@, item)] = [form |-> f, items |-> Append(s, item)]
        BY <4>1
      <4> QED
        BY <3>1, <3>2, <4>1
    <3>4. Append(s, item) \in Seq(Items)
      OBVIOUS
    <3> QED
      BY <3>3, <3>4 DEF InputType
  <2>3. CASE UNCHANGED input
    BY <2>3 DEF InputType
  <2> QED
    BY <2>1, <2>2, <2>3 DEF GrowInput
<1> QED
  BY <1>1, <1>2, PTL DEF InputSpec

\* A candidate keeps its confidence, within bounds, or is flagged.
LEMMA NormalizedConfidence ==
    ASSUME NEW item \in Items
    PROVE  LET r == MO!NormalizeRecord(item)
           IN  /\ r.malformed \in BOOLEAN
               /\ r.malformed => r.confidence = 0
               /\ r.confidence \in 0..100
               /\ r.confidence > 50 => item.confidence # <<>> /\ item.confidence[1] > 50
<1>1. ASSUME NEW x, x = <<>> \/ x[1] \in Int
      PROVE  /\ MO!CoerceConfidence(x) \in 0..100
             /\ MO!CoerceConfidence(x) > 50 => x # <<>> /\ x[1] > 50
  <2>1. CASE x = <<>>
    BY <2>1 DEF MO!CoerceConfidence, MO!DEFAULT_CONFIDENCE
  <2>2. CASE x # <<>>
    <3>1. PICK n \in Int : n = x[1]
      BY <1>1, <2>2
    <3>2. MO!CoerceConfidence(x) = IF n < 0 THEN 0 ELSE IF n > 100 THEN 100 ELSE n
      BY <2>2, <3>1 DEF MO!CoerceConfidence, MO!Clamp
    <3>3. MO!CoerceConfidence(x) \in 0..100 /\ (MO!CoerceConfidence(x) > 50 => n > 50)
      BY <3>2
    <3> QED
      BY <2>2, <3>1, <3>3, Zenon
  <2> QED
    BY <2>1, <2>2
<1>2. item.confidence = <<>> \/ item.confidence[1] \in Int
  BY InputsAssumption
<1>3. PICK c \in 0..100 :
         /\ c = MO!CoerceConfidence(item.confidence)
         /\ c > 50 => item.confidence # <<>> /\ item.confidence[1] > 50
  BY <1>1, <1>2
<1>4. CASE MO!NormalizeRecord(item) = [table |-> "players", confidence |-> 0, malformed |-> TRUE]
  BY <1>4
<1>5. CASE MO!NormalizeRecord(item) = [table |-> item.table, confidence |-> c, malformed |-> FALSE]
  BY <1>3, <1>5
<1> QED
  BY <1>3, <1>4, <1>5 DEF MO!NormalizeRecord, MO!Malformed, MO!MALFORMED_CONFIDENCE

\* Whatever the model answers, each candidate it lists becomes one record, and
\* one that cannot be read is kept with confidence 0 (_parse_item_content,
\* _normalise_record, _malformed_item).
THEOREM AnswersAreKept == InputSpec => []NoAnswerDropped
<1>1. InputType => NoAnswerDropped
  <2> SUFFICES ASSUME InputType, input[1] = "answer" PROVE NoAnswerDropped
    BY DEF NoAnswerDropped
  <2> DEFINE recs == MO!ParseItemContent(input[2])
             items == input[2].items
  <2>1. /\ input[2].form \in Unlisted \cup {"list", "records"}
        /\ items \in Seq(Items)
    BY DEF InputType
  <2>2. CASE input[2].form \in Unlisted
    <3>1. recs = <<MO!Malformed>>
      BY <2>2 DEF MO!ParseItemContent, Unlisted
    <3>2. MO!Malformed.malformed /\ MO!Malformed.confidence = 0
      BY DEF MO!Malformed, MO!MALFORMED_CONFIDENCE
    <3>3. Len(recs) = 1 /\ recs[1] = MO!Malformed
      BY <3>1
    <3> HIDE DEF recs
    <3>4. \A i \in 1..Len(recs) : recs[i].malformed /\ recs[i].confidence = 0
      BY <3>2, <3>3
    <3> QED
      BY <2>2, <3>3, <3>4, PricesAssumption DEF NoAnswerDropped, recs
  <2>3. CASE input[2].form \notin Unlisted
    <3>1. recs = [i \in 1..Len(items) |-> MO!NormalizeRecord(items[i])]
      BY <2>1, <2>3 DEF MO!ParseItemContent, Unlisted
    <3>2. Len(items) \in Nat /\ Len(recs) = Len(items)
      BY <2>1, <3>1
    <3>3. ASSUME NEW i \in 1..Len(items)
          PROVE  /\ recs[i] = MO!NormalizeRecord(items[i])
                 /\ items[i] \in Items
      BY <2>1, <3>1
    <3> HIDE DEF recs
    <3>4. ASSUME NEW i \in 1..Len(recs)
          PROVE  /\ recs[i].malformed /\ Threshold > 0 => recs[i].confidence < Threshold
                 /\ recs[i].confidence \in 0..100
                 /\ recs[i].confidence > 50 =>
                       input[2].items[i].confidence # <<>> /\ input[2].items[i].confidence[1] > 50
      BY <3>2, <3>3, NormalizedConfidence, PricesAssumption
    <3> QED
      BY <2>3, <3>2, <3>4 DEF NoAnswerDropped, recs
  <2> QED
    BY <2>2, <2>3
<1> QED
  BY <1>1, InputInductive, PTL

\* The two readings of the age rule agree (DateIsImpossible, AgeYears).
LEMMA DateRule == ASSUME NEW d \in Dates PROVE DateRuleHolds(d)
<1>1. PICK y \in Int, m \in Int, n \in Int : d = <<y, m, n>>
  BY InputsAssumption
<1>2. PICK ty \in Int, tm \in Int, tn \in Int : Today = <<ty, tm, tn>>
  BY PricesAssumption
<1>3. d # Absent
  BY <1>1 DEF Absent
<1>4. /\ d[1] = y /\ d[2] = m /\ d[3] = n
      /\ Today[1] = ty /\ Today[2] = tm /\ Today[3] = tn
  BY <1>1, <1>2
<1> DEFINE Later(k) == ty < y + k \/ (ty = y + k /\ tm < m) \/ (ty = y + k /\ tm = m /\ tn < n)
           age == ty - y - (IF tm > m \/ (tm = m /\ tn >= n) THEN 0 ELSE 1)
<1>5. ASSUME NEW k \in Int
      PROVE  Before(Today, <<d[1] + k, d[2], d[3]>>) <=> Later(k)
  BY <1>4 DEF Before
<1>6. Before(Today, d) <=> Later(0)
  BY <1>4 DEF Before
<1>7. AgeYears(d, Today) = age
  BY <1>4 DEF AgeYears
<1>8. (~Later(0) /\ age \in 3..100) <=> (~Later(3) /\ Later(101))
  OBVIOUS
<1>9. /\ Before(Today, <<d[1] + 3, d[2], d[3]>>) <=> Later(3)
      /\ Before(Today, <<d[1] + 101, d[2], d[3]>>) <=> Later(101)
  BY <1>5
<1>10. d[1] < 1900 <=> ~(d[1] >= 1900)
  BY <1>4
<1> HIDE DEF Later, age
<1> QED
  BY <1>3, <1>6, <1>7, <1>8, <1>9, <1>10
     DEF DateRuleHolds, DateIsImpossible, MIN_PLAUSIBLE_YEAR, MIN_AGE, MAX_AGE

\* The two readings of the amount rule agree (AmountToCents).
LEMMA AmountRule == ASSUME NEW a \in Amounts PROVE AmountRuleHolds(a)
<1>1. CASE a \in {Absent, <<"text">>}
  <2>1. AmountCandidates(a) = {}
    BY <1>1 DEF AmountCandidates, Absent
  <2> QED
    BY <2>1 DEF AmountRuleHolds, AmountToCents, AmountHasNoTier
<1>2. CASE a \in {"R", "bare"} \X Int
  <2>1. PICK w \in {"R", "bare"}, n \in Int : a = <<w, n>>
    BY <1>2
  <2> DEFINE rand == IF w = "bare" /\ n % 100 = 0 THEN {n \div 100} ELSE {}
             listed == AmountCandidates(a) \cap Prices
  <2>2. AmountCandidates(a) = {n} \cup rand
    BY <2>1 DEF AmountCandidates
  <2>3. /\ AmountCandidates(a) \subseteq Int
        /\ \A c \in AmountCandidates(a) : c = n \/ (w # "R" /\ c * 100 = n)
    BY <2>2
  <2>4. CASE listed = {}
    <3>1. AmountToCents(a) = n
      BY <2>1, <2>2, <2>4 DEF AmountToCents
    <3> QED
      BY <2>1, <2>4, <3>1 DEF AmountRuleHolds, AmountHasNoTier
  <2>5. CASE listed # {}
    <3>1. \E c \in listed : \A x \in listed : c <= x
      BY <2>2, <2>3, <2>5
    <3>2. Min(listed) \in listed
      BY <3>1 DEF Min
    <3>3. AmountToCents(a) \in listed
      BY <2>5, <3>2 DEF AmountToCents
    <3> QED
      BY <2>1, <2>3, <3>3 DEF AmountRuleHolds
  <2> QED
    BY <2>4, <2>5
<1> QED
  BY <1>1, <1>2, InputsAssumption

\* For every date and amount, the rules of Validate decide as their definition by
\* years of age and by list prices does (_date_is_impossible, _age_years,
\* amount_to_cents).
THEOREM RulesAgree == InputSpec => []RulesMeetReference
<1>1. InputType => RulesMeetReference
  <2>1. ASSUME InputType, input[1] = "date" PROVE input[2] \in Dates
    BY <2>1 DEF InputType
  <2>2. ASSUME InputType, input[1] = "amount" PROVE input[2] \in Amounts
    BY <2>2 DEF InputType
  <2> QED
    BY <2>1, <2>2, DateRule, AmountRule DEF RulesMeetReference
<1> QED
  BY <1>1, InputInductive, PTL

-----------------------------------------------------------------------------
(* Numbers and titles of sections, as a document grows by a block.         *)

\* The least and the greatest of a set of numbers from 1 to n.
LEMMA MinAndMax ==
    ASSUME NEW n \in Nat, NEW S \in SUBSET (1..n), S # {}
    PROVE  /\ Min(S) \in S /\ \A i \in S : Min(S) =< i
           /\ Max(S) \in S /\ \A i \in S : i =< Max(S)
<1> DEFINE Low == {k \in Nat : (\E i \in S : i =< k) => \E i \in S : \A j \in S : i =< j}
           High == {k \in Nat : (\E i \in S : n - i =< k) => \E i \in S : \A j \in S : j =< i}
<1>1. n \in Low
  <2>1. 0 \in Low
    OBVIOUS
  <2>2. \A k \in Nat : k \in Low => k + 1 \in Low
    <3> SUFFICES ASSUME NEW k \in Nat, k \in Low, NEW i \in S, i =< k + 1
                 PROVE  \E l \in S : \A j \in S : l =< j
      OBVIOUS
    <3>1. CASE \E j \in S : j =< k
      BY <3>1
    <3>2. CASE ~\E j \in S : j =< k
      <4>1. \A j \in S : i =< j
        BY <3>2
      <4> QED
        BY <4>1
    <3> QED
      BY <3>1, <3>2
  <2> HIDE DEF Low
  <2> QED
    BY <2>1, <2>2, EveryNatural
<1>2. n \in High
  <2>1. 0 \in High
    OBVIOUS
  <2>2. \A k \in Nat : k \in High => k + 1 \in High
    <3> SUFFICES ASSUME NEW k \in Nat, k \in High, NEW i \in S, n - i =< k + 1
                 PROVE  \E l \in S : \A j \in S : j =< l
      OBVIOUS
    <3>1. CASE \E j \in S : n - j =< k
      BY <3>1
    <3>2. CASE ~\E j \in S : n - j =< k
      <4>1. \A j \in S : j =< i
        BY <3>2
      <4> QED
        BY <4>1
    <3> QED
      BY <3>1, <3>2
  <2> HIDE DEF High
  <2> QED
    BY <2>1, <2>2, EveryNatural
<1>3. \E i \in S : i =< n /\ n - i =< n
  <2>1. PICK i : i \in S
    OBVIOUS
  <2>2. i \in 1..n
    BY <2>1
  <2>3. i =< n /\ n - i =< n
    BY <2>2
  <2> QED
    BY <2>1, <2>3
<1>4. \E l \in S : \A j \in S : l =< j
  BY <1>1, <1>3
<1>5. \E l \in S : \A j \in S : l >= j
  BY <1>2, <1>3
<1> QED
  BY <1>4, <1>5 DEF Min, Max

\* One more number, after all the others.
LEMMA OneMore ==
    ASSUME NEW n \in Nat, NEW S \in SUBSET (1..n)
    PROVE  /\ Max(S \cup {n + 1}) = n + 1
           /\ S # {} => Min(S \cup {n + 1}) = Min(S)
           /\ S = {} => Min(S \cup {n + 1}) = n + 1
<1>1. S \cup {n + 1} \in SUBSET (1..n + 1) /\ S \cup {n + 1} # {} /\ n + 1 \in Nat
  OBVIOUS
<1>2. /\ Max(S \cup {n + 1}) \in S \cup {n + 1} /\ n + 1 =< Max(S \cup {n + 1})
      /\ Min(S \cup {n + 1}) \in S \cup {n + 1} /\ \A i \in S \cup {n + 1} : Min(S \cup {n + 1}) =< i
  BY <1>1, MinAndMax
<1>3. ASSUME S # {} PROVE Min(S) \in S /\ \A i \in S : Min(S) =< i
  BY <1>3, MinAndMax
<1>4. Max(S \cup {n + 1}) = n + 1
  <2>1. \A i \in S : ~(n + 1 =< i)
    OBVIOUS
  <2> QED
    BY <1>2, <2>1
<1>5. ASSUME S # {} PROVE Min(S \cup {n + 1}) = Min(S)
  <2>1. Min(S) \in 1..n
    BY <1>3, <1>5
  <2>2. Min(S \cup {n + 1}) =< Min(S)
    BY <1>2, <1>3, <1>5
  <2>3. Min(S \cup {n + 1}) \in S
    BY <1>2, <2>1, <2>2
  <2>4. Min(S) =< Min(S \cup {n + 1})
    BY <1>3, <1>5, <2>3
  <2>5. Min(S \cup {n + 1}) \in 1..n
    BY <2>3
  <2> QED
    BY <2>1, <2>2, <2>4, <2>5
<1>6. ASSUME S = {} PROVE Min(S \cup {n + 1}) = n + 1
  BY <1>2, <1>6
<1> QED
  BY <1>4, <1>5, <1>6

\* The title of a section is that of the last block that names one.
LEMMA TitleOfOneMore ==
    ASSUME NEW B, NEW sec \in Seq(B), NEW b \in B
    PROVE  SectionTitle(Append(sec, b))
           = IF b.kind \in {"lesson", "title"} /\ b.value # Blank THEN b.value
             ELSE SectionTitle(sec)
<1> DEFINE n == Len(sec)
<1>1. /\ n \in Nat /\ Len(Append(sec, b)) = n + 1 /\ Append(sec, b)[n + 1] = b
      /\ \A i \in 1..n : Append(sec, b)[i] = sec[i]
  OBVIOUS
<1>2. PICK more : more = Append(sec, b)
  OBVIOUS
<1>3. Named(sec) \in SUBSET (1..n)
  BY DEF Named
<1>4. CASE b.kind \in {"lesson", "title"} /\ b.value # Blank
  <2>1. Named(more) = Named(sec) \cup {n + 1}
    BY <1>1, <1>2, <1>4 DEF Named
  <2>2. Max(Named(more)) = n + 1
    BY <1>1, <1>3, <2>1, OneMore
  <2> QED
    BY <1>1, <1>2, <1>4, <2>1, <2>2 DEF SectionTitle
<1>5. CASE ~(b.kind \in {"lesson", "title"} /\ b.value # Blank)
  <2>1. Named(more) = Named(sec)
    BY <1>1, <1>2, <1>5 DEF Named
  <2>2. Named(sec) # {} => Max(Named(sec)) \in 1..n
    BY <1>1, <1>3, MinAndMax
  <2> QED
    BY <1>1, <1>2, <1>5, <2>1, <2>2 DEF SectionTitle
<1> QED
  BY <1>4, <1>5

\* FlattenSeq of one more sequence.
LEMMA FlattenOneMore ==
    ASSUME NEW A, NEW ss, Len(ss) \in Nat, NEW more, NEW t \in Seq(A),
           Len(more) = Len(ss) + 1, more[Len(ss) + 1] = t,
           \A i \in 1..Len(ss) : more[i] = ss[i],
           Len(ss) = 0 => ss = <<>>
    PROVE  FlattenSeq(more) = FlattenSeq(ss) \o t
<1> DEFINE n == Len(ss)
<1>1. PICK up : Strings(up, more) /\ FlattenSeq(more) = up[n + 1]
  BY FlattenStrings
<1>2. ASSUME NEW i \in 1..n + 1 PROVE up[i] = IF i = 1 THEN more[i] ELSE up[i - 1] \o more[i]
  BY <1>1, Zenon DEF Strings
<1>3. CASE n = 0
  <2>1. FlattenSeq(ss) = <<>>
    BY <1>3 DEF FlattenSeq
  <2>2. up[1] = t
    BY <1>2, <1>3
  <2>3. <<>> \o t = t
    OBVIOUS
  <2> QED
    BY <1>1, <1>3, <2>1, <2>2, <2>3
<1>4. CASE n # 0
  <2>1. PICK flat : Strings(flat, ss) /\ FlattenSeq(ss) = flat[n]
    BY <1>4, FlattenStrings
  <2>2. ASSUME NEW i \in 1..n PROVE flat[i] = IF i = 1 THEN ss[i] ELSE flat[i - 1] \o ss[i]
    BY <2>1, Zenon DEF Strings
  <2> DEFINE T == {k \in Nat : k \in 1..n => up[k] = flat[k]}
  <2>3. 0 \in T
    OBVIOUS
  <2>4. ASSUME NEW k \in Nat, k \in T PROVE k + 1 \in T
    <3> SUFFICES ASSUME k + 1 \in 1..n PROVE up[k + 1] = flat[k + 1]
      OBVIOUS
    <3>1. up[k + 1] = IF k + 1 = 1 THEN more[k + 1] ELSE up[k] \o more[k + 1]
      BY <1>2
    <3>2. flat[k + 1] = IF k + 1 = 1 THEN ss[k + 1] ELSE flat[k] \o ss[k + 1]
      BY <2>2
    <3>3. more[k + 1] = ss[k + 1]
      OBVIOUS
    <3> QED
      BY <2>4, <3>1, <3>2, <3>3
  <2>5. n \in T
    <3>1. \A k \in Nat : k \in T => k + 1 \in T
      BY <2>4
    <3> HIDE DEF T
    <3> QED
      BY <2>3, <3>1, EveryNatural
  <2>6. up[n + 1] = up[n] \o t
    <3>1. n + 1 \in 1..n + 1 /\ n + 1 # 1 /\ (n + 1) - 1 = n
      BY <1>4
    <3> QED
      BY <1>2, <3>1
  <2>7. up[n] = flat[n]
    <3>1. n \in 1..n
      BY <1>4
    <3> QED
      BY <2>5, <3>1
  <2> QED
    BY <1>1, <2>1, <2>6, <2>7
<1> QED
  BY <1>3, <1>4

\* A sequence with one more element.
LEMMA AppendIs ==
    ASSUME NEW B, NEW s \in Seq(B), NEW b \in B
    PROVE  /\ Append(s, b) \in Seq(B) /\ Len(s) \in Nat /\ Len(Append(s, b)) = Len(s) + 1
           /\ Append(s, b)[Len(s) + 1] = b
           /\ \A i \in 1..Len(s) : Append(s, b)[i] = s[i]
OBVIOUS

\* The markers of one more block.
LEMMA MarksOfOneMore ==
    ASSUME NEW B, NEW doc \in Seq(B), NEW b \in B
    PROVE  /\ Marks(doc) \in SUBSET (1..Len(doc))
           /\ Marks(Append(doc, b)) = IF b.kind = "lesson" THEN Marks(doc) \cup {Len(doc) + 1}
                                      ELSE Marks(doc)
<1>1. /\ Len(doc) \in Nat /\ Len(Append(doc, b)) = Len(doc) + 1
      /\ Append(doc, b)[Len(doc) + 1] = b
      /\ \A i \in 1..Len(doc) : Append(doc, b)[i] = doc[i]
  OBVIOUS
<1>2. PICK more : more = Append(doc, b)
  OBVIOUS
<1> QED
  BY <1>1, <1>2 DEF Marks

\* How many markers there are up to a block.
UpTo(doc, i) == {j \in Marks(doc) : j =< i}

\* There are finitely many markers, also up to a block, so Cardinality counts them.
LEMMA MarksAreFinite ==
    ASSUME NEW B, NEW doc \in Seq(B)
    PROVE  /\ IsFiniteSet(Marks(doc)) /\ Cardinality(Marks(doc)) \in Nat
           /\ \A i : /\ IsFiniteSet(UpTo(doc, i)) /\ Cardinality(UpTo(doc, i)) \in Nat
                     /\ Cardinality(UpTo(doc, i)) =< Cardinality(Marks(doc))
<1>1. IsFiniteSet(1..Len(doc))
  <2>1. 1 \in Int /\ Len(doc) \in Int
    OBVIOUS
  <2> QED
    BY ONLY <2>1, FS_Interval
<1>2. Marks(doc) \in SUBSET (1..Len(doc))
  BY DEF Marks
<1>3. IsFiniteSet(Marks(doc))
  BY <1>1, <1>2, FS_Subset
<1>4. \A i : UpTo(doc, i) \in SUBSET Marks(doc)
  BY DEF UpTo
<1> QED
  BY <1>3, <1>4, FS_Subset, FS_CardinalityType

\* A marker has fewer markers up to it than a later one.
LEMMA LaterHasMore ==
    ASSUME NEW B, NEW doc \in Seq(B), NEW i \in Marks(doc), NEW j \in Marks(doc), i < j
    PROVE  Cardinality(UpTo(doc, i)) < Cardinality(UpTo(doc, j))
<1>1. i \in 1..Len(doc) /\ j \in 1..Len(doc)
  BY DEF Marks
<1>2. UpTo(doc, i) \in SUBSET UpTo(doc, j)
  BY <1>1 DEF UpTo, Marks
<1>3. j \in UpTo(doc, j) /\ j \notin UpTo(doc, i)
  BY <1>1 DEF UpTo
<1>4. IsFiniteSet(UpTo(doc, j))
  BY MarksAreFinite
<1>5. /\ Cardinality(UpTo(doc, i)) =< Cardinality(UpTo(doc, j))
      /\ Cardinality(UpTo(doc, i)) # Cardinality(UpTo(doc, j))
  BY <1>2, <1>3, <1>4, FS_Subset
<1> QED
  BY <1>5, MarksAreFinite

\* A lesson starts at the marker that has as many markers up to it.
LEMMA StartIs ==
    ASSUME NEW B, NEW doc \in Seq(B), NEW i \in Marks(doc)
    PROVE  Start(doc, Cardinality(UpTo(doc, i))) = i
<1> DEFINE n == Cardinality(UpTo(doc, i))
<1>1. ASSUME NEW j \in Marks(doc), Cardinality(UpTo(doc, j)) = n PROVE j = i
  <2>1. i \in Int /\ j \in Int
    BY DEF Marks
  <2>2. n \in Nat
    BY MarksAreFinite
  <2>3. ~(i < j) /\ ~(j < i)
    BY <1>1, <2>2, LaterHasMore
  <2> QED
    BY <2>1, <2>3
<1>2. Start(doc, n) = CHOOSE j \in Marks(doc) : Cardinality(UpTo(doc, j)) = n
  BY DEF Start, UpTo
<1> QED
  BY <1>1, <1>2

\* Each number of a lesson has its marker.
Numbered(doc) ==
    \A n \in 1..Cardinality(Marks(doc)) :
        Start(doc, n) \in Marks(doc) /\ Cardinality(UpTo(doc, Start(doc, n))) = n

\* One more block leaves the numbers of the lessons as they are.
LEMMA NumbersLast ==
    ASSUME NEW B, NEW doc \in Seq(B), NEW b \in B, NEW i \in Marks(doc)
    PROVE  i \in Marks(Append(doc, b)) /\ UpTo(Append(doc, b), i) = UpTo(doc, i)
<1>1. PICK more \in Seq(B) : more = Append(doc, b)
  BY AppendIs
<1>2. Marks(doc) \in SUBSET (1..Len(doc)) /\ Len(doc) \in Nat
  BY MarksOfOneMore
<1>3. Marks(more) = IF b.kind = "lesson" THEN Marks(doc) \cup {Len(doc) + 1} ELSE Marks(doc)
  BY <1>1, MarksOfOneMore
<1>4. i < Len(doc) + 1
  BY <1>2
<1>5. UpTo(more, i) = UpTo(doc, i)
  BY <1>2, <1>3, <1>4 DEF UpTo
<1> QED
  BY <1>1, <1>3, <1>5

\* One more marker has the next number.
LEMMA NumberOfOneMore ==
    ASSUME NEW B, NEW doc \in Seq(B), NEW b \in B, b.kind = "lesson"
    PROVE  /\ Cardinality(Marks(Append(doc, b))) = Cardinality(Marks(doc)) + 1
           /\ Start(Append(doc, b), Cardinality(Marks(doc)) + 1) = Len(doc) + 1
<1>1. PICK more \in Seq(B) : more = Append(doc, b)
  BY AppendIs
<1>2. Marks(doc) \in SUBSET (1..Len(doc)) /\ Len(doc) \in Nat
  BY MarksOfOneMore
<1>3. Marks(more) = Marks(doc) \cup {Len(doc) + 1}
  BY <1>1, MarksOfOneMore
<1>4. Len(doc) + 1 \notin Marks(doc)
  BY <1>2
<1>5. Cardinality(Marks(more)) = Cardinality(Marks(doc)) + 1
  BY <1>3, <1>4, MarksAreFinite, FS_AddElement
<1>6. UpTo(more, Len(doc) + 1) = Marks(more)
  BY <1>2, <1>3 DEF UpTo
<1>7. Start(more, Cardinality(Marks(more))) = Len(doc) + 1
  <2>1. Len(doc) + 1 \in Marks(more)
    BY <1>3
  <2>2. Start(more, Cardinality(UpTo(more, Len(doc) + 1))) = Len(doc) + 1
    BY <2>1, StartIs
  <2> QED
    BY <1>6, <2>2
<1> QED
  BY <1>1, <1>5, <1>7

\* So every marker is numbered.
LEMMA NumbersOfOneMore ==
    ASSUME NEW B, NEW doc \in Seq(B), NEW b \in B, Numbered(doc)
    PROVE  /\ Numbered(Append(doc, b))
           /\ \A n \in 1..Cardinality(Marks(doc)) : Start(Append(doc, b), n) = Start(doc, n)
<1>1. PICK more \in Seq(B) : more = Append(doc, b)
  BY AppendIs
<1>2. Cardinality(Marks(doc)) \in Nat
  BY MarksAreFinite
<1>3. ASSUME NEW n \in 1..Cardinality(Marks(doc))
      PROVE  /\ Start(more, n) = Start(doc, n) /\ Start(more, n) \in Marks(more)
             /\ Cardinality(UpTo(more, Start(more, n))) = n
  <2>1. PICK i \in Marks(doc) : i = Start(doc, n) /\ Cardinality(UpTo(doc, i)) = n
    BY DEF Numbered
  <2>2. i \in Marks(more) /\ Cardinality(UpTo(more, i)) = n
    BY <1>1, <2>1, NumbersLast
  <2>3. Start(more, n) = i
    BY <2>2, StartIs
  <2> QED
    BY <2>1, <2>2, <2>3
<1>4. CASE b.kind = "lesson"
  <2>1. /\ Cardinality(Marks(more)) = Cardinality(Marks(doc)) + 1
        /\ Start(more, Cardinality(Marks(doc)) + 1) = Len(doc) + 1
        /\ Marks(more) = Marks(doc) \cup {Len(doc) + 1}
        /\ Marks(doc) \in SUBSET (1..Len(doc)) /\ Len(doc) \in Nat
    BY <1>1, <1>4, NumberOfOneMore, MarksOfOneMore
  <2>2. UpTo(more, Len(doc) + 1) = Marks(more)
    BY <2>1 DEF UpTo
  <2>3. ASSUME NEW n \in 1..Cardinality(Marks(more))
        PROVE  Start(more, n) \in Marks(more) /\ Cardinality(UpTo(more, Start(more, n))) = n
    <3>1. n \in 1..Cardinality(Marks(doc)) \/ n = Cardinality(Marks(doc)) + 1
      BY <1>2, <2>1
    <3> QED
      BY <1>3, <2>1, <2>2, <3>1
  <2> QED
    BY <1>1, <1>3, <2>3 DEF Numbered
<1>5. CASE b.kind # "lesson"
  <2>1. Marks(more) = Marks(doc)
    BY <1>1, <1>5, MarksOfOneMore
  <2> QED
    BY <1>1, <1>3, <2>1 DEF Numbered
<1> QED
  BY <1>4, <1>5

-----------------------------------------------------------------------------
(* The sections of a document, as it grows by a block.                     *)

\* A part of a sequence that ends before the new element is the same part.
LEMMA PartOfOneMore ==
    ASSUME NEW B, NEW s \in Seq(B), NEW b \in B, NEW m \in 1..Len(s) + 1
    PROVE  /\ \A n \in 0..Len(s) : SubSeq(Append(s, b), m, n) = SubSeq(s, m, n)
           /\ SubSeq(Append(s, b), m, Len(s) + 1) = Append(SubSeq(s, m, Len(s)), b)
           /\ \A n \in 0..Len(s) : SubSeq(s, m, n) \in Seq(B)
<1>0. PICK more : more = Append(s, b)
  OBVIOUS
<1>1. /\ more = Append(s, b) /\ Len(s) \in Nat /\ Len(more) = Len(s) + 1 /\ more[Len(s) + 1] = b
      /\ more \in Seq(B) /\ \A i \in 1..Len(s) : more[i] = s[i]
  BY <1>0, AppendIs
<1>2. /\ \A i \in 1..Len(s) : s[i] \in B
      /\ \A i \in 1..Len(s) + 1 : more[i] \in B
  BY <1>1, ElementOfSeq
<1>3. ASSUME NEW n \in 0..Len(s)
      PROVE  /\ SubSeq(s, m, n) \in Seq(B)
             /\ Len(SubSeq(s, m, n)) = IF m =< n THEN n - m + 1 ELSE 0
             /\ \A i \in 1..n - m + 1 : SubSeq(s, m, n)[i] = s[m + i - 1]
  <2>1. \A i \in m..n : s[i] \in B
    BY <1>1, <1>2
  <2>2. m \in Int /\ n \in Int
    BY <1>1
  <2> QED
    BY <2>1, <2>2, SubSeqProperties
<1>4. ASSUME NEW n \in 0..Len(s) + 1
      PROVE  /\ SubSeq(more, m, n) \in Seq(B)
             /\ Len(SubSeq(more, m, n)) = IF m =< n THEN n - m + 1 ELSE 0
             /\ \A i \in 1..n - m + 1 : SubSeq(more, m, n)[i] = more[m + i - 1]
  <2>1. \A i \in m..n : more[i] \in B
    BY <1>1, <1>2
  <2>2. m \in Int /\ n \in Int
    BY <1>1
  <2> QED
    BY <2>1, <2>2, SubSeqProperties
<1>5. ASSUME NEW n \in 0..Len(s) PROVE SubSeq(more, m, n) = SubSeq(s, m, n)
  <2>1. n \in 0..Len(s) + 1 /\ n \in Int /\ m \in Int
    BY <1>1
  <2>2. Len(SubSeq(more, m, n)) = Len(SubSeq(s, m, n))
    BY <1>3, <1>4, <2>1
  <2>3. ASSUME NEW i \in 1..Len(SubSeq(more, m, n))
        PROVE  SubSeq(more, m, n)[i] = SubSeq(s, m, n)[i]
    <3>1. i \in 1..n - m + 1 /\ m + i - 1 \in 1..Len(s)
      BY <1>1, <1>4, <2>1
    <3> QED
      BY <1>1, <1>3, <1>4, <2>1, <3>1
  <2> QED
    BY <1>3, <1>4, <2>1, <2>2, <2>3, SeqEqual
<1>6. SubSeq(more, m, Len(s) + 1) = Append(SubSeq(s, m, Len(s)), b)
  <2>1. m \in 1..Len(more) /\ Len(more) \in m..Len(more)
    BY <1>1
  <2>2. SubSeq(more, m, Len(more)) = SubSeq(more, m, Len(more) - 1) \o <<more[Len(more)]>>
    BY <2>1, SubSeqRecursiveSecond
  <2>3. Len(more) - 1 = Len(s) /\ Len(s) \in 0..Len(s)
    BY <1>1
  <2>4. SubSeq(more, m, Len(s) + 1) = SubSeq(s, m, Len(s)) \o <<b>>
    BY <1>1, <1>5, <2>2, <2>3
  <2>5. SubSeq(s, m, Len(s)) \in Seq(B)
    BY <1>3, <2>3
  <2>6. \A q \in Seq(B) : q \o <<b>> = Append(q, b)
    OBVIOUS
  <2> QED
    BY <2>4, <2>5, <2>6
<1> QED
  BY <1>1, <1>3, <1>5, <1>6

\* No marker stands behind the last lesson's.
LEMMA LastIsLast ==
    ASSUME NEW B, NEW doc \in Seq(B), Numbered(doc), NEW n \in 1..Cardinality(Marks(doc))
    PROVE  {i \in Marks(doc) : i > Start(doc, n)} = {} <=> n = Cardinality(Marks(doc))
<1> DEFINE last == Cardinality(Marks(doc))
<1>1. last \in Nat /\ Marks(doc) \in SUBSET Int
  <2>1. \A i \in 1..Len(doc) : i \in Int
    OBVIOUS
  <2> QED
    BY <2>1, MarksAreFinite DEF Marks
<1>2. Start(doc, n) \in Marks(doc) /\ Cardinality(UpTo(doc, Start(doc, n))) = n
  BY DEF Numbered
<1>3. ASSUME NEW i \in Marks(doc), i > Start(doc, n) PROVE n # last
  <2>1. n < Cardinality(UpTo(doc, i))
    BY <1>1, <1>2, <1>3, LaterHasMore
  <2>2. Cardinality(UpTo(doc, i)) =< last /\ Cardinality(UpTo(doc, i)) \in Nat
    BY MarksAreFinite
  <2> QED
    BY <1>1, <2>1, <2>2
<1>4. ASSUME n # last PROVE \E i \in Marks(doc) : i > Start(doc, n)
  <2>1. n + 1 \in 1..last
    BY <1>1, <1>4
  <2>2. Start(doc, n + 1) \in Marks(doc) /\ Cardinality(UpTo(doc, Start(doc, n + 1))) = n + 1
    BY <2>1 DEF Numbered
  <2>3. Start(doc, n + 1) # Start(doc, n) /\ ~(Start(doc, n + 1) < Start(doc, n))
    <3>1. ASSUME Start(doc, n + 1) < Start(doc, n) PROVE FALSE
      <4>1. n + 1 < n
        BY <1>2, <2>2, <3>1, LaterHasMore
      <4> QED
        BY <4>1
    <3>2. n + 1 # n
      OBVIOUS
    <3> QED
      BY <1>2, <2>2, <3>1, <3>2
  <2> QED
    BY <1>1, <1>2, <2>2, <2>3
<1> QED
  BY <1>3, <1>4


\* A new lesson starts a section of its own and leaves the others as they are.
LEMMA SectionsOfNewLesson ==
    ASSUME NEW B, NEW doc \in Seq(B), NEW b \in B, Numbered(doc), b.kind = "lesson"
    PROVE  /\ \A n \in 1..Cardinality(Marks(doc)) : Section(Append(doc, b), n) = Section(doc, n)
           /\ Section(Append(doc, b), Cardinality(Marks(doc)) + 1) = <<b>>
<1>1. PICK more \in Seq(B) :
         /\ more = Append(doc, b) /\ Len(doc) \in Nat /\ Len(more) = Len(doc) + 1
         /\ more[Len(doc) + 1] = b
  BY AppendIs
<1>2. Marks(more) = Marks(doc) \cup {Len(doc) + 1} /\ Marks(doc) \in SUBSET (1..Len(doc))
  BY <1>1, MarksOfOneMore
<1>3. ASSUME NEW n \in 1..Cardinality(Marks(doc)) PROVE Section(more, n) = Section(doc, n)
  <2>1. Start(more, n) = Start(doc, n) /\ Start(doc, n) \in 1..Len(doc)
    BY <1>1, <1>2, NumbersOfOneMore DEF Numbered
  <2> DEFINE later == {i \in Marks(doc) : i > Start(doc, n)}
  <2>2. {i \in Marks(more) : i > Start(more, n)} = later \cup {Len(doc) + 1}
    BY <1>1, <1>2, <2>1
  <2>3. later \in SUBSET (1..Len(doc))
    BY <1>2
  <2>4. Section(doc, n) = SubSeq(doc, Start(doc, n), IF later = {} THEN Len(doc) ELSE Min(later) - 1)
    BY DEF Section
  <2>5. Section(more, n) = SubSeq(more, Start(doc, n), Min(later \cup {Len(doc) + 1}) - 1)
    <3>1. later \cup {Len(doc) + 1} # {}
      OBVIOUS
    <3> QED
      BY <2>1, <2>2, <3>1 DEF Section
  <2> HIDE DEF later
  <2>6. CASE later = {}
    <3>1. Min(later \cup {Len(doc) + 1}) = Len(doc) + 1
      BY <1>1, <2>3, <2>6, OneMore
    <3>2. (Len(doc) + 1) - 1 = Len(doc) /\ Len(doc) \in 0..Len(doc) /\ Start(doc, n) \in 1..Len(doc) + 1
      BY <1>1, <2>1
    <3>3. SubSeq(more, Start(doc, n), Len(doc)) = SubSeq(doc, Start(doc, n), Len(doc))
      BY <1>1, <3>2, PartOfOneMore
    <3> QED
      BY <2>4, <2>5, <2>6, <3>1, <3>2, <3>3
  <2>7. CASE later # {}
    <3>1. Min(later \cup {Len(doc) + 1}) = Min(later) /\ Min(later) \in 1..Len(doc)
      BY <1>1, <2>3, <2>7, OneMore, MinAndMax
    <3>2. Min(later) - 1 \in 0..Len(doc) /\ Start(doc, n) \in 1..Len(doc) + 1
      BY <1>1, <2>1, <3>1
    <3>3. SubSeq(more, Start(doc, n), Min(later) - 1) = SubSeq(doc, Start(doc, n), Min(later) - 1)
      BY <1>1, <3>2, PartOfOneMore
    <3> QED
      BY <2>4, <2>5, <2>7, <3>1, <3>3
  <2> QED
    BY <2>6, <2>7
<1>4. Section(more, Cardinality(Marks(doc)) + 1) = <<b>>
  <2>1. Start(more, Cardinality(Marks(doc)) + 1) = Len(doc) + 1
    BY <1>1, NumberOfOneMore
  <2>2. {i \in Marks(more) : i > Start(more, Cardinality(Marks(doc)) + 1)} = {}
    BY <1>1, <1>2, <2>1
  <2>3. Section(more, Cardinality(Marks(doc)) + 1) = SubSeq(more, Len(doc) + 1, Len(more))
    BY <2>1, <2>2 DEF Section
  <2>4. SubSeq(more, Len(doc) + 1, Len(doc) + 1) = Append(SubSeq(doc, Len(doc) + 1, Len(doc)), b)
    <3>1. Len(doc) + 1 \in 1..Len(doc) + 1
      BY <1>1
    <3> QED
      BY <1>1, <3>1, PartOfOneMore
  <2>5. SubSeq(doc, Len(doc) + 1, Len(doc)) = <<>>
    <3>1. Len(doc) + 1 \in Int /\ Len(doc) \in Int /\ Len(doc) < Len(doc) + 1
      BY <1>1
    <3> QED
      BY <3>1, SubSeqEmpty
  <2>6. Append(<<>>, b) = <<b>>
    OBVIOUS
  <2> QED
    BY <1>1, <2>3, <2>4, <2>5, <2>6
<1> QED
  BY <1>1, <1>3, <1>4

\* The number of the last section: without a marker the document is one.
LastNumber(doc) == IF Marks(doc) = {} THEN 1 ELSE Cardinality(Marks(doc))

\* Any other block is added to the last section.
LEMMA SectionsOfOtherBlock ==
    ASSUME NEW B, NEW doc \in Seq(B), NEW b \in B, Numbered(doc), b.kind # "lesson"
    PROVE  /\ \A n \in 1..LastNumber(doc) :
                 Section(Append(doc, b), n) = IF n = LastNumber(doc) THEN Append(Section(doc, n), b)
                                              ELSE Section(doc, n)
           /\ \A n \in 1..LastNumber(doc) : Section(doc, n) \in Seq(B)
<1>1. PICK more \in Seq(B) :
         /\ more = Append(doc, b) /\ Len(doc) \in Nat /\ Len(more) = Len(doc) + 1
         /\ more[Len(doc) + 1] = b
  BY AppendIs
<1>2. Marks(more) = Marks(doc) /\ Marks(doc) \in SUBSET (1..Len(doc))
  BY <1>1, MarksOfOneMore
<1>3. ASSUME NEW n \in 1..LastNumber(doc)
      PROVE  /\ Section(more, n) = IF n = LastNumber(doc) THEN Append(Section(doc, n), b)
                                   ELSE Section(doc, n)
             /\ Section(doc, n) \in Seq(B)
  <2> DEFINE later == {i \in Marks(doc) : i > Start(doc, n)}
  <2>1. Start(more, n) = Start(doc, n) /\ Start(doc, n) \in 1..Len(doc) + 1
    <3>1. CASE Marks(doc) = {}
      BY <1>1, <1>2, <3>1 DEF Start
    <3>2. CASE Marks(doc) # {}
      BY <1>1, <1>2, <3>2, NumbersOfOneMore DEF Numbered, LastNumber
    <3> QED
      BY <3>1, <3>2
  <2>2. later = {} <=> n = LastNumber(doc)
    <3>1. CASE Marks(doc) = {}
      BY <3>1 DEF LastNumber
    <3>2. CASE Marks(doc) # {}
      BY <3>2, LastIsLast DEF LastNumber
    <3> QED
      BY <3>1, <3>2
  <2>3. later \in SUBSET (1..Len(doc))
    BY <1>2
  <2>4. /\ Section(doc, n) = SubSeq(doc, Start(doc, n), IF later = {} THEN Len(doc) ELSE Min(later) - 1)
        /\ Section(more, n)
           = SubSeq(more, Start(doc, n), IF later = {} THEN Len(doc) + 1 ELSE Min(later) - 1)
    BY <1>1, <1>2, <2>1 DEF Section
  <2> HIDE DEF later
  <2>5. CASE later = {}
    <3>1. Len(doc) \in 0..Len(doc)
      BY <1>1
    <3>2. /\ SubSeq(more, Start(doc, n), Len(doc) + 1)
             = Append(SubSeq(doc, Start(doc, n), Len(doc)), b)
          /\ SubSeq(doc, Start(doc, n), Len(doc)) \in Seq(B)
      BY <1>1, <2>1, <3>1, PartOfOneMore
    <3> QED
      BY <2>2, <2>4, <2>5, <3>2
  <2>6. CASE later # {}
    <3>1. Min(later) \in 1..Len(doc)
      BY <1>1, <2>3, <2>6, MinAndMax
    <3>2. Min(later) - 1 \in 0..Len(doc)
      BY <1>1, <3>1
    <3>3. /\ SubSeq(more, Start(doc, n), Min(later) - 1)
             = SubSeq(doc, Start(doc, n), Min(later) - 1)
          /\ SubSeq(doc, Start(doc, n), Min(later) - 1) \in Seq(B)
      BY <1>1, <2>1, <3>2, PartOfOneMore
    <3> QED
      BY <2>2, <2>4, <2>6, <3>3
  <2> QED
    BY <2>5, <2>6
<1> QED
  BY <1>1, <1>3

-----------------------------------------------------------------------------
(* What a block makes of the lessons read so far.                          *)

\* What is measured in a section.
Taken(sec) == FlattenSeq([i \in 1..Len(sec) |-> BlockMetrics(sec[i])])

\* A block measures a sequence of metrics, whatever its kind.
LEMMA BlockMetricsIsSequence ==
    ASSUME NEW b, IsBlock(b)
    PROVE  IsSequence(BlockMetrics(b))
<1>1. CASE b.kind = "table"
  BY <1>1, TableMetricsIsSequence DEF BlockMetrics, IsBlock
<1>2. CASE b.kind = "metric"
  BY <1>2, MetricLineIsSequence DEF BlockMetrics
<1>3. CASE b.kind \notin {"table", "metric"}
  <2>1. BlockMetrics(b) = <<>>
    BY <1>3 DEF BlockMetrics
  <2> QED
    BY <2>1, EmptyIsSequence
<1> QED
  BY <1>1, <1>2, <1>3

\* One more block adds its measurements.
LEMMA TakenOfOneMore ==
    ASSUME NEW B, NEW sec \in Seq(B), NEW b \in B, IsBlock(b)
    PROVE  Taken(Append(sec, b)) = Taken(sec) \o BlockMetrics(b)
<1>0. PICK more : more = Append(sec, b)
  OBVIOUS
<1>1. /\ Len(sec) \in Nat /\ Len(more) = Len(sec) + 1 /\ more[Len(sec) + 1] = b
      /\ \A i \in 1..Len(sec) : more[i] = sec[i]
  BY <1>0, AppendIs
<1> DEFINE ss == [i \in 1..Len(sec) |-> BlockMetrics(sec[i])]
           tt == [i \in 1..Len(more) |-> BlockMetrics(more[i])]
<1>2. Len(ss) = Len(sec) /\ Len(tt) = Len(more)
  BY <1>1
<1>3. tt[Len(ss) + 1] = BlockMetrics(b) /\ \A i \in 1..Len(ss) : tt[i] = ss[i]
  BY <1>1, <1>2
<1>4. Len(ss) = 0 => ss = <<>>
  BY <1>2
<1>5. BlockMetrics(b) \in Seq(ToSet(BlockMetrics(b)))
  BY BlockMetricsIsSequence DEF IsSequence
<1>6. FlattenSeq(tt) = FlattenSeq(ss) \o BlockMetrics(b)
  <2> HIDE DEF ss, tt
  <2>1. PICK m \in Seq(ToSet(BlockMetrics(b))) : m = BlockMetrics(b)
    BY <1>5
  <2>2. Len(ss) \in Nat /\ Len(tt) = Len(ss) + 1 /\ tt[Len(ss) + 1] = m
    BY <1>1, <1>2, <1>3, <2>1
  <2>3. FlattenSeq(tt) = FlattenSeq(ss) \o m
    BY <1>3, <1>4, <2>2, FlattenOneMore
  <2> QED
    BY <2>1, <2>3
<1> QED
  BY <1>0, <1>6 DEF Taken

\* A new section has the title of its block and no measurements.
LEMMA NewSection ==
    ASSUME NEW B, NEW b \in B, IsBlock(b), b.kind = "lesson"
    PROVE  /\ SectionTitle(<<b>>) = IF b.value = Blank THEN Default ELSE b.value
           /\ Taken(<<b>>) = <<>>
<1>1. <<>> \in Seq(B) /\ Append(<<>>, b) = <<b>> /\ Len(<<>>) = 0
  OBVIOUS
<1>2. SectionTitle(<<>>) = Default
  <2>1. Named(<<>>) = {}
    BY <1>1 DEF Named
  <2> QED
    BY <2>1 DEF SectionTitle
<1>3. SectionTitle(Append(<<>>, b)) = IF b.value = Blank THEN Default ELSE b.value
  BY <1>1, <1>2, TitleOfOneMore
<1>4. Taken(<<>>) = <<>>
  <2>1. [i \in 1..0 |-> BlockMetrics(<<>>[i])] = <<>>
    OBVIOUS
  <2> QED
    BY <1>1, <2>1 DEF Taken, FlattenSeq
<1>5. BlockMetrics(b) = <<>>
  BY DEF BlockMetrics
<1>6. Taken(Append(<<>>, b)) = <<>> \o <<>>
  BY <1>1, <1>4, <1>5, TakenOfOneMore
<1>7. <<>> \o <<>> = <<>>
  OBVIOUS
<1> QED
  BY <1>1, <1>3, <1>6, <1>7

\* What a block that is no marker makes of the lesson it stands in.
Grown(new, old, b) ==
    /\ new.title = IF b.kind = "title" /\ b.value # Blank THEN b.value ELSE old.title
    /\ new.metrics = old.metrics \o BlockMetrics(b)

\* Amending replaces the last lesson, or the preamble.
LEMMA AmendIs ==
    ASSUME NEW st, ReadSoFar(st), NEW l
    PROVE  /\ st.lessons = <<>> => Amend(st, l) = [lessons |-> <<>>, preamble |-> l]
           /\ st.lessons # <<>> =>
                 /\ Len(Amend(st, l).lessons) = Len(st.lessons)
                 /\ \A i \in 1..Len(st.lessons) :
                       Amend(st, l).lessons[i] = IF i = Len(st.lessons) THEN l ELSE st.lessons[i]
<1>1. st = [lessons |-> st.lessons, preamble |-> st.preamble] /\ IsSequence(st.lessons)
  BY DEF ReadSoFar
<1>2. CASE st.lessons = <<>>
  BY <1>1, <1>2 DEF Amend
<1>3. CASE st.lessons # <<>>
  <2>1. PICK s : s = st.lessons
    OBVIOUS
  <2>2. DOMAIN s = 1..Len(s) /\ Len(s) \in Nat /\ s \in [1..Len(s) -> ToSet(s)]
    BY <1>1, <2>1 DEF IsSequence
  <2> DEFINE t == [s EXCEPT ![Len(s)] = l]
  <2>3. Amend(st, l).lessons = t
    BY <1>1, <1>3, <2>1 DEF Amend
  <2>4. DOMAIN t = 1..Len(s) /\ \A i \in 1..Len(s) : t[i] = IF i = Len(s) THEN l ELSE s[i]
    BY <2>2
  <2>5. Len(t) = Len(s)
    <3>1. t = [i \in DOMAIN t |-> t[i]]
      OBVIOUS
    <3> HIDE DEF t
    <3> QED
      BY <2>2, <2>4, <3>1, ListIsSequence
  <2> QED
    BY <1>3, <2>1, <2>3, <2>4, <2>5
<1> QED
  BY <1>2, <1>3

\* The lessons or the preamble after a block that is no marker.
LastGrown(new, st, b) ==
    /\ st.lessons = <<>> => new.lessons = <<>> /\ Grown(new.preamble, st.preamble, b)
    /\ st.lessons # <<>> =>
          /\ Len(new.lessons) = Len(st.lessons)
          /\ \A i \in 1..Len(st.lessons) :
                IF i = Len(st.lessons) THEN Grown(new.lessons[i], st.lessons[i], b)
                ELSE new.lessons[i] = st.lessons[i]

\* To amend the lesson a block stands in changes that lesson and no other.
LEMMA AmendGrows ==
    ASSUME NEW st, ReadSoFar(st), NEW b, NEW l, Grown(l, Current(st), b)
    PROVE  LastGrown(Amend(st, l), st, b)
<1>1. CASE st.lessons = <<>>
  <2>1. Amend(st, l).lessons = <<>> /\ Amend(st, l).preamble = l
    BY <1>1, AmendIs
  <2> QED
    BY <1>1, <2>1 DEF Current, LastGrown
<1>2. CASE st.lessons # <<>>
  <2>1. Current(st) = st.lessons[Len(st.lessons)]
    BY <1>2 DEF Current, Last
  <2> QED
    BY <1>2, <2>1, AmendIs DEF LastGrown
<1> QED
  BY <1>1, <1>2

\* Such a block renames the lesson it stands in, or adds what it measures to it.
LEMMA BlockGrows ==
    ASSUME NEW st, NEW b, NEW default, ReadSoFar(st), IsBlock(b), b.kind # "lesson"
    PROVE  LastGrown(ReadBlock(st, b, default), st, b)
<1>1. PICK now : now = Current(st)
  OBVIOUS
<1>2. Titled(now)
  BY <1>1, CurrentIsTitled
<1>3. ASSUME NEW l, IsSequence(l.metrics) PROVE l.metrics \o <<>> = l.metrics
  <2>1. PICK m : m = l.metrics
    OBVIOUS
  <2>2. m \in Seq(ToSet(m))
    BY <1>3, <2>1 DEF IsSequence
  <2> QED
    BY <2>1, <2>2, ConcatEmptySeq
<1>4. CASE b.kind = "empty"
  <2>1. BlockMetrics(b) = <<>> /\ ReadBlock(st, b, default) = st
    BY <1>4 DEF BlockMetrics, ReadBlock
  <2>2. \A l : Titled(l) => Grown(l, l, b)
    BY <1>3, <1>4, <2>1 DEF Grown, Titled
  <2>3. ASSUME NEW i \in 1..Len(st.lessons), st.lessons # <<>> PROVE Titled(st.lessons[i])
    BY <2>3 DEF ReadSoFar, IsSequence, ToSet
  <2>4. Titled(st.preamble)
    BY DEF ReadSoFar
  <2> QED
    BY <2>1, <2>2, <2>3, <2>4 DEF LastGrown
<1>5. CASE b.kind \in {"text", "topic", "phenomenon"}
  <2>1. PICK l : ReadBlock(st, b, default) = Amend(st, l) /\ l.title = now.title /\ l.metrics = now.metrics
    <3>1. CASE b.kind = "text"
      <4>1. ReadBlock(st, b, default) = Amend(st, [now EXCEPT !.content = @ + 1])
        BY <1>1, <3>1 DEF ReadBlock
      <4>2. /\ [now EXCEPT !.content = @ + 1].title = now.title
            /\ [now EXCEPT !.content = @ + 1].metrics = now.metrics
        BY <1>2 DEF Titled
      <4> QED
        BY <4>1, <4>2
    <3>2. CASE b.kind \in {"topic", "phenomenon"}
      <4>1. ReadBlock(st, b, default) = Amend(st, [now EXCEPT ![b.kind] = b.value])
        BY <1>1, <3>2 DEF ReadBlock
      <4>2. /\ [now EXCEPT ![b.kind] = b.value].title = now.title
            /\ [now EXCEPT ![b.kind] = b.value].metrics = now.metrics
        BY <1>2, <3>2 DEF Titled
      <4> QED
        BY <4>1, <4>2
    <3> QED
      BY <1>5, <3>1, <3>2
  <2>2. BlockMetrics(b) = <<>>
    BY <1>5 DEF BlockMetrics
  <2>3. Grown(l, now, b)
    BY <1>2, <1>3, <1>5, <2>1, <2>2 DEF Grown, Titled
  <2> QED
    BY <1>1, <2>1, <2>3, AmendGrows
<1>6. CASE b.kind = "title"
  <2>1. PICK t : t = IF b.value = Blank THEN now.title ELSE b.value
    OBVIOUS
  <2> DEFINE l == [now EXCEPT !.title = IF b.value = Blank THEN @ ELSE b.value]
  <2>2. l.title = t /\ l.metrics = now.metrics
    BY <1>2, <2>1 DEF Titled
  <2>3. ReadBlock(st, b, default) = Amend(st, l)
    BY <1>1, <1>6 DEF ReadBlock
  <2>4. BlockMetrics(b) = <<>>
    BY <1>6 DEF BlockMetrics
  <2> HIDE DEF l
  <2>5. Grown(l, now, b)
    BY <1>2, <1>3, <1>6, <2>1, <2>2, <2>4 DEF Grown, Titled
  <2> QED
    BY <1>1, <2>3, <2>5, AmendGrows
<1>7. CASE b.kind \in {"table", "metric"}
  <2> DEFINE l == [now EXCEPT !.metrics = @ \o BlockMetrics(b)]
  <2>1. ReadBlock(st, b, default) = Amend(st, l)
    BY <1>1, <1>7 DEF ReadBlock, AddTable, AddMetrics, BlockMetrics
  <2>2. l.title = now.title /\ l.metrics = now.metrics \o BlockMetrics(b)
    BY <1>2 DEF Titled
  <2> HIDE DEF l
  <2>3. Grown(l, now, b)
    BY <1>7, <2>2 DEF Grown
  <2> QED
    BY <1>1, <2>1, <2>3, AmendGrows
<1> QED
  BY <1>4, <1>5, <1>6, <1>7 DEF IsBlock

-----------------------------------------------------------------------------
(* The lessons of a document are its sections.                             *)

\* A lesson has the title and the measurements of a section.
MatchesSection(l, sec) == l.title = SectionTitle(sec) /\ l.metrics = Taken(sec)

\* What was read of a document are its sections.
Cut(doc, st) ==
    /\ Numbered(doc)
    /\ Len(st.lessons) = Cardinality(Marks(doc))
    /\ \A n \in 1..LastNumber(doc) :
          MatchesSection(IF st.lessons = <<>> THEN st.preamble ELSE st.lessons[n], Section(doc, n))

\* A lesson that matches its section still does after one more block of both.
LEMMA MatchesOneMore ==
    ASSUME NEW B, NEW sec \in Seq(B), NEW b \in B, IsBlock(b), b.kind # "lesson",
           NEW old, NEW new, MatchesSection(old, sec), Grown(new, old, b)
    PROVE  MatchesSection(new, Append(sec, b))
<1>1. Taken(Append(sec, b)) = Taken(sec) \o BlockMetrics(b)
  BY TakenOfOneMore
<1>2. SectionTitle(Append(sec, b)) =
          IF b.kind = "title" /\ b.value # Blank THEN b.value ELSE SectionTitle(sec)
  BY TitleOfOneMore
<1> QED
  BY <1>1, <1>2 DEF MatchesSection, Grown

\* No lesson without a marker.
LEMMA NoMarkNoLesson ==
    ASSUME NEW B, NEW doc \in Seq(B), NEW st, ReadSoFar(st), Cut(doc, st)
    PROVE  /\ st.lessons = <<>> <=> Marks(doc) = {}
           /\ Len(st.lessons) \in Nat
           /\ st.lessons # <<>> => LastNumber(doc) = Len(st.lessons)
           /\ LastNumber(doc) \in Nat \ {0}
<1>1. IsFiniteSet(Marks(doc)) /\ Cardinality(Marks(doc)) \in Nat
  BY MarksAreFinite
<1>2. Cardinality(Marks(doc)) = 0 <=> Marks(doc) = {}
  BY <1>1, FS_EmptySet
<1>3. Len(st.lessons) = Cardinality(Marks(doc))
  BY DEF Cut
<1>4. Len(st.lessons) = 0 <=> st.lessons = <<>>
  <2>1. PICK s : s = st.lessons
    OBVIOUS
  <2>2. s \in Seq(ToSet(s))
    BY <2>1 DEF ReadSoFar, IsSequence
  <2>3. Len(s) = 0 <=> s = <<>>
    BY <2>2
  <2> QED
    BY <2>1, <2>3
<1> QED
  BY <1>1, <1>2, <1>3, <1>4 DEF LastNumber

\* Every block goes where it stands.
LEMMA OtherBlockCuts ==
    ASSUME NEW doc \in Seq(Blocks), NEW b \in Blocks, NEW st, ReadSoFar(st), Cut(doc, st),
           b.kind # "lesson"
    PROVE  Cut(Append(doc, b), ReadBlock(st, b, Default))
<1>1. PICK new : new = ReadBlock(st, b, Default)
  OBVIOUS
<1>2. PICK more : more = Append(doc, b)
  OBVIOUS
<1>3. IsBlock(b) /\ LastGrown(new, st, b)
  BY <1>1, BlockGrows, InputsAssumption
<1>4. Numbered(more) /\ Marks(more) = Marks(doc) /\ LastNumber(more) = LastNumber(doc)
  BY <1>2, NumbersOfOneMore, MarksOfOneMore DEF Cut, LastNumber
<1>5. ASSUME NEW n \in 1..LastNumber(doc)
      PROVE  /\ Section(more, n) = IF n = LastNumber(doc) THEN Append(Section(doc, n), b)
                                   ELSE Section(doc, n)
             /\ Section(doc, n) \in Seq(Blocks)
             /\ MatchesSection(IF st.lessons = <<>> THEN st.preamble ELSE st.lessons[n], Section(doc, n))
  BY <1>2, SectionsOfOtherBlock DEF Cut
<1>6. CASE st.lessons = <<>>
  <2>1. new.lessons = <<>> /\ Grown(new.preamble, st.preamble, b)
    BY <1>3, <1>6 DEF LastGrown
  <2>2. LastNumber(doc) = 1 /\ 1 \in 1..1
    BY <1>6, NoMarkNoLesson DEF LastNumber
  <2>3. MatchesSection(new.preamble, Section(more, 1))
    BY <1>3, <1>5, <1>6, <2>1, <2>2, MatchesOneMore
  <2>4. Len(new.lessons) = Cardinality(Marks(more))
    BY <1>4, <1>6, <2>1 DEF Cut
  <2>5. ASSUME NEW n \in 1..LastNumber(more) PROVE n = 1
    BY <1>4, <2>2
  <2> QED
    BY <1>1, <1>2, <1>4, <2>1, <2>3, <2>4, <2>5 DEF Cut
<1>7. CASE st.lessons # <<>>
  <2>1. /\ Len(new.lessons) = Len(st.lessons)
        /\ \A i \in 1..Len(st.lessons) :
              IF i = Len(st.lessons) THEN Grown(new.lessons[i], st.lessons[i], b)
              ELSE new.lessons[i] = st.lessons[i]
    BY <1>3, <1>7 DEF LastGrown
  <2>2. LastNumber(doc) = Len(st.lessons) /\ LastNumber(doc) # 0
    BY <1>7, NoMarkNoLesson
  <2>3. new.lessons # <<>>
    <3>1. Len(<<>>) = 0
      OBVIOUS
    <3> QED
      BY <2>1, <2>2, <3>1
  <2>4. ASSUME NEW n \in 1..LastNumber(doc) PROVE MatchesSection(new.lessons[n], Section(more, n))
    <3>1. CASE n = LastNumber(doc)
      <4>1. Grown(new.lessons[n], st.lessons[n], b)
        BY <2>1, <2>2, <3>1
      <4>2. Section(more, n) = Append(Section(doc, n), b) /\ Section(doc, n) \in Seq(Blocks)
            /\ MatchesSection(st.lessons[n], Section(doc, n))
        BY <1>5, <1>7, <3>1
      <4> QED
        BY <1>3, <4>1, <4>2, MatchesOneMore
    <3>2. CASE n # LastNumber(doc)
      BY <1>5, <1>7, <2>1, <2>2, <3>2
    <3> QED
      BY <3>1, <3>2
  <2>5. Len(new.lessons) = Cardinality(Marks(more))
    BY <1>4, <2>1 DEF Cut
  <2> QED
    BY <1>1, <1>2, <1>4, <2>3, <2>4, <2>5 DEF Cut
<1> QED
  BY <1>6, <1>7

\* A marker opens the next lesson, which is the next section.
LEMMA LessonCuts ==
    ASSUME NEW doc \in Seq(Blocks), NEW b \in Blocks, NEW st, ReadSoFar(st), Cut(doc, st),
           b.kind = "lesson"
    PROVE  Cut(Append(doc, b), ReadBlock(st, b, Default))
<1>1. PICK l : l = LessonBuilder(IF b.value = Blank THEN Default ELSE b.value)
  OBVIOUS
<1>2. PICK more \in Seq(Blocks) : more = Append(doc, b)
  BY AppendIs
<1>3. PICK new : new = ReadBlock(st, b, Default)
  OBVIOUS
<1>4. new.lessons = Append(st.lessons, l)
  BY <1>1, <1>3 DEF ReadBlock, ReadSoFar
<1>5. /\ Len(new.lessons) = Len(st.lessons) + 1 /\ new.lessons[Len(st.lessons) + 1] = l
      /\ \A i \in 1..Len(st.lessons) : new.lessons[i] = st.lessons[i]
  <2>1. PICK s : s = st.lessons
    OBVIOUS
  <2>2. s \in Seq(ToSet(s) \cup {l})
    BY <2>1 DEF ReadSoFar, IsSequence
  <2>3. l \in ToSet(s) \cup {l}
    OBVIOUS
  <2> QED
    BY <1>4, <2>1, <2>2, <2>3, AppendIs
<1>6. IsBlock(b)
  BY InputsAssumption
<1>7. /\ Numbered(more) /\ Cardinality(Marks(more)) = Cardinality(Marks(doc)) + 1
      /\ Marks(more) # {}
  BY <1>2, NumbersOfOneMore, NumberOfOneMore, MarksOfOneMore DEF Cut
<1>8. Len(st.lessons) = Cardinality(Marks(doc)) /\ Len(st.lessons) \in Nat
  BY NoMarkNoLesson DEF Cut
<1>9. /\ \A n \in 1..Len(st.lessons) : Section(more, n) = Section(doc, n)
      /\ Section(more, Len(st.lessons) + 1) = <<b>>
  BY <1>2, <1>8, SectionsOfNewLesson DEF Cut
<1>10. MatchesSection(l, <<b>>)
  BY <1>1, <1>6, NewSection DEF MatchesSection, LessonBuilder
<1>11. ASSUME NEW n \in 1..Len(st.lessons) + 1 PROVE MatchesSection(new.lessons[n], Section(more, n))
  <2>1. CASE n = Len(st.lessons) + 1
    BY <1>5, <1>9, <1>10, <2>1
  <2>2. CASE n # Len(st.lessons) + 1
    <3>1. n \in 1..Len(st.lessons) /\ st.lessons # <<>>
      <4>1. n \in 1..Len(st.lessons)
        BY <1>8, <2>2
      <4>2. Len(<<>>) = 0
        OBVIOUS
      <4> QED
        BY <4>1, <4>2
    <3>2. n \in 1..LastNumber(doc)
      BY <3>1, NoMarkNoLesson
    <3>3. MatchesSection(st.lessons[n], Section(doc, n))
      BY <3>1, <3>2 DEF Cut
    <3> QED
      BY <1>5, <1>9, <3>1, <3>3
  <2> QED
    BY <2>1, <2>2
<1>12. new.lessons # <<>>
  <2>1. Len(<<>>) = 0
    OBVIOUS
  <2> QED
    BY <1>5, <1>8, <2>1
<1>13. LastNumber(more) = Len(st.lessons) + 1
  BY <1>7, <1>8 DEF LastNumber
<1> QED
  BY <1>2, <1>3, <1>5, <1>7, <1>8, <1>11, <1>12, <1>13 DEF Cut

\* The lessons of a document are its sections, one after the other.
LEMMA LessonsAreSections ==
    ASSUME NEW doc \in Seq(Blocks)
    PROVE  LET lessons == ParseLessonDocument(doc, Default)
           IN  /\ Len(lessons) = LastNumber(doc) /\ LastNumber(doc) \in Nat \ {0}
               /\ \A n \in 1..LastNumber(doc) : /\ MatchesSection(lessons[n], Section(doc, n))
                                                /\ IsSequence(lessons[n].metrics)
<1>1. IsSequence(doc) /\ Len(doc) \in Nat /\ \A i \in 1..Len(doc) : doc[i] \in Blocks
  BY SequenceOf
<1>2. PICK read :
         /\ Reads(read, doc, Default)
         /\ ParseLessonDocument(doc, Default)
            = IF read[Len(doc)].lessons = <<>> THEN <<read[Len(doc)].preamble>>
              ELSE read[Len(doc)].lessons
  BY <1>1, DocumentReads
<1>3. ASSUME NEW n \in 0..Len(doc)
      PROVE  read[n] = IF n = 0 THEN [lessons |-> <<>>, preamble |-> LessonBuilder(Default)]
                       ELSE ReadBlock(read[n - 1], doc[n], Default)
  BY <1>2, Zenon DEF Reads
<1>4. Default # Blank
  BY DEF Default, Blank
<1> DEFINE T == {n \in Nat : n =< Len(doc) => ReadSoFar(read[n]) /\ Cut(SubSeq(doc, 1, n), read[n])}
<1>5. 0 \in T
  <2>1. PICK st : st = [lessons |-> <<>>, preamble |-> LessonBuilder(Default)]
    OBVIOUS
  <2>2. read[0] = st
    BY <1>1, <1>3, <2>1
  <2>3. ReadSoFar(st)
    <3>1. IsSequence(<<>>) /\ ToSet(<<>>) = {}
      BY EmptyIsSequence DEF ToSet
    <3> QED
      BY <1>4, <2>1, <3>1, BuilderIsTitled DEF ReadSoFar
  <2>4. SubSeq(doc, 1, 0) = <<>>
    BY SubSeqEmpty
  <2>5. Marks(<<>>) = {} /\ Cardinality(Marks(<<>>)) = 0 /\ Len(<<>>) = 0
    BY FS_EmptySet DEF Marks
  <2>6. Section(<<>>, 1) = <<>>
    <3>1. SubSeq(<<>>, 1, 0) = <<>>
      BY SubSeqEmpty
    <3> QED
      BY <2>5, <3>1 DEF Section, Start
  <2>7. MatchesSection(st.preamble, <<>>)
    <3>1. Named(<<>>) = {}
      BY <2>5 DEF Named
    <3>2. [i \in 1..0 |-> BlockMetrics(<<>>[i])] = <<>>
      OBVIOUS
    <3> QED
      BY <2>1, <2>5, <3>1, <3>2 DEF MatchesSection, SectionTitle, Taken, FlattenSeq, LessonBuilder
  <2>8. Cut(<<>>, st)
    <3>1. st.lessons = <<>>
      BY <2>1
    <3>2. LastNumber(<<>>) = 1 /\ \A n \in 1..1 : n = 1
      BY <2>5 DEF LastNumber
    <3>3. Numbered(<<>>)
      BY <2>5 DEF Numbered
    <3> QED
      BY <2>5, <2>6, <2>7, <3>1, <3>2, <3>3 DEF Cut
  <2> QED
    BY <2>2, <2>3, <2>4, <2>8
<1>6. ASSUME NEW n \in Nat, n \in T PROVE n + 1 \in T
  <2> SUFFICES ASSUME n + 1 =< Len(doc)
               PROVE  ReadSoFar(read[n + 1]) /\ Cut(SubSeq(doc, 1, n + 1), read[n + 1])
    OBVIOUS
  <2>1. ReadSoFar(read[n]) /\ Cut(SubSeq(doc, 1, n), read[n])
    BY <1>1, <1>6
  <2>2. n + 1 \in 0..Len(doc) /\ n + 1 # 0 /\ (n + 1) - 1 = n /\ n + 1 \in 1..Len(doc)
    BY <1>1
  <2>3. read[n + 1] = ReadBlock(read[n], doc[n + 1], Default)
    BY <1>3, <2>2
  <2>4. doc[n + 1] \in Blocks /\ IsBlock(doc[n + 1])
    BY <1>1, <2>2, InputsAssumption
  <2>5. ReadSoFar(read[n + 1])
    BY <1>4, <2>1, <2>3, <2>4, ReadBlockKeeps
  <2>6. SubSeq(doc, 1, n) \in Seq(Blocks)
    <3>1. \A i \in 1..n : doc[i] \in Blocks
      BY <1>1, <2>2
    <3>2. 1 \in Int /\ n \in Int
      OBVIOUS
    <3> QED
      BY <3>1, <3>2, SubSeqProperties
  <2>7. SubSeq(doc, 1, n + 1) = Append(SubSeq(doc, 1, n), doc[n + 1])
    <3>1. 1 \in 1..Len(doc) /\ n + 1 \in 1..Len(doc)
      BY <1>1, <2>2
    <3>2. SubSeq(doc, 1, n + 1) = SubSeq(doc, 1, (n + 1) - 1) \o <<doc[n + 1]>>
      BY <3>1, SubSeqRecursiveSecond
    <3>3. \A q \in Seq(Blocks), x \in Blocks : q \o <<x>> = Append(q, x)
      OBVIOUS
    <3> QED
      BY <2>2, <2>4, <2>6, <3>2, <3>3
  <2>8. PICK q \in Seq(Blocks), b \in Blocks :
           q = SubSeq(doc, 1, n) /\ b = doc[n + 1]
    BY <2>4, <2>6
  <2>9. Cut(Append(q, b), ReadBlock(read[n], b, Default))
    BY <2>1, <2>8, LessonCuts, OtherBlockCuts
  <2> QED
    BY <2>3, <2>5, <2>7, <2>8, <2>9
<1>7. Len(doc) \in T
  <2>1. \A n \in Nat : n \in T => n + 1 \in T
    BY <1>6
  <2> HIDE DEF T
  <2> QED
    BY <1>1, <1>5, <2>1, EveryNatural
<1>8. PICK end : end = read[Len(doc)]
  OBVIOUS
<1>9. ReadSoFar(end) /\ Cut(doc, end)
  <2>1. SubSeq(doc, 1, Len(doc)) = doc
    BY SubSeqFull
  <2>2. ReadSoFar(read[Len(doc)]) /\ Cut(SubSeq(doc, 1, Len(doc)), read[Len(doc)])
    BY <1>1, <1>7
  <2> QED
    BY <1>8, <2>1, <2>2
<1>10. CASE end.lessons = <<>>
  <2>1. ParseLessonDocument(doc, Default) = <<end.preamble>>
    BY <1>2, <1>8, <1>10
  <2>2. LastNumber(doc) = 1
    BY <1>9, <1>10, NoMarkNoLesson DEF LastNumber
  <2>3. MatchesSection(end.preamble, Section(doc, 1)) /\ IsSequence(end.preamble.metrics)
    BY <1>9, <1>10, <2>2 DEF Cut, ReadSoFar, Titled
  <2>4. Len(<<end.preamble>>) = 1 /\ <<end.preamble>>[1] = end.preamble /\ \A n \in 1..1 : n = 1
    OBVIOUS
  <2> QED
    BY <2>1, <2>2, <2>3, <2>4
<1>11. CASE end.lessons # <<>>
  <2>1. ParseLessonDocument(doc, Default) = end.lessons
    BY <1>2, <1>8, <1>11
  <2>2. LastNumber(doc) = Len(end.lessons) /\ LastNumber(doc) \in Nat \ {0}
    BY <1>9, <1>11, NoMarkNoLesson
  <2>3. ASSUME NEW n \in 1..LastNumber(doc)
        PROVE  MatchesSection(end.lessons[n], Section(doc, n)) /\ IsSequence(end.lessons[n].metrics)
    <3>1. Titled(end.lessons[n])
      BY <1>9, <2>2 DEF ReadSoFar, IsSequence, ToSet
    <3> QED
      BY <1>9, <1>11, <3>1 DEF Cut, Titled
  <2> QED
    BY <2>1, <2>2, <2>3
<1> QED
  BY <1>10, <1>11

-----------------------------------------------------------------------------
(* The records of the lessons.                                             *)

\* What MetricsStayInTheirLesson compares of a record, and of a list of records.
Shown(r) ==
    IF r.table = "lessons" THEN <<"lessons", r.what>> ELSE <<r.name, r.what[1], r.lesson>>

ShownAll(u) == [i \in 1..Len(u) |-> Shown(u[i])]

\* A list of records shows as many.
LEMMA ShownIsSequence ==
    ASSUME NEW u, IsSequence(u)
    PROVE  IsSequence(ShownAll(u)) /\ Len(ShownAll(u)) = Len(u) /\ Len(u) \in Nat
<1>1. Len(u) \in Nat
  BY DEF IsSequence
<1>2. PICK v : v = ShownAll(u)
  OBVIOUS
<1>3. DOMAIN v = 1..Len(u) /\ v = [i \in DOMAIN v |-> v[i]]
  BY <1>2 DEF ShownAll
<1> QED
  BY <1>1, <1>2, <1>3, ListIsSequence

\* What two lists strung together show is what each shows.
LEMMA ShownConcat ==
    ASSUME NEW s, NEW t, IsSequence(s), IsSequence(t)
    PROVE  ShownAll(s \o t) = ShownAll(s) \o ShownAll(t)
<1> DEFINE A == ToSet(s) \cup ToSet(t)
           V == ToSet(ShownAll(s)) \cup ToSet(ShownAll(t))
<1>1. s \in Seq(A) /\ t \in Seq(A)
  BY DEF IsSequence
<1>2. PICK u : u = s \o t
  OBVIOUS
<1>3. /\ Len(u) = Len(s) + Len(t) /\ Len(s) \in Nat /\ Len(t) \in Nat
      /\ \A i \in 1..Len(s) + Len(t) : u[i] = IF i =< Len(s) THEN s[i] ELSE t[i - Len(s)]
  <2> HIDE DEF A
  <2> QED
    BY <1>1, <1>2, ConcatProperties, LenProperties
<1>4. PICK p, q : p = ShownAll(s) /\ q = ShownAll(t)
  OBVIOUS
<1>5. p \in Seq(V) /\ q \in Seq(V) /\ Len(p) = Len(s) /\ Len(q) = Len(t)
  <2>1. IsSequence(p) /\ IsSequence(q) /\ Len(p) = Len(s) /\ Len(q) = Len(t)
    BY <1>4, ShownIsSequence
  <2> QED
    BY <1>4, <2>1 DEF IsSequence
<1> HIDE DEF A, V
<1>6. /\ p \o q \in Seq(V) /\ Len(p \o q) = Len(s) + Len(t)
      /\ \A i \in 1..Len(s) + Len(t) : (p \o q)[i] = IF i =< Len(s) THEN p[i] ELSE q[i - Len(s)]
  <2>1. PICK a \in Seq(V), b \in Seq(V) : a = p /\ b = q
    BY <1>5
  <2>2. /\ a \o b \in Seq(V) /\ Len(a \o b) = Len(a) + Len(b)
        /\ \A i \in 1..Len(a) + Len(b) : (a \o b)[i] = IF i =< Len(a) THEN a[i] ELSE b[i - Len(a)]
    BY ConcatProperties
  <2>3. Len(a) = Len(s) /\ Len(b) = Len(t)
    BY <1>5, <2>1
  <2> QED
    BY <2>1, <2>2, <2>3, Zenon
<1>7. ASSUME NEW i \in 1..Len(s) + Len(t) PROVE (p \o q)[i] = Shown(u[i])
  <2>1. CASE i =< Len(s)
    BY <1>3, <1>4, <1>6, <2>1 DEF ShownAll
  <2>2. CASE ~(i =< Len(s))
    <3>1. i - Len(s) \in 1..Len(t)
      BY <1>3, <2>2
    <3> QED
      BY <1>3, <1>4, <1>6, <2>2, <3>1 DEF ShownAll
  <2> QED
    BY <2>1, <2>2
<1>8. p \o q = [i \in 1..Len(u) |-> Shown(u[i])]
  <2>1. PICK w \in Seq(V) : w = p \o q
    BY <1>6
  <2>2. w \in [1..Len(w) -> V]
    BY LenProperties
  <2>3. w = [i \in 1..Len(w) |-> w[i]]
    BY <2>2
  <2>4. Len(w) = Len(u) /\ \A i \in 1..Len(u) : w[i] = Shown(u[i])
    BY <1>3, <1>6, <1>7, <2>1
  <2> QED
    BY <2>1, <2>3, <2>4
<1> QED
  BY <1>2, <1>4, <1>8 DEF ShownAll

\* To show lists strung together is to string together what each shows.
LEMMA ShownFlatten ==
    ASSUME NEW ss, NEW vs, Len(ss) \in Nat \ {0}, Len(vs) = Len(ss),
           \A i \in 1..Len(ss) : IsSequence(ss[i]) /\ vs[i] = ShownAll(ss[i])
    PROVE  FlattenSeq(vs) = ShownAll(FlattenSeq(ss))
<1> DEFINE n == Len(ss)
<1>1. PICK f : Strings(f, ss) /\ FlattenSeq(ss) = f[n]
  BY FlattenStrings
<1>2. PICK g : Strings(g, vs) /\ FlattenSeq(vs) = g[n]
  BY FlattenStrings
<1>3. ASSUME NEW i \in 1..n
      PROVE  /\ f[i] = IF i = 1 THEN ss[i] ELSE f[i - 1] \o ss[i]
             /\ g[i] = IF i = 1 THEN vs[i] ELSE g[i - 1] \o vs[i]
  <2>1. f[i] = IF i = 1 THEN ss[i] ELSE f[i - 1] \o ss[i]
    BY <1>1, Zenon DEF Strings
  <2>2. i \in 1..Len(vs)
    OBVIOUS
  <2>3. g[i] = IF i = 1 THEN vs[i] ELSE g[i - 1] \o vs[i]
    BY <1>2, <2>2, Zenon DEF Strings
  <2> QED
    BY <2>1, <2>3
<1> DEFINE T == {k \in Nat : k \in 1..n => IsSequence(f[k]) /\ g[k] = ShownAll(f[k])}
<1>4. 0 \in T
  OBVIOUS
<1>5. ASSUME NEW k \in Nat, k \in T PROVE k + 1 \in T
  <2> SUFFICES ASSUME k + 1 \in 1..n PROVE IsSequence(f[k + 1]) /\ g[k + 1] = ShownAll(f[k + 1])
    OBVIOUS
  <2>1. IsSequence(ss[k + 1]) /\ vs[k + 1] = ShownAll(ss[k + 1])
    OBVIOUS
  <2>2. CASE k = 0
    <3>1. f[1] = ss[1] /\ g[1] = vs[1]
      BY <1>3, <2>2
    <3> QED
      BY <2>1, <2>2, <3>1
  <2>3. CASE k # 0
    <3>1. IsSequence(f[k]) /\ g[k] = ShownAll(f[k])
      BY <1>5, <2>3
    <3>2. k + 1 # 1 /\ (k + 1) - 1 = k
      BY <2>3
    <3>3. f[k + 1] = f[k] \o ss[k + 1] /\ g[k + 1] = g[k] \o vs[k + 1]
      BY <1>3, <3>2
    <3>4. PICK a, b : a = f[k] /\ b = ss[k + 1]
      OBVIOUS
    <3>5. IsSequence(a) /\ IsSequence(b)
      BY <2>1, <3>1, <3>4
    <3>6. IsSequence(a \o b) /\ ShownAll(a \o b) = ShownAll(a) \o ShownAll(b)
      BY <3>5, ConcatIsSequence, ShownConcat
    <3> QED
      BY <2>1, <3>1, <3>3, <3>4, <3>6, Zenon
  <2> QED
    BY <2>2, <2>3
<1>6. n \in T
  <2>1. \A k \in Nat : k \in T => k + 1 \in T
    BY <1>5
  <2> HIDE DEF T
  <2> QED
    BY <1>4, <2>1, EveryNatural
<1>7. n \in 1..n
  OBVIOUS
<1> QED
  BY <1>1, <1>2, <1>6, <1>7

\* A lesson shows as the records of the section it matches.
LEMMA LessonShows ==
    ASSUME NEW l, NEW sec, MatchesSection(l, sec), IsSequence(l.metrics)
    PROVE  IsSequence(OfLesson(l)) /\ ShownAll(OfLesson(l)) = SectionRecords(sec)
<1> DEFINE head == [table |-> "lessons", name |-> Absent, date |-> Absent, amount |-> Absent,
                    confidence |-> 100, what |-> l.title, lesson |-> Blank]
           tail == [i \in 1..Len(l.metrics) |-> MetricRecord(l.metrics[i], l.title)]
           shown == [i \in 1..Len(l.metrics) |->
                       <<l.metrics[i].player, l.metrics[i].type, SectionTitle(sec)>>]
<1>1. Len(l.metrics) \in Nat
  BY DEF IsSequence
<1>2. OfLesson(l) = <<head>> \o tail
  BY DEF OfLesson
<1>3. IsSequence(tail) /\ Len(tail) = Len(l.metrics)
  <2>1. DOMAIN tail = 1..Len(l.metrics) /\ tail = [i \in DOMAIN tail |-> tail[i]]
    OBVIOUS
  <2> HIDE DEF tail
  <2> QED
    BY <1>1, <2>1, ListIsSequence
<1>4. ShownAll(tail) = shown
  <2>1. ASSUME NEW i \in 1..Len(l.metrics)
        PROVE  Shown(tail[i]) = <<l.metrics[i].player, l.metrics[i].type, SectionTitle(sec)>>
    <3>1. tail[i] = MetricRecord(l.metrics[i], l.title)
      OBVIOUS
    <3>2. PICK m : m = l.metrics[i]
      OBVIOUS
    <3>3. Shown(MetricRecord(m, l.title)) = <<m.player, m.type, l.title>>
      BY DEF MetricRecord, Shown
    <3> QED
      BY <3>1, <3>2, <3>3 DEF MatchesSection
  <2> HIDE DEF tail
  <2> QED
    BY <1>3, <2>1 DEF ShownAll
<1>5. ShownAll(<<head>>) = <<<<"lessons", SectionTitle(sec)>>>>
  <2>1. Shown(head) = <<"lessons", SectionTitle(sec)>>
    BY DEF Shown, MatchesSection
  <2> HIDE DEF head
  <2>2. Len(<<head>>) = 1 /\ <<head>>[1] = head
    OBVIOUS
  <2> QED
    BY <2>1, <2>2 DEF ShownAll
<1>6. SectionRecords(sec) = <<<<"lessons", SectionTitle(sec)>>>> \o shown
  BY DEF SectionRecords, MatchesSection, Taken
<1> HIDE DEF head, tail, shown
<1>7. IsSequence(<<head>>)
  BY TupleIsSequence
<1> QED
  BY <1>2, <1>3, <1>4, <1>5, <1>6, <1>7, ConcatIsSequence, ShownConcat

\* For every document, whatever the blocks it consists of: each measurement is
\* recorded under the lesson it stands in, by the title that lesson has in the
\* end, and right after the lesson's own record (parse_lesson_document,
\* _iter_block_items, _lesson_records_for_file).
THEOREM MetricsStay == InputSpec => []MetricsStayInTheirLesson
<1>1. ASSUME InputType, input[1] = "document" PROVE MetricsStayInTheirLesson
  <2>1. PICK doc \in Seq(Blocks) : doc = input[2]
    BY <1>1 DEF InputType
  <2> DEFINE lessons == ParseLessonDocument(doc, Default)
             ss == [n \in 1..Len(lessons) |-> OfLesson(lessons[n])]
             vs == [n \in 1..LastNumber(doc) |-> SectionRecords(Section(doc, n))]
             recs == LessonRecords(doc, Default)
  <2>2. /\ Len(lessons) = LastNumber(doc) /\ LastNumber(doc) \in Nat \ {0}
        /\ \A n \in 1..LastNumber(doc) : /\ MatchesSection(lessons[n], Section(doc, n))
                                         /\ IsSequence(lessons[n].metrics)
    BY LessonsAreSections
  <2>3. recs = FlattenSeq(ss)
    BY DEF LessonRecords, OfLesson
  <2> HIDE DEF lessons
  <2>4. Len(ss) = LastNumber(doc) /\ Len(vs) = LastNumber(doc)
    BY <2>2
  <2>5. ASSUME NEW n \in 1..LastNumber(doc) PROVE IsSequence(ss[n]) /\ vs[n] = ShownAll(ss[n])
    <3>1. ss[n] = OfLesson(lessons[n]) /\ vs[n] = SectionRecords(Section(doc, n))
      BY <2>2
    <3> HIDE DEF ss, vs
    <3> QED
      BY <2>2, <3>1, LessonShows
  <2>6. FlattenSeq(vs) = ShownAll(FlattenSeq(ss))
    <3> HIDE DEF ss, vs
    <3> QED
      BY <2>2, <2>4, <2>5, ShownFlatten
  <2>7. FlattenSeq(vs) = ShownAll(recs)
    <3> HIDE DEF ss, vs, recs
    <3> QED
      BY <2>3, <2>6
  <2> HIDE DEF recs
  <2> QED
    BY <2>1, <2>7 DEF MetricsStayInTheirLesson, ShownAll, Shown, LastNumber, recs
<1>2. InputType => MetricsStayInTheirLesson
  BY <1>1 DEF MetricsStayInTheirLesson
<1> QED
  BY <1>2, InputInductive, PTL
=============================================================================
