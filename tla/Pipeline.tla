------------------------------ MODULE Pipeline ------------------------------
(***************************************************************************)
(* `funhouse-pipeline run`: collect, extract, validate, load, archive,     *)
(* behind a run manifest that is saved after every stage                   *)
(* (funhouse_pipeline/orchestrator, collect, extract, validate, load,      *)
(* archive).                                                               *)
(*                                                                         *)
(* proc is the operating-system process of the run: a crash or an          *)
(* unrecoverable error loses it.  The manifests and review files on disk,  *)
(* the database and the bucket stay.  A record is what one item of a       *)
(* source file says, with the fields the rules and the keys look at:       *)
(*   table, name, date, amount, confidence (see Validator),                *)
(*   what    the school of a player, the type of a session, the product of *)
(*           a payment, the type and value of a metric, the lesson's title *)
(*   lesson  the title a metric names, or the school a session names       *)
(* Every SQL statement sees what others have committed by then (READ       *)
(* COMMITTED), so registrations of the API come between the statements of  *)
(* the transaction that loads the players.                                 *)
(***************************************************************************)
EXTENDS LessonDocument, Bags

CONSTANTS
    Source,        \* the files of the source folder, in path order
    Readings,      \* what may be extracted from each image: a set of record sequences
    Documents,     \* the blocks of each lesson document (see LessonDocument)
    RunIds,
    Commands,      \* command lines: [run, stage, resume, seed, bucket]
    Schools,       \* the schools and products in the reference data
    Products,
    ApiPlayers,    \* dedup keys the API may register at any time, one request a key
    MaxAttempts,   \* RetryPolicy.max_attempts
    MaxRuns,       \* bound on the number of runs
    MaxFaults      \* bound on crashes, database, connection and parse errors

ALL_STAGES == <<"collect", "extract", "validate", "load", "archive">>

SUBFOLDER_SPECS == <<"cards", "sheets", "lessons", "photos", "whatsapp">>

\* A file is its path below the source folder, the extension class at the end.
Folder(f) == f[1]
Extension(f) == Last(f)
Handler(f) == IF Folder(f) = "lessons" THEN "docx" ELSE "image"

ASSUME PipelineAssumption ==
    /\ MaxAttempts \in Nat \ {0}
    /\ MaxRuns \in Nat /\ MaxFaults \in Nat
    /\ \A c \in Commands : c.run \in RunIds /\ c.stage \in {"all"} \cup ToSet(ALL_STAGES)
    /\ \A k \in ApiPlayers : k = <<"players", k[2], k[3]>>

\* The model answers with a list of records for every image; a document is a list
\* of blocks, and its name, which stands in for a missing title, is not blank.
ASSUME SourceAssumption ==
    /\ IsSequence(Source)
    /\ \A f \in ToSet(Source) :
          IF Handler(f) = "docx"
          THEN f[Len(f) - 1] # Blank /\ (Extension(f) = "docx" => f \in DOMAIN Documents)
          ELSE Extension(f) = "image" => f \in DOMAIN Readings
    /\ \A f \in DOMAIN Documents :
          IsSequence(Documents[f]) /\ \A b \in ToSet(Documents[f]) : IsBlock(b)
    /\ \A f \in DOMAIN Readings : \A reading \in Readings[f] : IsSequence(reading)

VARIABLES
    proc,      \* the running process, or NoProcess
    disk,      \* run id -> saved manifest, or Absent
    review,    \* run id -> the record ids in flagged-<run id>.csv
    players,   \* dedup key -> school
    rows,      \* natural key -> row of sessions, payments, lessons, student_metrics
    audit,     \* sync_log, a bag of <<key, action>>
    seeded,    \* the Smithfield location is there
    asking,    \* keys that a registration under way has found missing
    s3,        \* archive key -> the file stored there
    runs,
    faults

db == <<players, rows, audit, seeded, asking>>
store == <<disk, review, s3>>
vars == <<proc, disk, review, players, rows, audit, seeded, asking, s3, runs, faults>>

\* collect: the supported files folder by folder.
Routed ==
    FlattenSeq([i \in 1..Len(SUBFOLDER_SPECS) |->
        Only(Source, {f \in ToSet(Source) : Folder(f) = SUBFOLDER_SPECS[i]
                                            /\ Extension(f) = Handler(f)})])

\* A plausible bug: the key keeps the file name only.
FileNameKey(f) == <<"raw", f[Len(f) - 1], Last(f)>>

\* archive_key: the immediate parent directory and the file name.
ArchiveKey(f) == <<"raw", f[Len(f) - 2], f[Len(f) - 1], Last(f)>>

\* _stages_to_run
StagesToRun(selected) ==
    CASE selected = "all" -> ToSet(ALL_STAGES)
      [] selected = "archive" -> {"collect", "archive"}
      [] OTHER -> {ALL_STAGES[i] : i \in 1..(CHOOSE n \in 1..4 : ALL_STAGES[n] = selected)}

\* A table, or the bucket, with one key set; as :> and @@ do it, which the
\* provers do not read.
With(table, key, value) ==
    [k \in DOMAIN table \cup {key} |-> IF k = key THEN value ELSE table[k]]

-----------------------------------------------------------------------------
(* The manifest *)

\* RunManifest.create
Fresh == [files     |-> [f \in ToSet(Routed) |-> [extract |-> "pending", archive |-> "pending"]],
          records   |-> <<>>,
          skips     |-> {},
          completed |-> {}]

\* A run that has not collected yet knows no files; Fresh lists them as pending.
SetFiles(m, fs, stage, status) ==
    [m EXCEPT !.files = [f \in DOMAIN @ |->
        IF f \in fs THEN [@[f] EXCEPT ![stage] = status] ELSE @[f]]]

\* mark_record
Mark(m, ids, status) ==
    [m EXCEPT !.records = [id \in DOMAIN @ \cup ids |-> IF id \in ids THEN status ELSE @[id]]]

NoProcess == [pc |-> "idle"]

\* A run keeps its command line, the manifest, the connection, what is left to
\* do in the stage, the attempts of the call in progress, its records, and in
\* Load the players merged and created by the transaction under way (created from
\* the look-up on that found none), those that its records resolved to and the
\* index of names.
NewProcess(c, m) ==
    [pc |-> "connect", cmd |-> c, stage |-> "connect", manifest |-> m, conn |-> FALSE,
     todo |-> <<>>, attempt |-> 1, records |-> <<>>, clean |-> <<>>,
     merged |-> {}, created |-> {}, resolved |-> {}, index |-> {}]

At(pc) == proc.pc = pc
Goto(pc) == proc' = [proc EXCEPT !.pc = pc]
Halt == proc' = NoProcess
Fault == faults < MaxFaults /\ faults' = faults + 1
NoFault == UNCHANGED faults

NextStage(stage, stages) ==
    LET from == IF stage = "connect" THEN 0 ELSE CHOOSE n \in 1..5 : ALL_STAGES[n] = stage
        left == {n \in from + 1..5 : ALL_STAGES[n] \in stages}
    IN  IF left = {} THEN "finished" ELSE ALL_STAGES[Min(left)]

FirstStep(stage) ==
    CASE stage = "collect"  -> "collect"
      [] stage = "extract"  -> "images"
      [] stage = "validate" -> "validate"
      [] stage = "load"     -> "players"
      [] stage = "archive"  -> "originals"
      [] stage = "finished" -> "finished"

\* Files a resumed run has not done yet; every file for a fresh run.
Pending(p, stage) ==
    Only(Routed, {f \in ToSet(Routed) :
        ~(p.cmd.resume /\ p.manifest.files[f][stage] = "done")})

\* The process p enters the stage after its present one; start_stage is called
\* for every stage but Validate.
EnterNext(p) ==
    LET next == NextStage(p.stage, StagesToRun(p.cmd.stage))
    IN  [p EXCEPT !.pc = FirstStep(next), !.stage = next, !.attempt = 1,
                  !.manifest.completed = @ \ ({next} \ {"validate"}),
                  !.todo = IF next = "archive" THEN Pending(p, "archive") ELSE <<>>]

\* The stage of p is over; the manifest is saved next.
Completed(p) == [p EXCEPT !.pc = "save", !.manifest.completed = @ \cup {p.stage}]

-----------------------------------------------------------------------------
(* run_pipeline *)

StartRun(c) ==
    /\ At("idle")
    /\ runs < MaxRuns
    /\ c.resume => disk[c.run] # Absent
    /\ LET m == IF c.resume THEN disk[c.run] ELSE Fresh
       IN  /\ proc' = NewProcess(c, m)
           /\ disk' = [disk EXCEPT ![c.run] = m]
    /\ runs' = runs + 1
    /\ UNCHANGED <<db, review, s3, faults>>

Stages == StagesToRun(proc.cmd.stage)
NeedDb == Stages \cap {"extract", "load"} # {}

\* The connection, and _prepare_database when records will be loaded.
Connect ==
    /\ At("connect")
    /\ proc' = EnterNext([proc EXCEPT !.conn = NeedDb])
    /\ seeded' = (seeded \/ ("load" \in Stages /\ proc.cmd.seed))
    /\ NoFault
    /\ UNCHANGED <<players, rows, audit, asking, store, runs>>

ConnectFails ==
    /\ At("connect")
    /\ NeedDb
    /\ Fault
    /\ IF "load" \in Stages THEN Halt ELSE proc' = EnterNext(proc)
    /\ UNCHANGED <<db, store, runs>>

\* manifest.save after a stage, and on to the next stage.
Save ==
    /\ At("save")
    /\ disk' = [disk EXCEPT ![proc.cmd.run] = proc.manifest]
    /\ proc' = EnterNext(proc)
    /\ NoFault
    /\ UNCHANGED <<db, review, s3, runs>>

\* _run_collect: unsupported files and absent subfolders are recorded as skipped.
Collect ==
    /\ At("collect")
    /\ proc' = Completed([proc EXCEPT !.manifest.skips =
                   @ \cup (ToSet(Source) \ ToSet(Routed))
                     \cup {<<d>> : d \in ToSet(SUBFOLDER_SPECS) \ {Folder(f) : f \in ToSet(Source)}}])
    /\ NoFault
    /\ UNCHANGED <<db, store, runs>>

-----------------------------------------------------------------------------
(* _run_extract *)

\* The records of one item know their file and their position in it (for a
\* document the position in the table, which tells its records apart as well).
ReadFrom(f, reading) ==
    [i \in 1..Len(reading) |-> With(With(reading[i], "file", f), "position", i)]

\* default_record_id
RecordId(r) == <<r.file, r.table, r.position>>

Ids(recs) == {RecordId(recs[i]) : i \in 1..Len(recs)}

\* The records of an image batch.
BatchRecords(files, said) == FlattenSeq([i \in 1..Len(files) |-> ReadFrom(files[i], said[i])])

ToExtract(handler) == Only(Pending(proc, "extract"), {f \in ToSet(Routed) : Handler(f) = handler})

ToDocuments(recs, m) ==
    proc' = [proc EXCEPT !.pc = "documents", !.todo = ToExtract("docx"),
                         !.records = recs, !.manifest = m]

\* One batch for all images (extract_images and the Bedrock job behind it); the
\* model may answer any reading of each image, an empty one included.
ExtractImages ==
    /\ At("images")
    /\ LET files == ToExtract("image")
       IN  \E said \in [1..Len(files) -> UNION {Readings[files[i]] : i \in 1..Len(files)}] :
             /\ \A i \in 1..Len(files) : said[i] \in Readings[files[i]]
             /\ ToDocuments(BatchRecords(files, said),
                            SetFiles(proc.manifest, ToSet(files), "extract", "done"))
    /\ NoFault
    /\ UNCHANGED <<db, store, runs>>

\* The batch fails; when the attempts are used up its files are marked failed
\* and the run goes on.
ImagesFail ==
    /\ At("images")
    /\ ToExtract("image") # <<>>
    /\ IF proc.attempt < MaxAttempts THEN Goto("backoff")
       ELSE ToDocuments(<<>>, SetFiles(proc.manifest, ToSet(ToExtract("image")), "extract", "failed"))
    /\ NoFault
    /\ UNCHANGED <<db, store, runs>>

\* A plausible bug: the attempts are not counted.
RetryForever ==
    /\ At("backoff")
    /\ Goto(FirstStep(proc.stage))
    /\ NoFault
    /\ UNCHANGED <<db, store, runs>>

\* retry_call sleeps and tries again.
Retry ==
    /\ At("backoff")
    /\ proc' = [proc EXCEPT !.pc = FirstStep(proc.stage), !.attempt = @ + 1]
    /\ NoFault
    /\ UNCHANGED <<db, store, runs>>

\* extract_lessons: what the text parser makes of each document.
DocumentRecords ==
    [f \in DOMAIN Documents |-> ReadFrom(f, LessonRecords(Documents[f], f[Len(f) - 1]))]

ExtractDocument ==
    /\ At("documents")
    /\ proc.todo # <<>>
    /\ LET f == Head(proc.todo)
       IN  proc' = [proc EXCEPT !.todo = Tail(@),
                       !.records = @ \o DocumentRecords[f],
                       !.manifest = SetFiles(@, {f}, "extract", "done")]
    /\ NoFault
    /\ UNCHANGED <<db, store, runs>>

\* A plausible bug: a document that cannot be parsed is dropped from the list.
DocumentForgotten ==
    /\ At("documents")
    /\ proc.todo # <<>>
    /\ Fault
    /\ proc' = [proc EXCEPT !.todo = Tail(@)]
    /\ UNCHANGED <<db, store, runs>>

DocumentFails ==
    /\ At("documents")
    /\ proc.todo # <<>>
    /\ Fault
    /\ proc' = [proc EXCEPT !.todo = Tail(@),
                    !.manifest = SetFiles(@, {Head(proc.todo)}, "extract", "failed")]
    /\ UNCHANGED <<db, store, runs>>

EndExtract ==
    /\ At("documents")
    /\ proc.todo = <<>>
    /\ proc' = Completed([proc EXCEPT !.manifest = Mark(@, Ids(proc.records), "extracted")])
    /\ NoFault
    /\ UNCHANGED <<db, store, runs>>
-----------------------------------------------------------------------------
(* Validate *)

PlayerNames == {k[2] : k \in DOMAIN players}

\* partition
CleanRecords(known) == Only(proc.records, {r \in ToSet(proc.records) : Clean(r, known)})

\* write_review_artifact (which replaces the file of the same run id) and the
\* flags in the manifest, for the names known at this moment.
ValidateWith(known) ==
    LET flagged == {RecordId(r) : r \in {q \in ToSet(proc.records) : ~Clean(q, known)}}
    IN  /\ review' = [review EXCEPT ![proc.cmd.run] = flagged]
        /\ proc' = Completed([proc EXCEPT !.clean = CleanRecords(known), !.manifest = Mark(@, flagged, "flagged")])
        /\ UNCHANGED <<db, disk, s3, runs>>

Validate ==
    /\ At("validate")
    /\ ValidateWith(IF proc.conn THEN PlayerNames ELSE {})
    /\ NoFault

\* _known_player_names swallows a database error: the name rule is off.
ValidateBlind ==
    /\ At("validate")
    /\ proc.conn
    /\ Fault
    /\ ValidateWith({})

-----------------------------------------------------------------------------
(* _run_load and load_clean_records *)

\* compute_dedup_key
DedupKey(r) == <<"players", r.name, r.date>>

\* compute_natural_key
NaturalKey(r) ==
    IF r.table = "lessons" THEN <<r.table, r.what, r.file>>
    ELSE <<r.table, r.name, r.what, r.date, r.amount, r.file>>

Candidates == Only(proc.clean, {r \in ToSet(proc.clean) : r.table = "players" /\ r.name # Absent})

Others == Only(proc.clean, {r \in ToSet(proc.clean) : r.table # "players"})

\* The keys of a name in the batch and the table.
KeysOfName(n) ==
    {DedupKey(r) : r \in {c \in ToSet(Candidates) : c.name = n}}
    \cup {k \in DOMAIN players : k[2] = n}

\* by_name: a record of each name stands for its group.
Groups ==
    Only(Candidates, {CHOOSE r \in ToSet(Candidates) : r.name = n : n \in {c.name : c \in ToSet(Candidates)}})

NamingSchool == Only(proc.clean, {r \in ToSet(proc.clean) : r.table = "players" /\ r.what # Blank})

\* The transaction begins; resolve_players takes the names one after the other.
LoadPlayers ==
    /\ At("players")
    /\ seeded
    /\ proc' = [proc EXCEPT !.pc = "names", !.todo = Groups]
    /\ NoFault
    /\ UNCHANGED <<db, store, runs>>

\* _existing_dedup_keys_for_name: a name with two keys is ambiguous.
ReadNames ==
    /\ At("names")
    /\ proc.todo # <<>>
    /\ proc' = IF Cardinality(KeysOfName(Head(proc.todo).name)) = 1
               THEN [proc EXCEPT !.pc = "lookup"]
               ELSE [proc EXCEPT !.todo = Tail(@)]
    /\ NoFault
    /\ UNCHANGED <<db, store, runs>>

\* The key of the name at the head.
HeadKey == DedupKey(Head(proc.todo))

\* A plausible bug: every player of the batch is taken for a new one.
LookUpNothing ==
    /\ At("lookup")
    /\ proc' = [proc EXCEPT !.pc = "insert", !.created = @ \cup {HeadKey}]
    /\ NoFault
    /\ UNCHANGED <<db, store, runs>>

\* _existing_by_dedup_key: merge into the row that is there, or create one.
LookUpPlayer ==
    /\ At("lookup")
    /\ proc' = IF HeadKey \in DOMAIN players
               THEN [proc EXCEPT !.pc = "names", !.todo = Tail(@), !.merged = @ \cup {HeadKey}]
               ELSE [proc EXCEPT !.pc = "insert", !.created = @ \cup {HeadKey}]
    /\ NoFault
    /\ UNCHANGED <<db, store, runs>>

\* _insert_player: from here on the key is held until the commit, unless a row has
\* come up meanwhile; then its id is read back and still counts as created.
InsertPlayer ==
    /\ At("insert")
    /\ proc' = [proc EXCEPT !.pc = "names", !.todo = Tail(@)]
    /\ NoFault
    /\ UNCHANGED <<db, store, runs>>

\* The transaction commits the new players, an insert entry for each one counted
\* as created and an update entry for each merged one.
CommitPlayers ==
    /\ At("names")
    /\ proc.todo = <<>>
    /\ players' = [k \in DOMAIN players \cup proc.created |->
                      IF k \in DOMAIN players THEN players[k] ELSE Blank]
    /\ audit' = audit (+) SetToBag({<<k, "insert">> : k \in proc.created})
                      (+) SetToBag({<<k, "update">> : k \in proc.merged})
    /\ proc' = [proc EXCEPT !.pc = "index", !.resolved = proc.merged \cup proc.created,
                            !.merged = {}, !.created = {}, !.todo = NamingSchool]
    /\ NoFault
    /\ UNCHANGED <<rows, seeded, asking, store, runs>>

\* No Smithfield location.
NoLocation ==
    /\ At("players")
    /\ ~seeded
    /\ Halt
    /\ NoFault
    /\ UNCHANGED <<db, store, runs>>

\* A database error outside the loops over records ends the run.
LoadAborts ==
    /\ proc.pc \in {"players", "names", "lookup", "insert", "index"}
    /\ Fault
    /\ Halt
    /\ UNCHANGED <<db, store, runs>>

\* _build_players_index
BuildIndex ==
    /\ At("index")
    /\ proc' = [proc EXCEPT !.pc = "schools", !.index = DOMAIN players]
    /\ NoFault
    /\ UNCHANGED <<db, store, runs>>

\* The record at the head is done with.
Done(status) ==
    proc' = [proc EXCEPT !.todo = Tail(@), !.manifest = Mark(@, {RecordId(Head(proc.todo))}, status)]

\* _resolve_player_schools: fill the school if it is known and none is set,
\* unless the player was not resolved.
AttachSchool ==
    /\ At("schools")
    /\ proc.todo # <<>>
    /\ LET r == Head(proc.todo)
           found == DedupKey(r) \in proc.resolved
       IN  \/ /\ ~found
              /\ proc' = [proc EXCEPT !.todo = Tail(@)]
              /\ NoFault
              /\ UNCHANGED <<players, audit>>
           \/ /\ found
              /\ r.what \in Schools
              /\ players' = [players EXCEPT ![DedupKey(r)] = IF @ = Blank THEN r.what ELSE @]
              /\ audit' = audit (+) SetToBag({<<DedupKey(r), "update">>})
              /\ proc' = [proc EXCEPT !.todo = Tail(@)]
              /\ NoFault
           \/ /\ found
              /\ r.what \notin Schools
              /\ Done("flagged")
              /\ NoFault
              /\ UNCHANGED <<players, audit>>
           \/ /\ found
              /\ r.what \in Schools
              /\ Fault
              /\ Done("flagged")
              /\ UNCHANGED <<players, audit>>
    /\ UNCHANGED <<rows, seeded, asking, store, runs>>

EndSchools ==
    /\ At("schools")
    /\ proc.todo = <<>>
    /\ proc' = [proc EXCEPT !.pc = "rows", !.todo = Others]
    /\ NoFault
    /\ UNCHANGED <<db, store, runs>>

\* _NameIndex: a player answers to the full name and to the bare first name.
Matches(index, name) == {k \in index : name = k[2] \/ name = <<k[2][1], "">>}

\* _resolve_player
ResolvesToOne(r) == r.table = "lessons" \/ Cardinality(Matches(proc.index, r.name)) = 1

\* _build_columns raises no _FKResolutionError.
Loadable(r) ==
    /\ ResolvesToOne(r)
    /\ r.table = "sessions" => /\ r.what \in {"lesson", "kit", "esports", "lounge"}
                               /\ r.lesson \in Schools \cup {Blank}
    /\ r.table = "payments" =>
          AmountToCents(r.amount) # NoCents /\ (r.what = Blank \/ r.what \in Products)

\* _resolve_lesson_id: some lesson with the title.
LessonsTitled(r) ==
    IF r.table # "student_metrics" \/ r.lesson = Blank THEN {}
    ELSE {k \in DOMAIN rows : k[1] = "lessons" /\ k[2] = r.lesson}

\* _build_columns: the record with what the foreign keys resolved to.
Row(r, lesson) ==
    [record |-> r,
     player |-> IF r.table = "lessons" THEN Absent
                ELSE CHOOSE k \in Matches(proc.index, r.name) : TRUE,
     cents  |-> IF r.table = "payments" THEN AmountToCents(r.amount) ELSE NoCents,
     lesson |-> lesson]

\* INSERT ... ON CONFLICT DO NOTHING and its sync_log entry, one transaction.
InsertOrSkip(r, lesson) ==
    LET k == NaturalKey(r)
    IN  IF k \in DOMAIN rows
        THEN /\ audit' = audit (+) SetToBag({<<k, "skip">>})
             /\ Done("skipped")
             /\ UNCHANGED rows
        ELSE /\ rows' = With(rows, k, Row(r, lesson))
             /\ audit' = audit (+) SetToBag({<<k, "insert">>})
             /\ Done("loaded")

LoadOne ==
    /\ At("rows")
    /\ proc.todo # <<>>
    /\ LET r == Head(proc.todo)
       IN  /\ Loadable(r)
           /\ \E lesson \in IF LessonsTitled(r) = {} THEN {Absent} ELSE LessonsTitled(r) :
                 InsertOrSkip(r, lesson)
    /\ NoFault
    /\ UNCHANGED <<players, seeded, asking, store, runs>>

LoadOneUnresolved ==
    /\ At("rows")
    /\ proc.todo # <<>>
    /\ ~Loadable(Head(proc.todo))
    /\ Done("flagged")
    /\ NoFault
    /\ UNCHANGED <<db, store, runs>>

\* A plausible bug: a failed insert is reported as loaded.
FailedInsertReportedLoaded ==
    /\ At("rows")
    /\ proc.todo # <<>>
    /\ Loadable(Head(proc.todo))
    /\ Fault
    /\ Done("loaded")
    /\ UNCHANGED <<db, store, runs>>

\* The insert fails and the record is flagged; a failure of the query for the
\* lesson, which is outside the handler, ends the run.
LoadOneFails ==
    /\ At("rows")
    /\ proc.todo # <<>>
    /\ Loadable(Head(proc.todo))
    /\ Fault
    /\ \/ Done("flagged")
       \/ Head(proc.todo).table = "student_metrics" /\ Head(proc.todo).lesson # Blank /\ Halt
    /\ UNCHANGED <<db, store, runs>>

EndLoad ==
    /\ At("rows")
    /\ proc.todo = <<>>
    /\ proc' = Completed(proc)
    /\ NoFault
    /\ UNCHANGED <<db, store, runs>>

-----------------------------------------------------------------------------
(* _run_archive *)

NoBucket ==
    /\ At("originals")
    /\ ~proc.cmd.bucket
    /\ Halt
    /\ NoFault
    /\ UNCHANGED <<db, store, runs>>

\* archive_file: the object is put unless its hash is the file's already.
Put(f) == s3' = With(s3, ArchiveKey(f), f)

ArchiveFile ==
    /\ At("originals")
    /\ proc.cmd.bucket
    /\ proc.todo # <<>>
    /\ Put(Head(proc.todo))
    /\ proc' = [proc EXCEPT !.todo = Tail(@), !.attempt = 1,
                    !.manifest = SetFiles(@, {Head(proc.todo)}, "archive", "done")]
    /\ NoFault
    /\ UNCHANGED <<db, disk, review, runs>>

\* The call fails before the object is stored, or only its answer is lost.
ArchiveFails ==
    /\ At("originals")
    /\ proc.cmd.bucket
    /\ proc.todo # <<>>
    /\ UNCHANGED s3 \/ Put(Head(proc.todo))
    /\ IF proc.attempt < MaxAttempts THEN Goto("backoff") ELSE Halt
    /\ NoFault
    /\ UNCHANGED <<db, disk, review, runs>>

EndArchive ==
    /\ At("originals")
    /\ proc.cmd.bucket
    /\ proc.todo = <<>>
    /\ proc' = Completed(proc)
    /\ NoFault
    /\ UNCHANGED <<db, store, runs>>

\* The summary is saved and the process returns.
Exit ==
    /\ At("finished")
    /\ disk' = [disk EXCEPT ![proc.cmd.run] = proc.manifest]
    /\ Halt
    /\ NoFault
    /\ UNCHANGED <<db, review, s3, runs>>

-----------------------------------------------------------------------------
(* The environment *)

\* The process is killed; only what is in memory is lost.
Crash ==
    /\ ~At("idle")
    /\ Fault
    /\ Halt
    /\ UNCHANGED <<db, store, runs>>

\* The keys that a load has inserted and not committed.
Held ==
    IF At("idle") THEN {}
    ELSE proc.created \ (DOMAIN players \cup (IF At("insert") THEN {HeadKey} ELSE {}))

\* POST /players, at any time, through the same resolve_players: no row has the
\* name, and none the key.  (Requests among themselves are in PlayerRegistry.)
ApiLookUp(k) ==
    /\ k \notin asking
    /\ \A p \in DOMAIN players : p[2] # k[2]
    /\ asking' = asking \cup {k}
    /\ UNCHANGED <<proc, players, rows, audit, seeded, store, runs, faults>>

\* The insert waits for one that a load has not committed; a row that is there by
\* now is read back and counts as created.  Then the request commits.
ApiRegister(k) ==
    /\ k \in asking \ Held
    /\ asking' = asking \ {k}
    /\ players' = IF k \in DOMAIN players THEN players ELSE With(players, k, Blank)
    /\ audit' = audit (+) SetToBag({<<k, "insert">>})
    /\ UNCHANGED <<proc, rows, seeded, store, runs, faults>>

-----------------------------------------------------------------------------
Init ==
    /\ proc = NoProcess
    /\ disk = [id \in RunIds |-> Absent]
    /\ review = [id \in RunIds |-> {}]
    /\ players = <<>>
    /\ rows = <<>>
    /\ audit = EmptyBag
    /\ seeded = FALSE
    /\ asking = {}
    /\ s3 = <<>>
    /\ runs = 0
    /\ faults = 0

Step ==
    \/ Connect \/ ConnectFails \/ Save \/ Collect
    \/ ExtractImages \/ ImagesFail \/ Retry
    \/ ExtractDocument \/ DocumentFails \/ EndExtract
    \/ Validate \/ ValidateBlind
    \/ LoadPlayers \/ ReadNames \/ LookUpPlayer \/ InsertPlayer \/ CommitPlayers
    \/ NoLocation \/ LoadAborts \/ BuildIndex
    \/ AttachSchool \/ EndSchools
    \/ LoadOne \/ LoadOneUnresolved \/ LoadOneFails \/ EndLoad
    \/ NoBucket \/ ArchiveFile \/ ArchiveFails \/ EndArchive
    \/ Exit

Next ==
    \/ \E c \in Commands : StartRun(c)
    \/ Step
    \/ Crash
    \/ \E k \in ApiPlayers : ApiLookUp(k) \/ ApiRegister(k)

\* A started process is scheduled: it takes its next step.
Spec == Init /\ [][Next]_vars /\ WF_vars(Step)

-----------------------------------------------------------------------------
(* Properties *)

Statuses == {"extracted", "flagged", "loaded", "skipped"}

IsManifest(m) ==
    /\ DOMAIN m.files = ToSet(Routed)
    /\ \A f \in ToSet(Routed) : /\ m.files[f].extract \in {"pending", "done", "failed"}
                                /\ m.files[f].archive \in {"pending", "done"}
    /\ \A id \in DOMAIN m.records : m.records[id] \in Statuses
    /\ m.completed \subseteq ToSet(ALL_STAGES)

\* Manifests, rows and the process are of their types (RunManifest, run_pipeline).
TypeOK ==
    /\ \A id \in RunIds : disk[id] # Absent => IsManifest(disk[id])
    /\ proc # NoProcess => /\ IsManifest(proc.manifest)
                           /\ proc.attempt \in 1..MaxAttempts
                           /\ proc.index \subseteq DOMAIN players
    /\ \A k \in DOMAIN players : players[k] \in Schools \cup {Blank}
    /\ seeded \in BOOLEAN
    /\ asking \subseteq ApiPlayers
    /\ runs \in 0..MaxRuns
    /\ faults \in 0..MaxFaults

\* The players that a transaction under way counts, or will count, as created.
Claims == IF At("idle") THEN {} ELSE proc.created

\* The detailed loader keeps the promise of the audited ledger: whatever crashes,
\* runs again or is read differently the second time, a row is entered once and
\* audited as inserted once, and a player too, unless the API and the load had
\* both found it missing: then the later of the two audits it again
\* (_load_one, load_clean_records, resolve_players, _insert_player).
Ledger == INSTANCE AuditedLedger
            WITH Shared <- ApiPlayers,
                 entered <- DOMAIN players \cup DOMAIN rows, journal <- audit,
                 contested <- DOMAIN players \cap (asking \cup Claims)

LoadRefinesLedger == Ledger!Spec

\* A saved manifest never claims more than happened: a record saved as loaded
\* has a row made from it, and one saved as skipped has a row of its table and
\* file (run_pipeline's saves, _run_load).
ManifestNeverAhead ==
    \A id \in RunIds : disk[id] # Absent =>
        \A rec \in DOMAIN disk[id].records :
            CASE disk[id].records[rec] = "loaded" ->
                   \E k \in DOMAIN rows : RecordId(rows[k].record) = rec
              [] disk[id].records[rec] = "skipped" ->
                   \E k \in DOMAIN rows : k[1] = rec[2] /\ rows[k].record.file = rec[1]
              [] OTHER -> TRUE

\* The directory name, the file name and its extension, all that tells two archived files apart.
SameObject(f, g) ==
    Last(f) = Last(g) /\ \A i \in 1..2 : f[Len(f) - i] = g[Len(g) - i]

\* An original that a saved manifest calls archived is in the bucket, through
\* lost answers, retries and later runs, unless a file of the same directory name
\* and file name took its place (_run_archive, archive_file, archive_key).
OriginalsStayArchived ==
    \A id \in RunIds : disk[id] # Absent =>
        \A f \in ToSet(Routed) :
            disk[id].files[f].archive = "done" =>
                \E key \in DOMAIN s3 : SameObject(s3[key], f)

\* What reaches the tables is what Validate would pass: a loaded record breaks no
\* rule, its payment is a list price in cents, its player exists and answers to
\* the name on the record, and a metric taken in a document is linked to its
\* lesson unless something failed (Validate and Load agree on amounts and names;
\* _resolve_player, _resolve_lesson_id).
RowsAreSound ==
    \A k \in DOMAIN rows :
        LET row == rows[k]
        IN  /\ Reasons(row.record, {}) = {}
            /\ row.record.table = "payments" => row.cents \in Prices
            /\ row.record.table # "lessons" =>
                  row.player \in DOMAIN players /\ row.player \in Matches(DOMAIN players, row.record.name)
            /\ faults = 0 /\ row.record.table = "student_metrics" /\ Handler(row.record.file) = "docx" =>
                  row.lesson \in DOMAIN rows /\ row.lesson[2] = row.record.lesson

\* A run that was not resumed and reports success has left nothing behind: every
\* file was read, failed or skipped with a record of it, every record it
\* extracted is loaded, skipped or flagged, a clean player is in the table unless
\* the name is missing or ambiguous, and every original is archived (run_pipeline).
NothingLeftBehind ==
    proc.pc = "finished" /\ ~proc.cmd.resume =>
        LET m == proc.manifest
        IN  /\ \A f \in ToSet(Source) : f \in m.skips \/ f \in DOMAIN m.files
            /\ "extract" \in Stages => \A f \in ToSet(Routed) : m.files[f].extract # "pending"
            /\ "archive" \in Stages => \A f \in ToSet(Routed) : m.files[f].archive = "done"
            /\ "load" \in Stages =>
                  \A r \in ToSet(proc.records) :
                     \/ m.records[RecordId(r)] # "extracted"
                     \/ r.table = "players" /\ (\/ r.name = Absent
                                               \/ DedupKey(r) \in DOMAIN players
                                               \/ Cardinality(KeysOfName(r.name)) > 1)

\* Every run ends, whatever fails and however often a call is retried
\* (retry_call's attempts are bounded).
RunEnds == ~At("idle") ~> At("idle")

\* A resumed run that reports success leaves no record behind in the state
\* "extracted" (manifest.py: a resumed run re-attempts the work that is not done,
\* and nothing disappears silently).
ResumeLeavesNothingBehind ==
    proc.pc = "finished" /\ proc.cmd.resume /\ "load" \in Stages =>
        \A id \in DOMAIN proc.manifest.records :
            id[2] # "players" => proc.manifest.records[id] # "extracted"
=============================================================================
