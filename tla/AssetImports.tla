----------------------------- MODULE AssetImports -----------------------------
(***************************************************************************)
(* The asset database of a project (asset/import/AssetDatabase.cpp): the    *)
(* source files of its folder, imported on the workers of the job system    *)
(* into artifacts of a cache, one record per source saying what its last    *)
(* import read and made, and a watcher that tells when the folder changes.  *)
(*                                                                          *)
(* The files change at any moment. The main thread scans the folder, a      *)
(* file at a time, and applies what the workers finished; a worker stamps   *)
(* its source, runs the importer, writes the artifacts and then the record. *)
(* The program may close, which cancels the imports, or crash.              *)
(*                                                                          *)
(* Left out: the folders, the copies of a .dvxmeta and moved files, the     *)
(* tables of translations, edits of a .dvxmeta by another program, errors   *)
(* of the disk, and the time and size of the files: a stamp is the content. *)
(***************************************************************************)
EXTENDS Integers, FiniteSets, Sequences

CONSTANTS
  Sources,    \* the identifiers of the source files, each kept by its .dvxmeta
  Contents,   \* what a file may hold
  Absent,     \* the stamp of a file that is not there
  Parts,      \* the assets an import may make of a source
  Makes,      \* the parts an import makes of each content, none of one it refuses
  None,       \* no record, no source, no artifact
  Surprises,  \* the changes of the files this instance allows among those the code does not see
  Budgets     \* bounds: the files a behaviour may have, and how many changes of each kind

Usable == {content \in Contents : Makes[content] # {}}
Stamps == Contents \cup {Absent}
\* Another dependency of the source, an option of its .dvxmeta.
Options == {0, 1}

VARIABLES
  file,         \* what each source file holds
  shared,       \* what the file every source depends on holds
  option,       \* the import option of each source, in its .dvxmeta
  artifact,     \* what each cooked file of the cache was made of
  recordFile,   \* the records of the cache
  open,         \* the database is open; the imports of a closed one are cancelled
  records,      \* m_records: the records read when it opened that no source claimed
  known,        \* m_sources
  assets,       \* m_assets: the assets the rest of the program may load
  filesChanged, \* what the watcher tells
  scan,         \* where refresh() is
  jobs,         \* the imports queued and running
  outcomes,     \* what the workers finished
  left          \* what remains of the budget

disk == <<file, shared, option>>
cache == <<artifact, recordFile>>
memory == <<open, records, known, assets, filesChanged, scan, outcomes>>
vars == <<file, shared, option, artifact, recordFile, open, records, known, assets,
          filesChanged, scan, jobs, outcomes, left>>

Uses(what) == left[what] > 0 /\ left' = [left EXCEPT ![what] = @ - 1]

\* What an import read: an artifact is as good as this is current.
Made == [file : Contents, shared : Contents, option : Options]
Current(s) == [file |-> file[s], shared |-> shared, option |-> option[s]]

\* The last import of a source. One that failed keeps the assets of the one before, and stamps no
\* dependency.
Record == [source : Stamps, shared : Contents \cup {None}, option : Options,
           failed : BOOLEAN, parts : SUBSET Parts]

Source == [record : Record \cup {None}, importing : BOOLEAN, changed : BOOLEAN,
           forced : BOOLEAN, retried : BOOLEAN]

Stages == {"queued", "stamped", "read", "writing"}

Job == [source : Sources, number : 1..2, option : Options, previous : SUBSET Parts,
        stage : Stages, stamp : Stamps \cup {None}, made : Made \cup {None}, unwritten : SUBSET Parts]

Scan == [on : BOOLEAN, opening : BOOLEAN, listed : SUBSET Sources, unvisited : SUBSET Sources]
NoScan == [on |-> FALSE, opening |-> FALSE, listed |-> {}, unvisited |-> {}]

\* The files a behaviour may have, and how often they, what they depend on and an option change, an
\* import is forced, another program holds a file, and this one closes or crashes.
Budget == [files : SUBSET Sources, changes : Nat, shares : Nat, options : Nat, forces : Nat,
           holds : Nat, closes : Nat, crashes : Nat]

ASSUME ImportsAssumption ==
  /\ Makes \in [Contents -> SUBSET Parts]
  /\ Absent \notin Contents
  /\ None \notin Stamps \cup Made \cup Record \cup Source
  /\ Budgets \subseteq Budget

Init ==
  /\ left \in Budgets
  /\ file \in {f \in [Sources -> Stamps] : \A s \in Sources \ left.files : f[s] = Absent}
  /\ shared \in Usable
  /\ option = [s \in Sources |-> 0]
  /\ artifact = [a \in Sources \X Parts |-> None]
  /\ recordFile = [s \in Sources |-> None]
  /\ open = FALSE
  /\ records = [s \in Sources |-> None]
  /\ known = [s \in Sources |-> None]
  /\ assets = {}
  /\ filesChanged = FALSE
  /\ scan = NoScan
  /\ jobs = {}
  /\ outcomes = <<>>

-----------------------------------------------------------------------------
(* The import jobs. *)

Imports(s) == {job \in jobs : job.source = s}
InFlight(s) == Imports(s) # {} \/ \E i \in DOMAIN outcomes : outcomes[i].source = s

partsOf(record) == IF record = None THEN {} ELSE record.parts

\* What queueImport(source) schedules.
ImportJob(s, record) ==
  [source |-> s, number |-> CHOOSE n \in 1..2 : \A job \in Imports(s) : job.number # n,
   option |-> option[s], previous |-> partsOf(record), stage |-> "queued", stamp |-> None,
   made |-> None, unwritten |-> {}]

Becomes(job, next) == jobs' = (jobs \ {job}) \cup {next}

\* mutant: the stamp is taken of nothing
stampSource_Never(job) ==
  /\ job.stage = "queued"
  /\ Becomes(job, [job EXCEPT !.stage = "stamped"])
  /\ UNCHANGED <<disk, cache, memory, left>>

\* Stamped before reading, so that a change during the import is seen by the next scan.
stampSource(job) ==
  /\ job.stage = "queued"
  /\ Becomes(job, [job EXCEPT !.stage = "stamped", !.stamp = file[job.source]])
  /\ UNCHANGED <<disk, cache, memory, left>>

Succeeds(s) == file[s] \in Usable /\ shared \in Usable

\* The importer reads the source and what it depends on. Another program may hold a file for a moment.
runImporter(job) ==
  /\ job.stage = "stamped"
  /\ \/ /\ Succeeds(job.source)
        /\ Becomes(job, [job EXCEPT !.stage = "read", !.unwritten = Makes[file[job.source]],
                                    !.made = [Current(job.source) EXCEPT !.option = job.option]])
        /\ UNCHANGED left
     \/ /\ ~Succeeds(job.source)
        /\ Becomes(job, [job EXCEPT !.stage = "read"])
        /\ UNCHANGED left
     \/ /\ Succeeds(job.source)
        /\ Uses("holds")
        /\ Becomes(job, [job EXCEPT !.stage = "read"])
  /\ UNCHANGED <<disk, cache, memory>>

\* A cancelled import writes nothing more, unless it had begun to.
cancelled(job) ==
  /\ job.stage = "read"
  /\ ~open
  /\ jobs' = jobs \ {job}
  /\ UNCHANGED <<disk, cache, memory, left>>

\* writeArtifacts: each file is replaced at once.
writeArtifact(job) ==
  /\ job.stage = "read" => open
  /\ \E part \in job.unwritten :
       /\ artifact' = [artifact EXCEPT ![<<job.source, part>>] = job.made]
       /\ Becomes(job, [job EXCEPT !.stage = "writing", !.unwritten = @ \ {part}])
  /\ UNCHANGED <<disk, recordFile, memory, left>>

\* mutant: the source is stamped after it was read
RecordOf_After(job) ==
  IF job.made = None
  THEN [source |-> file[job.source], shared |-> None, option |-> job.option, failed |-> TRUE,
        parts |-> job.previous]
  ELSE [source |-> file[job.source], shared |-> shared, option |-> job.option, failed |-> FALSE,
        parts |-> Makes[job.made.file]]

\* The dependencies are stamped after the artifacts are written, the options when the job is queued.
RecordOf(job) ==
  IF job.made = None
  THEN [source |-> job.stamp, shared |-> None, option |-> job.option, failed |-> TRUE,
        parts |-> job.previous]
  ELSE [source |-> job.stamp, shared |-> shared, option |-> job.option, failed |-> FALSE,
        parts |-> Makes[job.made.file]]

\* The record comes last; a cancelled import leaves it in the cache and tells nobody.
writeRecord(job) ==
  /\ job.unwritten = {}
  /\ job.stage = "writing" \/ (job.stage = "read" /\ open)
  /\ recordFile' = [recordFile EXCEPT ![job.source] = RecordOf(job)]
  /\ outcomes' = IF open THEN Append(outcomes, [source |-> job.source, record |-> RecordOf(job)])
                 ELSE outcomes
  /\ jobs' = jobs \ {job}
  /\ UNCHANGED <<disk, artifact, open, records, known, assets, filesChanged, scan, left>>

-----------------------------------------------------------------------------
(* The scan of the folder. *)

Present == {s \in Sources : file[s] # Absent}

\* The file or a dependency differs from its stamp. A failed import stamped no dependency.
isChanged(s, record) ==
  \/ record.source # file[s]
  \/ ~record.failed /\ record.shared # shared

isMissing(s, parts) == \E part \in parts : artifact[<<s, part>>] = None

\* needsImport, which also notes that a failure was tried again.
Reason(s, source) ==
  \/ source.forced
  \/ source.record = None
  \/ source.record # None /\ (source.record.option # option[s] \/ isChanged(s, source.record))

needsImport(s, source) ==
  \/ Reason(s, source)
  \/ IF source.record.failed THEN ~source.retried ELSE isMissing(s, source.record.parts)

Tried(s, source) ==
  IF ~Reason(s, source) /\ source.record.failed THEN [source EXCEPT !.retried = TRUE] ELSE source

Queued(source) == [source EXCEPT !.importing = TRUE, !.forced = FALSE, !.changed = FALSE]

\* The source becomes the given one, imported if it has to be.
Considered(s, source, wanted) ==
  IF wanted
  THEN /\ known' = [known EXCEPT ![s] = Queued(Tried(s, source))]
       /\ jobs' = jobs \cup {ImportJob(s, source.record)}
  ELSE /\ known' = [known EXCEPT ![s] = Tried(s, source)]
       /\ UNCHANGED jobs

AssetsOf(s, parts) == {s} \X parts

\* Cleared before scanning: a change during the scan triggers another one.
beginScan ==
  /\ open
  /\ ~scan.on
  /\ filesChanged
  /\ filesChanged' = FALSE
  /\ scan' = [on |-> TRUE, opening |-> FALSE, listed |-> Present, unvisited |-> Present]
  /\ UNCHANGED <<disk, cache, open, records, known, assets, jobs, outcomes, left>>

\* A source seen for the first time claims the record of a former session and its artifacts.
Found(s) ==
  IF known[s] # None THEN known[s]
  ELSE [record |-> records[s], importing |-> FALSE, changed |-> FALSE, forced |-> FALSE,
        retried |-> FALSE]

scanFile(s) ==
  /\ s \in scan.unvisited
  /\ scan' = [scan EXCEPT !.unvisited = @ \ {s}]
  /\ records' = IF known[s] = None THEN [records EXCEPT ![s] = None] ELSE records
  /\ assets' = IF known[s] = None THEN assets \cup AssetsOf(s, partsOf(records[s])) ELSE assets
  /\ IF Found(s).importing
     THEN known' = [known EXCEPT ![s].changed = TRUE] /\ UNCHANGED jobs
     ELSE Considered(s, Found(s), needsImport(s, Found(s)))
  /\ UNCHANGED <<disk, cache, open, filesChanged, outcomes, left>>

\* The cooked files and the records of the sources of the given records.
Removes(gone) ==
  /\ artifact' = [a \in Sources \X Parts |->
                    IF \E x \in gone : a \in AssetsOf(x.source, x.record.parts) THEN None
                    ELSE artifact[a]]
  /\ recordFile' = [s \in Sources |->
                      IF \E x \in gone : x.source = s THEN None ELSE recordFile[s]]

\* removeSource, for the sources the scan did not see. An import still running finds no source when
\* it completes and removes its own files.
endScan ==
  LET unseen == {s \in Sources \ scan.listed : known[s] # None}
      recorded == {s \in unseen : known[s].record # None}
  IN
  /\ scan.on
  /\ scan.unvisited = {}
  /\ scan' = NoScan
  /\ known' = [s \in Sources |-> IF s \in unseen THEN None ELSE known[s]]
  /\ assets' = assets \ UNION {AssetsOf(s, known[s].record.parts) : s \in recorded}
  /\ Removes({[source |-> s, record |-> known[s].record] : s \in recorded})
  /\ UNCHANGED <<disk, open, records, filesChanged, jobs, outcomes, left>>

-----------------------------------------------------------------------------
(* What the main thread does between two scans. *)

\* mutant: nothing to apply, nothing to do
applyToNothing_Keeps(outcome) == UNCHANGED <<cache, known, assets, jobs>>

\* An import of a source that is gone removes its own files.
applyToNothing(outcome) ==
  /\ Removes({outcome})
  /\ UNCHANGED <<known, assets, jobs>>

\* mutant: a failure only notes its error
applyToSource_FailsEarly(outcome) ==
  LET s == outcome.source
      source == [known[s] EXCEPT !.importing = outcome.record.failed, !.record = outcome.record]
      dropped == IF outcome.record.failed THEN {}
                 ELSE AssetsOf(s, partsOf(known[s].record) \ outcome.record.parts)
  IN
  /\ artifact' = [a \in Sources \X Parts |-> IF a \in dropped THEN None ELSE artifact[a]]
  /\ assets' = IF outcome.record.failed THEN assets
               ELSE (assets \ dropped) \cup AssetsOf(s, outcome.record.parts)
  /\ IF source.changed
     THEN Considered(s, [source EXCEPT !.changed = FALSE], needsImport(s, source))
     ELSE known' = [known EXCEPT ![s] = source] /\ UNCHANGED jobs
  /\ UNCHANGED recordFile

\* A success replaces the assets; a failure keeps them.
applyToSource(outcome) ==
  LET s == outcome.source
      source == [known[s] EXCEPT !.importing = FALSE, !.record = outcome.record]
      dropped == IF outcome.record.failed THEN {}
                 ELSE AssetsOf(s, partsOf(known[s].record) \ outcome.record.parts)
  IN
  /\ artifact' = [a \in Sources \X Parts |-> IF a \in dropped THEN None ELSE artifact[a]]
  /\ assets' = IF outcome.record.failed THEN assets
               ELSE (assets \ dropped) \cup AssetsOf(s, outcome.record.parts)
  /\ IF source.changed
     THEN Considered(s, [source EXCEPT !.changed = FALSE], needsImport(s, source))
     ELSE known' = [known EXCEPT ![s] = source] /\ UNCHANGED jobs
  /\ UNCHANGED recordFile

applyOutcome ==
  /\ open
  /\ ~scan.on
  /\ outcomes # <<>>
  /\ outcomes' = Tail(outcomes)
  /\ LET outcome == Head(outcomes)
     IN IF known[outcome.source] = None THEN applyToNothing(outcome) ELSE applyToSource(outcome)
  /\ UNCHANGED <<disk, open, records, filesChanged, scan, left>>

\* reimport(id): the current import ends first.
Again(s) ==
  IF known[s].importing
  THEN /\ known' = [known EXCEPT ![s].forced = TRUE, ![s].changed = TRUE]
       /\ UNCHANGED jobs
  ELSE /\ known' = [known EXCEPT ![s] = Queued(known[s])]
       /\ jobs' = jobs \cup {ImportJob(s, known[s].record)}

reimport(s) ==
  /\ open
  /\ ~scan.on
  /\ known[s] # None
  /\ Uses("forces")
  /\ Again(s)
  /\ UNCHANGED <<disk, cache, open, records, assets, filesChanged, scan, outcomes>>

\* The option is written to the .dvxmeta, in the folder that is watched.
setImportOptions(s) ==
  /\ open
  /\ ~scan.on
  /\ known[s] # None
  /\ Uses("options")
  /\ \E value \in Options \ {option[s]} :
       /\ option' = [option EXCEPT ![s] = value]
       /\ IF known[s].importing
          THEN /\ known' = [known EXCEPT ![s].forced = TRUE, ![s].changed = TRUE]
               /\ UNCHANGED jobs
          ELSE /\ known' = [known EXCEPT ![s] = Queued(known[s])]
               /\ jobs' = jobs \cup {[ImportJob(s, known[s].record) EXCEPT !.option = value]}
  /\ filesChanged' = TRUE
  /\ UNCHANGED <<file, shared, cache, open, records, assets, scan, outcomes>>

-----------------------------------------------------------------------------
(* The program opens and closes the database, or crashes. *)

\* mutant: a failed import cites nothing
Cited_Ready ==
  UNION {AssetsOf(s, recordFile[s].parts) :
           s \in {x \in Sources : recordFile[x] # None /\ ~recordFile[x].failed}}

Cited == UNION {AssetsOf(s, partsOf(recordFile[s])) : s \in Sources}

\* A former program is over, its jobs with it. The watcher starts once the first scan ends.
initialize ==
  /\ ~open
  /\ jobs = {}
  /\ open' = TRUE
  /\ records' = recordFile
  /\ artifact' = [a \in Sources \X Parts |-> IF a \in Cited THEN artifact[a] ELSE None]
  /\ scan' = [on |-> TRUE, opening |-> TRUE, listed |-> Present, unvisited |-> Present]
  /\ UNCHANGED <<disk, recordFile, known, assets, filesChanged, jobs, outcomes, left>>

Forgets ==
  /\ open
  /\ open' = FALSE
  /\ records' = [s \in Sources |-> None]
  /\ known' = [s \in Sources |-> None]
  /\ assets' = {}
  /\ filesChanged' = FALSE
  /\ scan' = NoScan
  /\ outcomes' = <<>>
  /\ UNCHANGED <<disk, cache>>

\* The record of a source stamps its file as it would be, but the artifacts were made of another:
\* an import stamped the file before the change it read, or a crash came before its record.
Passes(s, content, common) ==
  LET record == recordFile[s]
      wanted == [file |-> content, shared |-> common, option |-> record.option]
  IN
  /\ record # None
  /\ record.source = content /\ record.shared = common
  /\ \E part \in record.parts : artifact[<<s, part>>] # wanted

\* The import of a source that was removed leaves its record, which nobody removes any more.
Orphans == "gone" \in Surprises \/ \A s \in Sources : known[s] = None => ~InFlight(s)

close ==
  /\ ~scan.on
  /\ Orphans
  /\ Uses("closes")
  /\ Forgets
  /\ UNCHANGED jobs

Crash ==
  /\ Orphans
  /\ \A s \in Sources : Passes(s, file[s], shared) => "back" \in Surprises
  /\ Uses("crashes")
  /\ Forgets
  /\ jobs' = {}

-----------------------------------------------------------------------------
(* The files change. *)

\* The watcher of an open database tells.
Told ==
  filesChanged' = (filesChanged \/ (open /\ ~scan.opening))

\* Not yet watched, or no longer.
Opening == "opening" \in Surprises \/ ~scan.opening

\* The file becomes again what a record stamps while the artifacts were made of another.
GoesBack(s, content, common) ==
  \/ /\ Passes(s, content, common)
     /\ \A job \in Imports(s) : job.stage # "writing"
  \/ \E job \in Imports(s) : job.made # None /\ job.stamp = content /\ job.made.file # content

\* The source was removed and its import is not over.
Returns(s) ==
  /\ open
  /\ file[s] = Absent
  /\ known[s] = None \/ (scan.on /\ s \notin scan.listed)
  /\ InFlight(s)

changeFile(s) ==
  /\ s \in left.files
  /\ Uses("changes")
  /\ Opening
  /\ Returns(s) => "returns" \in Surprises
  /\ \E content \in Stamps \ {file[s]} :
       /\ GoesBack(s, content, shared) => "back" \in Surprises
       /\ file' = [file EXCEPT ![s] = content]
  /\ Told
  /\ UNCHANGED <<shared, option, cache, open, records, known, assets, scan, jobs, outcomes>>

\* An import read the dependency and did not stamp it yet.
BeingRead == \E job \in jobs : job.made # None

changeShared ==
  /\ Uses("shares")
  /\ Opening
  /\ BeingRead => "late" \in Surprises
  /\ \E content \in Contents \ {shared} :
       /\ \A s \in Sources : GoesBack(s, file[s], content) => "back" \in Surprises
       /\ shared' = content
  /\ Told
  /\ UNCHANGED <<file, option, cache, open, records, known, assets, scan, jobs, outcomes>>

-----------------------------------------------------------------------------
Work ==
  \E job \in jobs :
    \/ stampSource(job)
    \/ runImporter(job)
    \/ cancelled(job)
    \/ writeArtifact(job)
    \/ writeRecord(job)

update ==
  \/ beginScan
  \/ \E s \in Sources : scanFile(s)
  \/ endScan
  \/ applyOutcome

Next ==
  \/ Work
  \/ update
  \/ initialize
  \/ close
  \/ Crash
  \/ changeShared
  \/ \E s \in Sources : reimport(s) \/ setImportOptions(s) \/ changeFile(s)

Spec == Init /\ [][Next]_vars

\* The workers run the jobs, and update() runs every frame.
FairSpec == Spec /\ WF_vars(Work) /\ WF_vars(update)

-----------------------------------------------------------------------------
(* Properties. *)

\* The variables hold values of their types.
TypeOK ==
  /\ file \in [Sources -> Stamps]
  /\ shared \in Contents
  /\ option \in [Sources -> Options]
  /\ artifact \in [Sources \X Parts -> Made \cup {None}]
  /\ recordFile \in [Sources -> Record \cup {None}]
  /\ open \in BOOLEAN
  /\ records \in [Sources -> Record \cup {None}]
  /\ known \in [Sources -> Source \cup {None}]
  /\ assets \subseteq Sources \X Parts
  /\ filesChanged \in BOOLEAN
  /\ scan \in Scan
  /\ jobs \subseteq Job
  /\ outcomes \in Seq([source : Sources, record : Record])
  /\ left \in Budget

\* Nothing is left to do.
AtRest ==
  /\ open
  /\ ~scan.on
  /\ ~filesChanged
  /\ jobs = {}
  /\ outcomes = <<>>

Ready(s) == known[s] # None /\ known[s].record # None /\ ~known[s].record.failed

\* Once nothing is left to do, the sources are the files of the folder, each was tried as it is, and
\* what one offers was made of the file, the dependency and the option as they are: no change is
\* missed and no restart or crash makes an older artifact pass for the new one, but for the changes
\* Surprises names (scanFile, needsImport, applyOutcome, runImport).
ArtifactsFollow ==
  AtRest =>
    /\ Present = {s \in Sources : known[s] # None}
    /\ \A s \in Present :
         /\ known[s].record # None
         /\ known[s].record.source = file[s]
         /\ known[s].record.option = option[s]
         /\ Ready(s) => /\ known[s].record.parts = Makes[file[s]]
                        /\ \A part \in Makes[file[s]] : artifact[<<s, part>>] = Current(s)

\* What the database offers can be loaded at every moment: an asset is findable only while its cooked
\* file is there, during the scans, the imports that replace it and after a crash (publishArtifacts,
\* removeFiles, runImport writing its record last).
AssetsCanBeLoaded == \A a \in assets : artifact[a] # None

\* Once nothing is left to do, the cache holds what the records of its sources say and nothing else,
\* except what belongs to files removed while the program was closed (removeFiles, publishArtifacts,
\* removeOrphanArtifacts).
NothingLeftBehind ==
  AtRest =>
    /\ \A s \in Sources : recordFile[s] = IF known[s] # None THEN known[s].record ELSE records[s]
    /\ \A s \in Sources, part \in Parts :
         artifact[<<s, part>>] # None <=> recordFile[s] # None /\ part \in recordFile[s].parts

\* The imports end: however the files change, the database comes to rest with no source still
\* importing: waitForImports() returns and every source ends ready or failed (runImport, applyOutcome).
ImportsSettle ==
  open ~> (~open \/ (AtRest /\ \A s \in Sources : known[s] # None => ~known[s].importing))

=============================================================================
