------------------------- MODULE AssetImportsProofs -------------------------
(***************************************************************************)
(* Proofs about AssetImports, for every number of sources, contents and     *)
(* parts, and every budget.  Two inductive invariants: Inv, which needs     *)
(* that no source returns while its import runs and that none is left       *)
(* behind when the program ends, and Followed, under no surprise at all.    *)
(***************************************************************************)
EXTENDS AssetImports, SequenceFacts

(* What is known of one source. *)

\* What the imports of a source that ended report, until update() applies it.
Results(s) == {outcomes[i].record : i \in {j \in DOMAIN outcomes : outcomes[j].source = s}}

\* The record of a source, or the one it may still claim.
Kept(s) == IF known[s] # None THEN known[s].record ELSE records[s]

\* A source is imported once at a time.
Alone(s) ==
  /\ \A job, other \in Imports(s) : job = other
  /\ Imports(s) # {} => Results(s) = {}

\* importing says whether an import is in flight, and only then a change is remembered.
Flagged(s) ==
  known[s] # None => /\ known[s].importing <=> InFlight(s)
                     /\ known[s].changed => known[s].importing

\* A closed database knows nothing.
Closed(s) == ~open => known[s] = None /\ records[s] = None /\ Results(s) = {}

\* The record of a former session is claimed once.
Claimed(s) == open /\ (known[s] # None \/ InFlight(s)) => records[s] = None

\* The record in the cache is the one in memory, or the one reported.
Recorded(s) ==
  open => /\ ~InFlight(s) => recordFile[s] = Kept(s)
          /\ known[s] # None /\ Imports(s) # {} => recordFile[s] = known[s].record
          /\ known[s] # None => \A record \in Results(s) : recordFile[s] = record

\* The record in the cache cites artifacts that are there, except while the import of a source that
\* was removed is not over.
Whole(s) ==
  (open /\ InFlight(s) => known[s] # None)
    => \A part \in partsOf(recordFile[s]) : artifact[<<s, part>>] # None

\* The assets offered are those of the record in memory, and their artifacts are there.
Offered(s) ==
  /\ \A part \in Parts : <<s, part>> \in assets <=> known[s] # None /\ part \in partsOf(known[s].record)
  /\ known[s] # None => \A part \in partsOf(known[s].record) : artifact[<<s, part>>] # None

\* An import that fails keeps the assets there are.
Keeps(s) ==
  known[s] # None =>
    /\ \A job \in Imports(s) : job.previous = partsOf(known[s].record)
    /\ \A record \in Results(s) : record.failed => record.parts = partsOf(known[s].record)

\* What an import wrote stays, unless its source was removed meanwhile.
Written(s) ==
  \A job \in Imports(s) : job.made # None =>
    \A part \in Makes[job.made.file] \ job.unwritten :
      \/ artifact[<<s, part>>] = job.made
      \/ open /\ known[s] = None /\ artifact[<<s, part>>] = None

\* No artifact is there but those of the record in memory and of the import in flight.
NothingElse(s) ==
  open => \A part \in Parts : artifact[<<s, part>>] # None =>
    \/ part \in partsOf(Kept(s))
    \/ \E job \in Imports(s) : job.made # None /\ part \in Makes[job.made.file] \ job.unwritten
    \/ \E record \in Results(s) : ~record.failed /\ part \in record.parts

\* The file of a source that was removed stays away while its import is not over.
StaysAway(s) ==
  open /\ InFlight(s) =>
    /\ known[s] = None \/ (scan.on /\ s \notin scan.listed) => file[s] = Absent
    /\ known[s] = None => s \notin scan.listed

Sound(s) ==
  /\ Alone(s) /\ Flagged(s) /\ Closed(s) /\ Claimed(s) /\ Recorded(s) /\ Whole(s)
  /\ Offered(s) /\ Keeps(s) /\ Written(s) /\ NothingElse(s)

\* No two reports are of one source.
ReportedOnce == \A i, j \in DOMAIN outcomes : outcomes[i].source = outcomes[j].source => i = j

\* What a job has done by its stage.
WellRun(job) ==
  /\ job.stage \in {"queued", "stamped"} => job.made = None
  /\ job.stage # "queued" => job.stamp # None
  /\ job.made = None => job.unwritten = {} /\ job.stage # "writing"
  /\ job.made # None => /\ Makes[job.made.file] # {}
                        /\ job.unwritten \subseteq Makes[job.made.file]
                        /\ job.made.option = job.option

\* A scan visits what it listed, in an open database.
ScanIsOrderly ==
  /\ ~scan.on => scan = NoScan
  /\ scan.unvisited \subseteq scan.listed
  /\ ~open => scan = NoScan /\ outcomes = <<>>

Inv ==
  /\ TypeOK /\ ReportedOnce /\ ScanIsOrderly
  /\ \A job \in jobs : WellRun(job)
  /\ \A s \in Sources : Sound(s) /\ StaysAway(s)

-----------------------------------------------------------------------------
(* What the operators give. *)

\* What is in flight is a job or a report.
LEMMA InFlightIs ==
  ASSUME NEW s
  PROVE  /\ InFlight(s) <=> Imports(s) # {} \/ Results(s) # {}
         /\ InFlight(s)' <=> Imports(s)' # {} \/ Results(s)' # {}
BY DEF InFlight, Results

\* None is nothing else.
LEMMA NoneIsNone ==
  /\ None \notin Stamps /\ None \notin Contents /\ None \notin Made
  /\ None \notin Record /\ None \notin Source
BY ImportsAssumption DEF Stamps

\* The jobs of a source are those of the queue, of its type.
LEMMA ImportsAreJobs ==
  ASSUME TypeOK, NEW s \in Sources
  PROVE  Imports(s) \subseteq Job /\ Imports(s) \subseteq jobs
BY DEF TypeOK, Imports

\* A step of a job leaves the jobs of the other sources.
LEMMA ImportsReplaced ==
  ASSUME NEW job \in jobs, NEW next, next.source = job.source,
         \A other \in Imports(job.source) : other = job,
         Becomes(job, next)
  PROVE  /\ Imports(job.source) = {job} /\ Imports(job.source)' = {next}
         /\ \A s : s # job.source => Imports(s)' = Imports(s)
BY DEF Becomes, Imports

\* A job that ends was the import of its source, and the imports of other sources stay.
LEMMA ImportsEnded ==
  ASSUME NEW job \in jobs, \A other \in Imports(job.source) : other = job,
         jobs' = jobs \ {job}
  PROVE  /\ Imports(job.source) = {job} /\ Imports(job.source)' = {}
         /\ \A s : s # job.source => Imports(s)' = Imports(s)
BY DEF Imports

\* A source without an import gets the one that is queued, and the imports of other sources stay.
LEMMA ImportsQueued ==
  ASSUME NEW job, Imports(job.source) = {}, jobs' = jobs \cup {job}
  PROVE  /\ Imports(job.source)' = {job}
         /\ \A s : s # job.source => Imports(s)' = Imports(s)
BY DEF Imports

\* The imports of a source are what the jobs say.
LEMMA ImportsSame == ASSUME jobs' = jobs PROVE \A s : Imports(s)' = Imports(s)
BY DEF Imports

\* The reports of a source are what the finished imports say.
LEMMA ResultsSame == ASSUME outcomes' = outcomes PROVE \A s : Results(s)' = Results(s)
BY DEF Results

\* A report adds to those of its source.
LEMMA ResultsReported ==
  ASSUME TypeOK, ReportedOnce, NEW t \in Sources, NEW record \in Record, Results(t) = {},
         outcomes' = Append(outcomes, [source |-> t, record |-> record])
  PROVE  /\ Results(t)' = {record} /\ \A s : s # t => Results(s)' = Results(s)
         /\ ReportedOnce'
<1> DEFINE report == [source |-> t, record |-> record]
           n == Len(outcomes) + 1
<1>1. outcomes \in Seq([source : Sources, record : Record]) /\ report \in [source : Sources, record : Record]
  BY DEF TypeOK
<1>2. /\ DOMAIN outcomes = 1 .. Len(outcomes) /\ Len(outcomes) \in Nat
      /\ DOMAIN outcomes' = 1 .. n
  BY <1>1, LenProperties, AppendProperties
<1>3. outcomes'[n] = report /\ \A i \in DOMAIN outcomes : outcomes'[i] = outcomes[i]
  BY <1>1, <1>2, AppendProperties
<1>4. DOMAIN outcomes' = DOMAIN outcomes \cup {n} /\ n \notin DOMAIN outcomes
  BY <1>2
<1>5. \A i \in DOMAIN outcomes : outcomes[i].source # t
  BY DEF Results
<1>6. report.source = t /\ report.record = record
  OBVIOUS
<1> HIDE DEF report, n
<1>7. Results(t)' = {record}
  BY <1>3, <1>4, <1>5, <1>6 DEF Results
<1>8. ASSUME NEW s, s # t PROVE Results(s)' = Results(s)
  BY <1>3, <1>4, <1>5, <1>6, <1>8 DEF Results
<1>9. ReportedOnce'
  BY <1>3, <1>4, <1>5, <1>6 DEF ReportedOnce
<1> QED
  BY <1>7, <1>8, <1>9

\* The report applied is the one of its source.
LEMMA ResultsApplied ==
  ASSUME TypeOK, ReportedOnce, outcomes # <<>>, outcomes' = Tail(outcomes),
         NEW t, t = Head(outcomes).source
  PROVE  /\ t \in Sources /\ Head(outcomes).record \in Record
         /\ Results(t) = {Head(outcomes).record} /\ Results(t)' = {}
         /\ \A s : s # t => Results(s)' = Results(s)
         /\ ReportedOnce'
         /\ outcomes' \in Seq([source : Sources, record : Record])
<1> DEFINE S == [source : Sources, record : Record]
<1>1. outcomes \in Seq(S)
  BY DEF TypeOK
<1>2. /\ Head(outcomes) \in S /\ Head(outcomes) = outcomes[1] /\ Tail(outcomes) \in Seq(S)
      /\ Len(Tail(outcomes)) = Len(outcomes) - 1
      /\ \A i \in 1 .. Len(Tail(outcomes)) : Tail(outcomes)[i] = outcomes[i + 1]
  <2> HIDE DEF S
  <2>1. Head(outcomes) \in S /\ Tail(outcomes) \in Seq(S)
    BY <1>1, HeadTailProperties
  <2>2. /\ Len(Tail(outcomes)) = Len(outcomes) - 1
        /\ \A i \in 1 .. Len(Tail(outcomes)) : Tail(outcomes)[i] = outcomes[i + 1]
    BY <1>1, HeadTailProperties
  <2>3. Head(outcomes) = outcomes[1]
    BY <1>1
  <2> QED
    BY <2>1, <2>2, <2>3
<1>3. Len(outcomes) \in Nat \ {0} /\ DOMAIN outcomes = 1 .. Len(outcomes)
  BY <1>1, EmptySeq, LenProperties
<1>4. DOMAIN outcomes' = 1 .. Len(outcomes) - 1
  BY <1>2, LenProperties
<1>5. \A i \in DOMAIN outcomes' : i + 1 \in DOMAIN outcomes /\ outcomes'[i] = outcomes[i + 1] /\ i + 1 # 1
  BY <1>2, <1>3, <1>4
<1>6. \A i \in DOMAIN outcomes : i # 1 => i - 1 \in DOMAIN outcomes' /\ outcomes'[i - 1] = outcomes[i]
  BY <1>2, <1>3, <1>4
<1>7. 1 \in DOMAIN outcomes /\ outcomes[1].source = t /\ \A i \in DOMAIN outcomes : outcomes[i].source = t => i = 1
  BY <1>2, <1>3 DEF ReportedOnce
<1>8. t \in Sources /\ Head(outcomes).record \in Record
  BY <1>2
<1>9. Results(t) = {Head(outcomes).record}
  BY <1>2, <1>7 DEF Results
<1>10. Results(t)' = {}
  <2>1. \A i \in DOMAIN outcomes' : outcomes'[i].source # t
    BY <1>5, <1>7
  <2> QED
    BY <2>1 DEF Results
<1>11. ASSUME NEW s, s # t PROVE Results(s)' = Results(s)
  <2>1. \A i \in DOMAIN outcomes' : outcomes'[i].source = s
          => \E j \in DOMAIN outcomes : outcomes[j].source = s /\ outcomes[j] = outcomes'[i]
    <3>1. TAKE i \in DOMAIN outcomes'
    <3> QED
      BY <1>5
  <2>2. \A i \in DOMAIN outcomes : outcomes[i].source = s
          => \E j \in DOMAIN outcomes' : outcomes'[j].source = s /\ outcomes'[j] = outcomes[i]
    BY <1>6, <1>7, <1>11
  <2> QED
    BY <2>1, <2>2 DEF Results
<1>12. ReportedOnce'
  <2>1. SUFFICES ASSUME NEW i \in DOMAIN outcomes', NEW j \in DOMAIN outcomes',
                        outcomes'[i].source = outcomes'[j].source
                 PROVE  i = j
    BY DEF ReportedOnce
  <2>2. i + 1 = j + 1
    BY <1>5, <2>1 DEF ReportedOnce
  <2> QED
    BY <2>2, <1>3, <1>4
<1> QED
  BY <1>1, <1>2, <1>8, <1>9, <1>10, <1>11, <1>12

\* What a record in memory, in the cache or reported is made of.
LEMMA RecordsAreTyped ==
  ASSUME TypeOK, NEW s \in Sources
  PROVE  /\ recordFile[s] \in Record \cup {None} /\ records[s] \in Record \cup {None}
         /\ known[s] \in Source \cup {None}
         /\ known[s] # None => known[s].record \in Record \cup {None}
         /\ Results(s) \subseteq Record
         /\ partsOf(recordFile[s]) \subseteq Parts /\ partsOf(Kept(s)) \subseteq Parts
         /\ known[s] # None => partsOf(known[s].record) \subseteq Parts
<1>1. /\ recordFile[s] \in Record \cup {None} /\ records[s] \in Record \cup {None}
      /\ known[s] \in Source \cup {None}
  BY DEF TypeOK
<1>2. known[s] # None => known[s].record \in Record \cup {None}
  BY <1>1 DEF Source
<1>3. Results(s) \subseteq Record
  <2>1. outcomes \in Seq([source : Sources, record : Record])
    BY DEF TypeOK
  <2>2. \A i \in DOMAIN outcomes : outcomes[i] \in [source : Sources, record : Record]
    BY <2>1, LenProperties, ElementOfSeq
  <2> QED
    BY <2>2 DEF Results
<1>4. \A record \in Record \cup {None} : partsOf(record) \subseteq Parts
  BY DEF partsOf, Record
<1>5. Kept(s) \in Record \cup {None}
  BY <1>1, <1>2 DEF Kept
<1> QED
  BY <1>1, <1>2, <1>3, <1>4, <1>5

\* What is spent was there.
LEMMA SpendingTypes ==
  ASSUME left \in Budget,
         NEW what \in {"changes", "shares", "options", "forces", "holds", "closes", "crashes"},
         Uses(what)
  PROVE  left' \in Budget
<1>1. left[what] \in Nat /\ left[what] > 0
  BY DEF Budget, Uses
<1>2. left[what] - 1 \in Nat
  BY <1>1
<1>3. \A n \in Nat : [left EXCEPT ![what] = n] \in Budget
  BY DEF Budget
<1>4. left' = [left EXCEPT ![what] = left[what] - 1]
  BY DEF Uses
<1> QED
  BY <1>2, <1>3, <1>4

\* A job just queued.
NewJob(job, s, record) ==
  /\ job \in Job /\ job.source = s /\ job.previous = partsOf(record)
  /\ job.stage = "queued" /\ job.stamp = None /\ job.made = None /\ job.unwritten = {}

\* The job queueImport makes is one that has not begun, with the options of its source or those it
\* is given.
LEMMA ImportJobIsNew ==
  ASSUME TypeOK, NEW s \in Sources, NEW record \in Record \cup {None}, Imports(s) = {}
  PROVE  /\ NewJob(ImportJob(s, record), s, record) /\ ImportJob(s, record).option = option[s]
         /\ \A value \in Options :
              /\ NewJob([ImportJob(s, record) EXCEPT !.option = value], s, record)
              /\ [ImportJob(s, record) EXCEPT !.option = value].option = value
<1> DEFINE number == CHOOSE n \in 1..2 : \A job \in Imports(s) : job.number # n
<1>1. number \in 1..2
  BY 1 \in 1..2
<1>2. option[s] \in Options /\ partsOf(record) \in SUBSET Parts
  BY DEF TypeOK, partsOf, Record
<1>3. ImportJob(s, record) =
        [source |-> s, number |-> number, option |-> option[s], previous |-> partsOf(record),
         stage |-> "queued", stamp |-> None, made |-> None, unwritten |-> {}]
  BY DEF ImportJob
<1> HIDE DEF number
<1>4. ImportJob(s, record) \in Job
  BY <1>1, <1>2, <1>3 DEF Job, Stages
<1>5. \A value \in Options : [ImportJob(s, record) EXCEPT !.option = value] \in Job
  BY <1>4 DEF Job
<1> QED
  BY <1>3, <1>4, <1>5 DEF NewJob

\* A job that has not begun has done nothing out of order.
LEMMA NewJobIsWellRun ==
  ASSUME NEW job, NEW s, NEW record, NewJob(job, s, record)
  PROVE  WellRun(job)
BY DEF WellRun, NewJob

\* A source considered keeps its record, and is imported exactly if wanted.
LEMMA ConsideredGives ==
  ASSUME TypeOK, NEW s \in Sources, NEW source \in Source, NEW wanted \in BOOLEAN,
         ~source.importing, ~source.changed, Imports(s) = {},
         Considered(s, source, wanted)
  PROVE  /\ known' \in [Sources -> Source \cup {None}]
         /\ known'[s] \in Source /\ known'[s].record = source.record
         /\ known'[s].importing = wanted /\ ~known'[s].changed
         /\ \A t \in Sources : t # s => known'[t] = known[t]
         /\ IF wanted
            THEN jobs' = jobs \cup {ImportJob(s, source.record)} /\ Imports(s)' = {ImportJob(s, source.record)}
            ELSE jobs' = jobs /\ Imports(s)' = {}
         /\ \A t : t # s => Imports(t)' = Imports(t)
<1>1. Tried(s, source) \in Source /\ Tried(s, source).record = source.record
      /\ Tried(s, source).importing = FALSE /\ Tried(s, source).changed = FALSE
  BY DEF Tried, Source
<1>2. Queued(Tried(s, source)) \in Source /\ Queued(Tried(s, source)).record = source.record
      /\ Queued(Tried(s, source)).importing = TRUE /\ Queued(Tried(s, source)).changed = FALSE
  BY <1>1 DEF Queued, Source
<1>3. known \in [Sources -> Source \cup {None}]
  BY DEF TypeOK
<1>4. source.record \in Record \cup {None}
  BY DEF Source
<1>5. NewJob(ImportJob(s, source.record), s, source.record)
  BY <1>4, ImportJobIsNew
<1>6. CASE wanted
  <2>1. known' = [known EXCEPT ![s] = Queued(Tried(s, source))]
        /\ jobs' = jobs \cup {ImportJob(s, source.record)}
    BY <1>6 DEF Considered
  <2>2. ImportJob(s, source.record).source = s
    BY <1>5 DEF NewJob
  <2>3. Imports(s)' = {ImportJob(s, source.record)} /\ \A t : t # s => Imports(t)' = Imports(t)
    BY <2>1, <2>2 DEF Imports
  <2> QED
    BY <1>2, <1>3, <1>6, <2>1, <2>3
<1>7. CASE ~wanted
  <2>1. known' = [known EXCEPT ![s] = Tried(s, source)] /\ jobs' = jobs
    BY <1>7 DEF Considered
  <2>2. \A t : Imports(t)' = Imports(t)
    BY <2>1, ImportsSame
  <2> QED
    BY <1>1, <1>3, <1>7, <2>1, <2>2
<1> QED
  BY <1>6, <1>7

-----------------------------------------------------------------------------
(* Types. *)

\* The types hold at first.
LEMMA InitTypes == Init => TypeOK
<1> SUFFICES ASSUME Init PROVE TypeOK
  OBVIOUS
<1>1. left \in Budget /\ Usable \subseteq Contents
  BY ImportsAssumption DEF Init, Usable
<1>2. NoScan \in Scan
  BY DEF NoScan, Scan
<1>3. outcomes \in Seq([source : Sources, record : Record])
  BY EmptySeq DEF Init
<1>4. file \in [Sources -> Stamps] /\ shared \in Contents
  BY <1>1 DEF Init
<1>5. /\ option \in [Sources -> Options] /\ artifact \in [Sources \X Parts -> Made \cup {None}]
      /\ recordFile \in [Sources -> Record \cup {None}] /\ records \in [Sources -> Record \cup {None}]
      /\ known \in [Sources -> Source \cup {None}]
  BY DEF Init, Options
<1> QED
  BY <1>1, <1>2, <1>3, <1>4, <1>5 DEF Init, TypeOK

\* What the importer makes.
LEMMA MadeTypes ==
  ASSUME TypeOK, NEW s \in Sources, Succeeds(s)
  PROVE  /\ file[s] \in Contents /\ Makes[file[s]] \in SUBSET Parts /\ Makes[file[s]] # {}
         /\ Current(s) = [file |-> file[s], shared |-> shared, option |-> option[s]]
         /\ Current(s) \in Made
BY ImportsAssumption DEF TypeOK, Succeeds, Usable, Current, Made

\* The record an import writes.
LEMMA RecordOfIs ==
  ASSUME TypeOK, NEW job \in jobs, WellRun(job), job.stage # "queued"
  PROVE  /\ RecordOf(job) \in Record
         /\ RecordOf(job).source = job.stamp /\ RecordOf(job).option = job.option
         /\ RecordOf(job).failed <=> job.made = None
         /\ job.made = None => RecordOf(job).parts = job.previous /\ RecordOf(job).shared = None
         /\ job.made # None => RecordOf(job).parts = Makes[job.made.file] /\ RecordOf(job).shared = shared
         /\ partsOf(RecordOf(job)) = RecordOf(job).parts
<1>1. job \in Job /\ shared \in Contents
  BY DEF TypeOK
<1>2. job.stamp \in Stamps /\ job.option \in Options /\ job.previous \in SUBSET Parts
  BY <1>1 DEF Job, WellRun
<1>3. job.made # None => job.made.file \in Contents /\ Makes[job.made.file] \in SUBSET Parts
  BY <1>1, ImportsAssumption DEF Job, Made
<1>4. CASE job.made = None
  <2>1. RecordOf(job) = [source |-> job.stamp, shared |-> None, option |-> job.option, failed |-> TRUE,
                         parts |-> job.previous]
    BY <1>4 DEF RecordOf
  <2>2. RecordOf(job) \in Record
    BY <1>2, <2>1 DEF Record
  <2>3. RecordOf(job).failed = TRUE
    BY <2>1
  <2>4. partsOf(RecordOf(job)) = RecordOf(job).parts
    BY <2>2, NoneIsNone DEF partsOf
  <2>5. /\ RecordOf(job).source = job.stamp /\ RecordOf(job).option = job.option
        /\ job.made = None => RecordOf(job).parts = job.previous /\ RecordOf(job).shared = None
        /\ job.made # None => RecordOf(job).parts = Makes[job.made.file] /\ RecordOf(job).shared = shared
    BY <1>4, <2>1
  <2> QED
    BY <1>4, <2>2, <2>3, <2>4, <2>5
<1>5. CASE job.made # None
  <2>1. RecordOf(job) = [source |-> job.stamp, shared |-> shared, option |-> job.option, failed |-> FALSE,
                         parts |-> Makes[job.made.file]]
    BY <1>5 DEF RecordOf
  <2>2. RecordOf(job) \in Record
    BY <1>1, <1>2, <1>3, <1>5, <2>1 DEF Record
  <2>3. RecordOf(job).failed = FALSE
    BY <2>1
  <2>4. partsOf(RecordOf(job)) = RecordOf(job).parts
    BY <2>2, NoneIsNone DEF partsOf
  <2>5. /\ RecordOf(job).source = job.stamp /\ RecordOf(job).option = job.option
        /\ job.made = None => RecordOf(job).parts = job.previous /\ RecordOf(job).shared = None
        /\ job.made # None => RecordOf(job).parts = Makes[job.made.file] /\ RecordOf(job).shared = shared
    BY <1>5, <2>1
  <2> QED
    BY <1>5, <2>2, <2>3, <2>4, <2>5
<1> QED
  BY <1>4, <1>5

\* A job that goes on, and what it is then.
LEMMA JobsGoOn ==
  ASSUME TypeOK, NEW job \in jobs, NEW next \in Job, Becomes(job, next)
  PROVE  jobs' \subseteq Job
BY DEF TypeOK, Becomes

\* A job takes the stamp of its source, and nothing else changes in it.
LEMMA stampSourceIs ==
  ASSUME TypeOK, NEW job \in jobs, WellRun(job), stampSource(job)
  PROVE  \E next \in Job :
           /\ Becomes(job, next) /\ WellRun(next)
           /\ next.source = job.source /\ next.previous = job.previous /\ next.option = job.option
           /\ next.stage = "stamped" /\ next.stamp = file[job.source]
           /\ next.made = job.made /\ next.unwritten = job.unwritten
<1> DEFINE next == [job EXCEPT !.stage = "stamped", !.stamp = file[job.source]]
<1>1. job \in Job /\ file[job.source] \in Stamps
  BY DEF TypeOK, Job
<1>2. /\ next \in Job /\ next.source = job.source /\ next.previous = job.previous
      /\ next.option = job.option /\ next.stage = "stamped" /\ next.stamp = file[job.source]
      /\ next.made = job.made /\ next.unwritten = job.unwritten
  BY <1>1 DEF Job, Stages
<1>3. Becomes(job, next) /\ job.stage = "queued"
  BY DEF stampSource
<1> HIDE DEF next
<1>4. WellRun(next)
  BY <1>1, <1>2, <1>3, NoneIsNone DEF WellRun
<1> QED
  BY <1>2, <1>3, <1>4

\* A job reads its source and the shared file as they are, or fails; its artifacts are all to be
\* written.
LEMMA runImporterIs ==
  ASSUME TypeOK, NEW job \in jobs, WellRun(job), runImporter(job)
  PROVE  \E next \in Job :
           /\ Becomes(job, next) /\ WellRun(next)
           /\ next.source = job.source /\ next.previous = job.previous /\ next.option = job.option
           /\ next.stage = "read" /\ next.stamp = job.stamp
           /\ next.made # None => /\ next.made.file = file[job.source] /\ next.made.shared = shared
                                  /\ next.unwritten = Makes[next.made.file]
<1>1. job \in Job /\ job.source \in Sources /\ job.option \in Options
  BY DEF TypeOK, Job
<1>2. job.made = None /\ job.unwritten = {} /\ job.stamp # None
  BY DEF runImporter, WellRun
<1>3. CASE /\ Succeeds(job.source)
           /\ Becomes(job, [job EXCEPT !.stage = "read", !.unwritten = Makes[file[job.source]],
                                       !.made = [Current(job.source) EXCEPT !.option = job.option]])
  <2> DEFINE made == [Current(job.source) EXCEPT !.option = job.option]
             next == [job EXCEPT !.stage = "read", !.unwritten = Makes[file[job.source]], !.made = made]
  <2>1. /\ file[job.source] \in Contents /\ Makes[file[job.source]] \in SUBSET Parts
        /\ Makes[file[job.source]] # {}
        /\ Current(job.source) = [file |-> file[job.source], shared |-> shared, option |-> option[job.source]]
        /\ Current(job.source) \in Made
    BY <1>1, <1>3, MadeTypes
  <2>2. /\ made \in Made /\ made.file = file[job.source] /\ made.shared = shared
        /\ made.option = job.option
    BY <1>1, <2>1 DEF Made
  <2>3. made # None
    BY <2>2, NoneIsNone
  <2>4. Becomes(job, next)
    BY <1>3
  <2> HIDE DEF made
  <2>5. /\ next \in Job /\ next.source = job.source /\ next.previous = job.previous
        /\ next.option = job.option /\ next.stage = "read" /\ next.stamp = job.stamp
        /\ next.made = made /\ next.unwritten = Makes[file[job.source]]
    BY <1>1, <2>1, <2>2 DEF Job, Stages
  <2> HIDE DEF next
  <2>6. WellRun(next)
    BY <1>2, <2>1, <2>2, <2>3, <2>5 DEF WellRun
  <2> QED
    BY <2>2, <2>4, <2>5, <2>6
<1>4. CASE Becomes(job, [job EXCEPT !.stage = "read"])
  <2> DEFINE next == [job EXCEPT !.stage = "read"]
  <2>1. /\ next \in Job /\ next.source = job.source /\ next.previous = job.previous
        /\ next.option = job.option /\ next.stage = "read" /\ next.stamp = job.stamp
        /\ next.made = job.made /\ next.unwritten = job.unwritten
    BY <1>1 DEF Job, Stages
  <2> HIDE DEF next
  <2>2. WellRun(next)
    BY <1>2, <2>1 DEF WellRun
  <2> QED
    BY <1>2, <1>4, <2>1, <2>2 DEF next
<1> QED
  BY <1>3, <1>4 DEF runImporter

\* The part written is the artifact of what was made.
LEMMA writeArtifactIs ==
  ASSUME TypeOK, NEW job \in jobs, WellRun(job), writeArtifact(job)
  PROVE  \E next \in Job, part \in job.unwritten :
           /\ artifact' = [artifact EXCEPT ![<<job.source, part>>] = job.made]
           /\ Becomes(job, next) /\ WellRun(next)
           /\ next.source = job.source /\ next.previous = job.previous /\ next.option = job.option
           /\ next.stage = "writing" /\ next.stamp = job.stamp
           /\ next.made = job.made /\ next.unwritten = job.unwritten \ {part}
           /\ job.made # None /\ job.stage \in {"read", "writing"}
           /\ job.source \in Sources /\ part \in Parts /\ job.made \in Made
<1>1. job \in Job
  BY DEF TypeOK
<1>2. PICK part \in job.unwritten :
        /\ artifact' = [artifact EXCEPT ![<<job.source, part>>] = job.made]
        /\ Becomes(job, [job EXCEPT !.stage = "writing", !.unwritten = @ \ {part}])
  BY DEF writeArtifact
<1> DEFINE next == [job EXCEPT !.stage = "writing", !.unwritten = @ \ {part}]
<1>3. job.made # None /\ job.made \in Made /\ job.stage \in {"read", "writing"}
  BY <1>1, <1>2 DEF WellRun, Job, Stages
<1>4. job.source \in Sources /\ part \in Parts
  BY <1>1, <1>2 DEF Job
<1>5. /\ next \in Job /\ next.source = job.source /\ next.previous = job.previous
      /\ next.option = job.option /\ next.stage = "writing" /\ next.stamp = job.stamp
      /\ next.made = job.made /\ next.unwritten = job.unwritten \ {part}
  BY <1>1 DEF Job, Stages
<1>6. Becomes(job, next)
  BY <1>2
<1> HIDE DEF next
<1>7. WellRun(next)
  BY <1>3, <1>5 DEF WellRun
<1> QED
  BY <1>2, <1>3, <1>4, <1>5, <1>6, <1>7

-----------------------------------------------------------------------------
(* What a step leaves alone stays as it is. *)

\* Nothing changes about a source but its file, its option and how it is scanned.
Untouched(s) ==
  /\ recordFile'[s] = recordFile[s] /\ records'[s] = records[s] /\ known'[s] = known[s]
  /\ \A part \in Parts : /\ artifact'[<<s, part>>] = artifact[<<s, part>>]
                         /\ <<s, part>> \in assets' <=> <<s, part>> \in assets
  /\ Imports(s)' = Imports(s) /\ Results(s)' = Results(s)

\* A source whose part of the state a step leaves alone stays sound.
LEMMA SoundFrame ==
  ASSUME TypeOK, NEW s \in Sources, Sound(s), Untouched(s), open' = open
  PROVE  Sound(s)'
<1>1. /\ partsOf(recordFile[s]) \subseteq Parts /\ partsOf(Kept(s)) \subseteq Parts
      /\ known[s] # None => partsOf(known[s].record) \subseteq Parts
  BY RecordsAreTyped
<1>2. InFlight(s)' <=> InFlight(s)
  BY InFlightIs DEF Untouched
<1>3. Kept(s)' = Kept(s)
  BY DEF Kept, Untouched
<1>4. Alone(s)' /\ Flagged(s)' /\ Closed(s)' /\ Claimed(s)'
  BY <1>2 DEF Sound, Alone, Flagged, Closed, Claimed, Untouched
<1>5. Recorded(s)'
  BY <1>2, <1>3 DEF Sound, Recorded, Untouched
<1>6. Whole(s)'
  BY <1>1, <1>2 DEF Sound, Whole, Untouched
<1>7. Offered(s)'
  BY <1>1 DEF Sound, Offered, Untouched
<1>8. Keeps(s)'
  BY DEF Sound, Keeps, Untouched
<1>9. Written(s)'
  <2>1. \A job \in Imports(s) : job.made # None => Makes[job.made.file] \subseteq Parts
    BY ImportsAreJobs, ImportsAssumption DEF Job, Made
  <2> QED
    BY <2>1 DEF Sound, Written, Untouched
<1>10. NothingElse(s)'
  BY <1>3 DEF Sound, NothingElse, Untouched
<1> QED
  BY <1>4, <1>5, <1>6, <1>7, <1>8, <1>9, <1>10 DEF Sound

\* So does that a removed source stays away while its import runs.
LEMMA StaysFrame ==
  ASSUME NEW s \in Sources, StaysAway(s), InFlight(s)' => InFlight(s),
         open' => open, known'[s] = None <=> known[s] = None, file'[s] = file[s], scan' = scan
  PROVE  StaysAway(s)'
BY DEF StaysAway

\* A source whose import ended, and perhaps began again, with the record the cache has.
LEMMA SoundSettles ==
  ASSUME NEW s \in Sources, NEW job,
         open', known'[s] # None, records'[s] = None, ~known'[s].changed,
         recordFile'[s] = known'[s].record,
         \A part \in Parts : <<s, part>> \in assets' <=> part \in partsOf(known'[s].record),
         \A part \in partsOf(known'[s].record) : artifact'[<<s, part>>] # None,
         \A part \in Parts : artifact'[<<s, part>>] # None => part \in partsOf(known'[s].record),
         Results(s)' = {},
         \/ Imports(s)' = {} /\ known'[s].importing = FALSE
         \/ Imports(s)' = {job} /\ known'[s].importing = TRUE /\ NewJob(job, s, known'[s].record)
  PROVE  Sound(s)'
<1>1. InFlight(s)' <=> Imports(s)' # {}
  BY InFlightIs
<1>2. Kept(s)' = known'[s].record
  BY DEF Kept
<1>3. Alone(s)' /\ Flagged(s)' /\ Closed(s)' /\ Claimed(s)'
  BY <1>1 DEF Alone, Flagged, Closed, Claimed
<1>4. Recorded(s)' /\ Whole(s)' /\ Offered(s)'
  BY <1>1, <1>2 DEF Recorded, Whole, Offered
<1>5. Keeps(s)'
  BY DEF Keeps, NewJob
<1>6. Written(s)' /\ NothingElse(s)'
  BY <1>2 DEF Written, NothingElse, NewJob
<1> QED
  BY <1>3, <1>4, <1>5, <1>6 DEF Sound

\* An import in flight is marked to run again.
LEMMA SoundMarked ==
  ASSUME TypeOK, NEW s \in Sources, Sound(s), open' = open,
         known[s] # None, known[s].importing,
         known'[s] # None, known'[s].importing, known'[s].record = known[s].record,
         recordFile'[s] = recordFile[s], records'[s] = records[s], artifact' = artifact,
         \A part \in Parts : <<s, part>> \in assets' <=> <<s, part>> \in assets,
         Imports(s)' = Imports(s), Results(s)' = Results(s)
  PROVE  Sound(s)'
<1>1. known[s].importing = TRUE /\ InFlight(s)
  BY RecordsAreTyped DEF Sound, Flagged, Source
<1>2. InFlight(s)' <=> InFlight(s)
  BY InFlightIs
<1>3. Kept(s)' = Kept(s) /\ Kept(s) = known[s].record
  BY DEF Kept
<1>4. Alone(s)' /\ Closed(s)' /\ Claimed(s)'
  BY <1>2 DEF Sound, Alone, Closed, Claimed
<1>5. Recorded(s)'
  BY <1>2, <1>3 DEF Sound, Recorded
<1>6. Whole(s)' /\ Offered(s)' /\ Keeps(s)'
  BY <1>2 DEF Sound, Whole, Offered, Keeps
<1>7. Written(s)' /\ NothingElse(s)'
  BY <1>3 DEF Sound, Written, NothingElse
<1>8. known'[s].importing = TRUE => Flagged(s)'
  BY <1>1, <1>2 DEF Flagged
<1> QED
  BY <1>4, <1>5, <1>6, <1>7, <1>8 DEF Sound

-----------------------------------------------------------------------------
(* The import jobs. *)

\* The jobs stay well run as one goes on.
LEMMA JobsStayWell ==
  ASSUME Inv, NEW job \in jobs, NEW next, WellRun(next), Becomes(job, next)
  PROVE  \A other \in jobs' : WellRun(other)
BY DEF Inv, Becomes

\* What the invariant says of a job that runs and of its source.
LEMMA JobIsAlone ==
  ASSUME Inv, NEW job \in jobs
  PROVE  /\ TypeOK /\ job \in Job /\ job.source \in Sources /\ WellRun(job)
         /\ Sound(job.source) /\ StaysAway(job.source)
         /\ job \in Imports(job.source) /\ \A other \in Imports(job.source) : other = job
         /\ Results(job.source) = {} /\ InFlight(job.source)
<1>1. TypeOK /\ job \in Job /\ job.source \in Sources /\ WellRun(job)
  BY DEF Inv, TypeOK, Job
<1>2. Sound(job.source) /\ StaysAway(job.source)
  BY <1>1 DEF Inv
<1>3. job \in Imports(job.source)
  BY DEF Imports
<1> QED
  BY <1>1, <1>2, <1>3, InFlightIs DEF Sound, Alone

\* An import that stamps its source or reads it has written nothing yet.
LEMMA JobAdvances ==
  ASSUME Inv, NEW job \in jobs, NEW next \in Job, Becomes(job, next), WellRun(next), job.made = None,
         next.source = job.source, next.previous = job.previous,
         next.made # None => next.unwritten = Makes[next.made.file],
         UNCHANGED <<disk, cache, memory>>, left' \in Budget
  PROVE  Inv'
<1> USE DEF disk, cache, memory
<1>1. /\ TypeOK /\ job.source \in Sources /\ Sound(job.source) /\ job \in Imports(job.source)
      /\ \A other \in Imports(job.source) : other = job
  BY JobIsAlone
<1>2. /\ Imports(job.source) = {job} /\ Imports(job.source)' = {next}
      /\ \A s : s # job.source => Imports(s)' = Imports(s)
  BY <1>1, ImportsReplaced
<1>3. \A s : Results(s)' = Results(s)
  BY ResultsSame
<1>4. TypeOK' /\ ReportedOnce' /\ ScanIsOrderly'
  BY <1>1, JobsGoOn DEF Inv, TypeOK, ReportedOnce, ScanIsOrderly
<1>5. ASSUME NEW s \in Sources PROVE Sound(s)' /\ StaysAway(s)'
  <2>1. Sound(s) /\ StaysAway(s)
    BY DEF Inv
  <2>2. InFlight(s)' <=> InFlight(s)
    BY <1>2, <1>3, InFlightIs
  <2>3. StaysAway(s)'
    BY <2>1, <2>2, StaysFrame
  <2>4. CASE s # job.source
    BY <1>1, <1>2, <1>3, <2>1, <2>3, <2>4, SoundFrame DEF Untouched
  <2>5. CASE s = job.source
    <3>1. Imports(s) = {job} /\ Imports(s)' = {next} /\ Results(s)' = Results(s)
      BY <1>2, <1>3, <2>5
    <3>2. Kept(s)' = Kept(s)
      BY DEF Kept
    <3>3. Alone(s)' /\ Flagged(s)' /\ Closed(s)' /\ Claimed(s)'
      BY <2>1, <2>2, <3>1 DEF Sound, Alone, Flagged, Closed, Claimed
    <3>4. Recorded(s)' /\ Whole(s)' /\ Offered(s)'
      BY <2>1, <2>2, <3>1, <3>2 DEF Sound, Recorded, Whole, Offered
    <3>5. Keeps(s)' /\ Written(s)'
      BY <2>1, <3>1 DEF Sound, Keeps, Written
    <3>6. NothingElse(s)'
      BY <2>1, <3>1, <3>2 DEF Sound, NothingElse
    <3> QED
      BY <2>3, <3>3, <3>4, <3>5, <3>6 DEF Sound
  <2> QED
    BY <2>4, <2>5
<1> QED
  BY <1>4, <1>5, JobsStayWell DEF Inv

\* A stamp is of the job alone.
LEMMA stampSourceKeepsInv == ASSUME Inv, NEW job \in jobs, stampSource(job) PROVE Inv'
<1>1. TypeOK /\ WellRun(job)
  BY JobIsAlone
<1>2. PICK next \in Job :
        /\ Becomes(job, next) /\ WellRun(next)
        /\ next.source = job.source /\ next.previous = job.previous
        /\ next.made = job.made
  BY <1>1, stampSourceIs
<1>3. job.made = None /\ UNCHANGED <<disk, cache, memory>> /\ left' \in Budget
  BY <1>1 DEF stampSource, WellRun, TypeOK
<1> QED
  BY <1>2, <1>3, JobAdvances

\* So is what an import makes, until it writes.
LEMMA runImporterKeepsInv == ASSUME Inv, NEW job \in jobs, runImporter(job) PROVE Inv'
<1>1. TypeOK /\ WellRun(job)
  BY JobIsAlone
<1>2. PICK next \in Job :
        /\ Becomes(job, next) /\ WellRun(next)
        /\ next.source = job.source /\ next.previous = job.previous
        /\ next.made # None => next.unwritten = Makes[next.made.file]
  BY <1>1, runImporterIs
<1>3. job.made = None /\ UNCHANGED <<disk, cache, memory>>
  BY <1>1 DEF runImporter, WellRun
<1>4. left' \in Budget
  BY <1>1, SpendingTypes DEF runImporter, TypeOK
<1> QED
  BY <1>2, <1>3, <1>4, JobAdvances

\* A cancelled import leaves nothing.
LEMMA cancelledKeepsInv == ASSUME Inv, NEW job \in jobs, cancelled(job) PROVE Inv'
<1> USE DEF disk, cache, memory
<1>1. /\ TypeOK /\ job.source \in Sources /\ Sound(job.source) /\ job \in Imports(job.source)
      /\ \A other \in Imports(job.source) : other = job
  BY JobIsAlone
<1>2. jobs' = jobs \ {job} /\ ~open /\ UNCHANGED <<disk, cache, memory, left>>
  BY DEF cancelled
<1>3. /\ Imports(job.source) = {job} /\ Imports(job.source)' = {}
      /\ \A s : s # job.source => Imports(s)' = Imports(s)
  BY <1>1, <1>2, ImportsEnded
<1>4. \A s : Results(s)' = Results(s)
  BY <1>2, ResultsSame
<1>5. TypeOK' /\ ReportedOnce' /\ ScanIsOrderly'
  BY <1>1, <1>2 DEF Inv, TypeOK, ReportedOnce, ScanIsOrderly
<1>6. ASSUME NEW s \in Sources PROVE Sound(s)' /\ StaysAway(s)'
  <2>1. Sound(s) /\ StaysAway(s)
    BY DEF Inv
  <2>2. StaysAway(s)'
    BY <1>2 DEF StaysAway
  <2>3. CASE s # job.source
    BY <1>1, <1>2, <1>3, <1>4, <2>1, <2>2, <2>3, SoundFrame DEF Untouched
  <2>4. CASE s = job.source
    <3>1. Imports(s)' = {} /\ Results(s)' = Results(s) /\ ~open' /\ known'[s] = None /\ records'[s] = None
          /\ Results(s) = {}
      BY <1>2, <1>3, <1>4, <2>1, <2>4 DEF Sound, Closed
    <3>2. ~InFlight(s)'
      BY <3>1, InFlightIs
    <3>3. Alone(s)' /\ Flagged(s)' /\ Closed(s)' /\ Claimed(s)'
      BY <3>1 DEF Alone, Flagged, Closed, Claimed
    <3>4. Recorded(s)' /\ Whole(s)' /\ Offered(s)'
      BY <1>2, <2>1, <3>1 DEF Sound, Recorded, Whole, Offered
    <3>5. Keeps(s)' /\ Written(s)' /\ NothingElse(s)'
      BY <3>1 DEF Keeps, Written, NothingElse
    <3> QED
      BY <2>2, <3>3, <3>4, <3>5 DEF Sound
  <2> QED
    BY <2>3, <2>4
<1>7. \A other \in jobs' : WellRun(other)
  BY <1>2 DEF Inv
<1> QED
  BY <1>5, <1>6, <1>7 DEF Inv

\* An artifact written is there, and made of what was read.
LEMMA writeArtifactKeepsInv == ASSUME Inv, NEW job \in jobs, writeArtifact(job) PROVE Inv'
<1> USE DEF disk, memory
<1>1. /\ TypeOK /\ job.source \in Sources /\ Sound(job.source) /\ job \in Imports(job.source)
      /\ \A other \in Imports(job.source) : other = job
      /\ WellRun(job)
  BY JobIsAlone
<1>2. PICK next \in Job, part \in job.unwritten :
        /\ artifact' = [artifact EXCEPT ![<<job.source, part>>] = job.made]
        /\ Becomes(job, next) /\ WellRun(next)
        /\ next.source = job.source /\ next.previous = job.previous
        /\ next.made = job.made /\ next.unwritten = job.unwritten \ {part}
        /\ job.made # None
        /\ part \in Parts /\ job.made \in Made
  BY <1>1, writeArtifactIs
<1>3. UNCHANGED <<disk, recordFile, memory, left>>
  BY DEF writeArtifact
<1>4. /\ Imports(job.source) = {job} /\ Imports(job.source)' = {next}
      /\ \A s : s # job.source => Imports(s)' = Imports(s)
  BY <1>1, <1>2, ImportsReplaced
<1>5. \A s : Results(s)' = Results(s)
  BY <1>3, ResultsSame
<1>6. artifact \in [Sources \X Parts -> Made \cup {None}]
  BY <1>1 DEF TypeOK
<1>7. \A s \in Sources, q \in Parts :
        artifact'[<<s, q>>] = IF s = job.source /\ q = part THEN job.made ELSE artifact[<<s, q>>]
  BY <1>1, <1>2, <1>6
<1>8. TypeOK' /\ ReportedOnce' /\ ScanIsOrderly'
  <2>1. artifact' \in [Sources \X Parts -> Made \cup {None}]
    BY <1>2, <1>6
  <2>2. jobs' \subseteq Job
    BY <1>1, <1>2, JobsGoOn
  <2> QED
    BY <1>1, <1>3, <2>1, <2>2 DEF Inv, TypeOK, ReportedOnce, ScanIsOrderly
<1>9. ASSUME NEW s \in Sources PROVE Sound(s)' /\ StaysAway(s)'
  <2>1. Sound(s) /\ StaysAway(s)
    BY DEF Inv
  <2>2. InFlight(s)' <=> InFlight(s)
    BY <1>4, <1>5, InFlightIs
  <2>3. StaysAway(s)'
    BY <1>3, <2>1, <2>2, StaysFrame
  <2>4. CASE s # job.source
    BY <1>1, <1>3, <1>4, <1>5, <1>7, <2>1, <2>3, <2>4, SoundFrame DEF Untouched
  <2>5. CASE s = job.source
    <3>1. Imports(s) = {job} /\ Imports(s)' = {next} /\ Results(s)' = Results(s)
      BY <1>4, <1>5, <2>5
    <3>2. Kept(s)' = Kept(s)
      BY <1>3 DEF Kept
    <3>3. \A q \in Parts : artifact'[<<s, q>>] = IF q = part THEN job.made ELSE artifact[<<s, q>>]
      BY <1>7, <2>5
    <3>4. job.made # None
      BY <1>2
    <3>5. Makes[job.made.file] \subseteq Parts
      BY <1>2, ImportsAssumption DEF Made
    <3>6. /\ partsOf(recordFile[s]) \subseteq Parts
          /\ known[s] # None => partsOf(known[s].record) \subseteq Parts
      BY <1>1, RecordsAreTyped
    <3>7. Alone(s)' /\ Flagged(s)' /\ Closed(s)' /\ Claimed(s)'
      BY <1>3, <2>1, <2>2, <3>1 DEF Sound, Alone, Flagged, Closed, Claimed
    <3>8. Recorded(s)'
      BY <1>3, <2>1, <2>2, <3>1, <3>2 DEF Sound, Recorded
    <3>9. Whole(s)'
      BY <1>3, <2>1, <2>2, <3>3, <3>4, <3>6 DEF Sound, Whole
    <3>10. Offered(s)'
      BY <1>3, <2>1, <3>3, <3>4, <3>6 DEF Sound, Offered
    <3>11. Keeps(s)'
      BY <1>2, <1>3, <2>1, <3>1 DEF Sound, Keeps
    <3>12. Written(s)'
      <4>1. \A q \in Makes[job.made.file] \ next.unwritten : q = part \/ q \in Makes[job.made.file] \ job.unwritten
        BY <1>2
      <4> QED
        BY <1>2, <1>3, <2>1, <3>1, <3>3, <3>4, <3>5, <4>1 DEF Sound, Written
    <3>13. NothingElse(s)'
      <4>1. part \in Makes[job.made.file] \ next.unwritten
        BY <1>1, <1>2, <3>4 DEF WellRun
      <4>2. Makes[job.made.file] \ job.unwritten \subseteq Makes[job.made.file] \ next.unwritten
        BY <1>2
      <4> QED
        BY <1>2, <1>3, <2>1, <3>1, <3>2, <3>3, <3>4, <4>1, <4>2 DEF Sound, NothingElse
    <3> QED
      BY <2>3, <3>7, <3>8, <3>9, <3>10, <3>11, <3>12, <3>13 DEF Sound
  <2> QED
    BY <2>4, <2>5
<1>10. \A other \in jobs' : WellRun(other)
  BY <1>2, JobsStayWell
<1> QED
  BY <1>8, <1>9, <1>10 DEF Inv

\* The record is in the cache, and reported while the database is open.
LEMMA writeRecordKeepsInv == ASSUME Inv, NEW job \in jobs, writeRecord(job) PROVE Inv'
<1> DEFINE record == RecordOf(job)
<1>1. /\ TypeOK /\ job \in Job /\ job.source \in Sources /\ Sound(job.source) /\ StaysAway(job.source)
      /\ job \in Imports(job.source)
      /\ \A other \in Imports(job.source) : other = job
      /\ WellRun(job) /\ Results(job.source) = {} /\ InFlight(job.source)
  BY JobIsAlone
<1>2. /\ job.unwritten = {} /\ job.stage \in {"writing", "read"} /\ (job.stage = "read" => open)
      /\ recordFile' = [recordFile EXCEPT ![job.source] = record]
      /\ outcomes' = IF open THEN Append(outcomes, [source |-> job.source, record |-> record]) ELSE outcomes
      /\ jobs' = jobs \ {job}
      /\ UNCHANGED <<disk, artifact, open, records, known, assets, filesChanged, scan, left>>
  BY DEF writeRecord
<1>3. /\ record \in Record /\ (record.failed <=> job.made = None)
      /\ job.made = None => record.parts = job.previous
      /\ job.made # None => record.parts = Makes[job.made.file]
      /\ partsOf(record) = record.parts
  BY <1>1, <1>2, RecordOfIs
<1> HIDE DEF record
<1>4. /\ Imports(job.source) = {job} /\ Imports(job.source)' = {}
      /\ \A s : s # job.source => Imports(s)' = Imports(s)
  BY <1>1, <1>2, ImportsEnded
<1>5. /\ Results(job.source)' = IF open THEN {record} ELSE {}
      /\ \A s : s # job.source => Results(s)' = Results(s)
      /\ ReportedOnce'
  <2>1. CASE open
    BY <1>1, <1>2, <1>3, <2>1, ResultsReported DEF Inv
  <2>2. CASE ~open
    BY <1>1, <1>2, <2>2, ResultsSame DEF Inv, ReportedOnce
  <2> QED
    BY <2>1, <2>2
<1>6. TypeOK' /\ ScanIsOrderly'
  <2>1. recordFile' \in [Sources -> Record \cup {None}]
    BY <1>1, <1>2, <1>3 DEF TypeOK
  <2>2. outcomes' \in Seq([source : Sources, record : Record])
    <3>1. outcomes \in Seq([source : Sources, record : Record])
          /\ [source |-> job.source, record |-> record] \in [source : Sources, record : Record]
      BY <1>1, <1>3 DEF TypeOK
    <3> QED
      BY <1>2, <3>1, AppendProperties
  <2>3. TypeOK'
    BY <1>1, <1>2, <2>1, <2>2 DEF TypeOK, disk
  <2>4. ScanIsOrderly'
    BY <1>2 DEF Inv, ScanIsOrderly
  <2> QED
    BY <2>3, <2>4
<1>7. ASSUME NEW s \in Sources PROVE Sound(s)' /\ StaysAway(s)'
  <2>1. Sound(s) /\ StaysAway(s)
    BY DEF Inv
  <2>2. open => (InFlight(s)' <=> InFlight(s))
    BY <1>4, <1>5, InFlightIs
  <2>3. StaysAway(s)'
    BY <1>2, <2>1, <2>2 DEF StaysAway, disk
  <2>4. CASE s # job.source
    <3>1. recordFile'[s] = recordFile[s]
      BY <1>1, <1>2, <2>4 DEF TypeOK
    <3> QED
      BY <1>1, <1>2, <1>4, <1>5, <2>1, <2>3, <2>4, <3>1, SoundFrame DEF Untouched
  <2>5. CASE s = job.source
    <3>1. /\ Imports(s) = {job} /\ Imports(s)' = {} /\ Results(s)' = IF open THEN {record} ELSE {}
          /\ Results(s) = {} /\ InFlight(s)
      BY <1>1, <1>4, <1>5, <2>5
    <3>2. recordFile'[s] = record
      BY <1>1, <1>2, <2>5 DEF TypeOK
    <3>3. known[s] # None => open
      BY <2>1 DEF Sound, Closed
    <3>4. job.made # None => record.parts = Makes[job.made.file]
          /\ \A part \in record.parts : artifact[<<s, part>>] = job.made
                                        \/ (open /\ known[s] = None /\ artifact[<<s, part>>] = None)
      BY <1>2, <1>3, <2>1, <3>1 DEF Sound, Written
    <3>5. known[s] # None => job.previous = partsOf(known[s].record)
      BY <2>1, <3>1 DEF Sound, Keeps
    <3>6. Alone(s)' /\ Flagged(s)' /\ Closed(s)' /\ Claimed(s)'
      BY <1>2, <2>1, <2>2, <3>1, <3>3 DEF Sound, Alone, Flagged, Closed, Claimed
    <3>7. Recorded(s)'
      BY <1>2, <2>2, <3>1, <3>2 DEF Recorded
    <3>8. Whole(s)'
      <4>1. SUFFICES ASSUME open => known[s] # None
                     PROVE  \A part \in record.parts : artifact[<<s, part>>] # None
        BY <1>2, <1>3, <2>2, <3>1, <3>2 DEF Whole
      <4>2. CASE job.made = None
        <5>1. known[s] # None
          BY <1>1, <1>2, <4>1, <4>2 DEF WellRun
        <5> QED
          BY <1>3, <2>1, <3>5, <4>2, <5>1 DEF Sound, Offered
      <4>3. CASE job.made # None
        BY <1>1, <3>4, <4>1, <4>3, NoneIsNone DEF Job
      <4> QED
        BY <4>2, <4>3
    <3>9. Offered(s)'
      BY <1>2, <2>1 DEF Sound, Offered
    <3>10. Keeps(s)'
      BY <1>2, <1>3, <3>1, <3>5 DEF Keeps
    <3>11. Written(s)'
      BY <3>1 DEF Written
    <3>12. NothingElse(s)'
      <4>1. Kept(s)' = Kept(s)
        BY <1>2 DEF Kept
      <4> QED
        BY <1>2, <1>3, <2>1, <3>1, <4>1 DEF Sound, NothingElse
    <3> QED
      BY <2>3, <3>6, <3>7, <3>8, <3>9, <3>10, <3>11, <3>12 DEF Sound
  <2> QED
    BY <2>4, <2>5
<1>8. \A other \in jobs' : WellRun(other)
  BY <1>2 DEF Inv
<1> QED
  BY <1>5, <1>6, <1>7, <1>8 DEF Inv

-----------------------------------------------------------------------------
(* The scan of the folder. *)

\* A scan that begins only lists sources.
LEMMA beginScanKeepsInv == ASSUME Inv, beginScan PROVE Inv'
<1> USE DEF disk, cache
<1>1. /\ open /\ ~scan.on /\ filesChanged' = FALSE
      /\ scan' = [on |-> TRUE, opening |-> FALSE, listed |-> Present, unvisited |-> Present]
      /\ UNCHANGED <<disk, cache, open, records, known, assets, jobs, outcomes, left>>
  BY DEF beginScan
<1>2. /\ scan'.on /\ scan'.listed = Present /\ scan'.unvisited = Present /\ scan' \in Scan
      /\ Present \subseteq Sources
  BY <1>1 DEF Scan, Present
<1>3. TypeOK' /\ ReportedOnce' /\ ScanIsOrderly'
  BY <1>1, <1>2 DEF Inv, TypeOK, ReportedOnce, ScanIsOrderly
<1>4. \A s : Imports(s)' = Imports(s) /\ Results(s)' = Results(s)
  BY <1>1, ImportsSame, ResultsSame
<1>5. ASSUME NEW s \in Sources PROVE Sound(s)' /\ StaysAway(s)'
  <2>1. TypeOK /\ Sound(s) /\ StaysAway(s)
    BY DEF Inv
  <2>2. InFlight(s)' <=> InFlight(s)
    BY <1>4, InFlightIs
  <2>3. Sound(s)'
    BY <1>1, <1>4, <2>1, SoundFrame DEF Untouched
  <2>4. StaysAway(s)'
    BY <1>1, <1>2, <2>1, <2>2 DEF StaysAway, Present
  <2> QED
    BY <2>3, <2>4
<1>6. \A job \in jobs' : WellRun(job)
  BY <1>1 DEF Inv
<1> QED
  BY <1>3, <1>5, <1>6 DEF Inv

\* What removeFiles leaves of the sources, of those in S with the record r gives them.
LEMMA RemovesGives ==
  ASSUME TypeOK, NEW S \in SUBSET Sources, NEW r, NEW gone, Removes(gone),
         \A x \in gone : \E s \in S : x.source = s /\ x.record = r[s],
         \A s \in S : \E x \in gone : x.source = s /\ x.record = r[s]
  PROVE  /\ artifact' \in [Sources \X Parts -> Made \cup {None}]
         /\ recordFile' \in [Sources -> Record \cup {None}]
         /\ \A s \in Sources, part \in Parts :
              /\ s \in S /\ part \in r[s].parts => artifact'[<<s, part>>] = None
              /\ ~(s \in S /\ part \in r[s].parts) => artifact'[<<s, part>>] = artifact[<<s, part>>]
         /\ \A s \in Sources : (s \in S => recordFile'[s] = None) /\ (s \notin S => recordFile'[s] = recordFile[s])
<1>1. /\ artifact' = [a \in Sources \X Parts |->
                       IF \E x \in gone : a \in AssetsOf(x.source, x.record.parts) THEN None
                       ELSE artifact[a]]
      /\ recordFile' = [s \in Sources |->
                         IF \E x \in gone : x.source = s THEN None ELSE recordFile[s]]
  BY DEF Removes
<1>2. artifact \in [Sources \X Parts -> Made \cup {None}] /\ recordFile \in [Sources -> Record \cup {None}]
  BY DEF TypeOK
<1>3. artifact' \in [Sources \X Parts -> Made \cup {None}] /\ recordFile' \in [Sources -> Record \cup {None}]
  BY <1>1, <1>2
<1>4. ASSUME NEW s \in Sources, NEW part \in Parts
      PROVE  artifact'[<<s, part>>] = IF s \in S /\ part \in r[s].parts THEN None ELSE artifact[<<s, part>>]
  <2>1. <<s, part>> \in Sources \X Parts
    OBVIOUS
  <2>2. \A x : <<s, part>> \in AssetsOf(x.source, x.record.parts) <=> x.source = s /\ part \in x.record.parts
    BY DEF AssetsOf
  <2>3. (\E x \in gone : <<s, part>> \in AssetsOf(x.source, x.record.parts)) <=> s \in S /\ part \in r[s].parts
    BY <2>2
  <2>4. artifact'[<<s, part>>] = IF \E x \in gone : <<s, part>> \in AssetsOf(x.source, x.record.parts)
                                 THEN None ELSE artifact[<<s, part>>]
    BY <1>1, <2>1
  <2> QED
    BY <2>3, <2>4
<1>5. ASSUME NEW s \in Sources
      PROVE  recordFile'[s] = IF s \in S THEN None ELSE recordFile[s]
  <2>1. (\E x \in gone : x.source = s) <=> s \in S
    OBVIOUS
  <2>2. recordFile'[s] = IF \E x \in gone : x.source = s THEN None ELSE recordFile[s]
    BY <1>1
  <2> QED
    BY <2>1, <2>2
<1> QED
  BY <1>3, <1>4, <1>5

\* needsImport answers yes or no.
LEMMA needsImportIsBoolean == ASSUME NEW s, NEW source PROVE needsImport(s, source) \in BOOLEAN
BY DEF needsImport

\* What is found of a source: it is known, or has the record it claims.
LEMMA FoundIs ==
  ASSUME Inv, NEW s \in Sources, open, known[s] = None => ~InFlight(s)
  PROVE  /\ Found(s) \in Source /\ Found(s).record = Kept(s)
         /\ known[s] # None => Found(s) = known[s]
         /\ Found(s).importing => known[s] # None
         /\ ~Found(s).importing =>
              /\ ~Found(s).changed /\ Imports(s) = {} /\ Results(s) = {}
              /\ recordFile[s] = Kept(s)
              /\ \A part \in partsOf(Kept(s)) : artifact[<<s, part>>] # None
              /\ \A part \in Parts : artifact[<<s, part>>] # None => part \in partsOf(Kept(s))
<1>1. TypeOK /\ Sound(s)
  BY DEF Inv
<1>2. known[s] \in Source \cup {None} /\ records[s] \in Record \cup {None}
  BY <1>1, RecordsAreTyped
<1>3. CASE known[s] = None
  <2>1. Found(s) = [record |-> records[s], importing |-> FALSE, changed |-> FALSE, forced |-> FALSE,
                    retried |-> FALSE]
    BY <1>3 DEF Found
  <2>2. Found(s) \in Source /\ Found(s).record = Kept(s) /\ ~Found(s).importing /\ ~Found(s).changed
    BY <1>2, <1>3, <2>1 DEF Source, Kept
  <2>3. ~InFlight(s) /\ Imports(s) = {} /\ Results(s) = {}
    BY <1>3, InFlightIs
  <2> QED
    BY <1>1, <1>3, <2>2, <2>3 DEF Sound, Recorded, Whole, NothingElse
<1>4. CASE known[s] # None
  <2>1. Found(s) = known[s] /\ Found(s) \in Source /\ Found(s).record = Kept(s)
    BY <1>2, <1>4 DEF Found, Kept
  <2>2. ASSUME ~known[s].importing
        PROVE  ~known[s].changed /\ ~InFlight(s) /\ Imports(s) = {} /\ Results(s) = {}
    BY <1>1, <1>4, <2>2, InFlightIs DEF Sound, Flagged
  <2> QED
    BY <1>1, <1>4, <2>1, <2>2 DEF Sound, Recorded, Whole, NothingElse
<1> QED
  BY <1>3, <1>4

\* A source visited is known from then on.
LEMMA scanFileKeepsInv == ASSUME Inv, NEW s \in Sources, scanFile(s) PROVE Inv'
<1>1. /\ s \in scan.unvisited
      /\ scan' = [scan EXCEPT !.unvisited = scan.unvisited \ {s}]
      /\ records' = IF known[s] = None THEN [records EXCEPT ![s] = None] ELSE records
      /\ assets' = IF known[s] = None THEN assets \cup AssetsOf(s, partsOf(records[s])) ELSE assets
      /\ IF Found(s).importing
         THEN known' = [known EXCEPT ![s].changed = TRUE] /\ jobs' = jobs
         ELSE Considered(s, Found(s), needsImport(s, Found(s)))
      /\ UNCHANGED <<disk, cache, open, filesChanged, outcomes, left>>
  BY DEF scanFile
<1>2. TypeOK /\ Sound(s) /\ StaysAway(s) /\ scan \in Scan
  BY DEF Inv, TypeOK
<1>3. s \in scan.listed /\ scan.on /\ open
  <2>1. scan # NoScan
    BY <1>1 DEF NoScan
  <2> QED
    BY <1>1, <2>1 DEF Inv, ScanIsOrderly
<1>4. known[s] = None => ~InFlight(s)
  BY <1>2, <1>3 DEF StaysAway
<1>5. /\ scan' \in Scan /\ scan'.on = scan.on /\ scan'.listed = scan.listed
      /\ scan'.unvisited = scan.unvisited \ {s}
  BY <1>1, <1>2 DEF Scan
<1>6. known[s] \in Source \cup {None} /\ known \in [Sources -> Source \cup {None}]
      /\ records \in [Sources -> Record \cup {None}]
  BY <1>2 DEF TypeOK
<1>7. /\ Found(s) \in Source /\ Found(s).record = Kept(s)
      /\ known[s] # None => Found(s) = known[s]
      /\ Found(s).importing => known[s] # None
      /\ ~Found(s).importing =>
           /\ ~Found(s).changed /\ Imports(s) = {} /\ Results(s) = {}
           /\ recordFile[s] = Kept(s)
           /\ \A part \in partsOf(Kept(s)) : artifact[<<s, part>>] # None
           /\ \A part \in Parts : artifact[<<s, part>>] # None => part \in partsOf(Kept(s))
  BY <1>3, <1>4, FoundIs
<1>8. /\ \A t : Results(t)' = Results(t)
      /\ records'[s] = None
      /\ \A t \in Sources : t # s => records'[t] = records[t]
      /\ records' \in [Sources -> Record \cup {None}]
  <2>1. known[s] # None => records[s] = None
    BY <1>2, <1>3 DEF Sound, Claimed
  <2> QED
    BY <1>1, <1>6, <2>1, ResultsSame
<1>9. /\ assets' \subseteq Sources \X Parts
      /\ \A part \in Parts : <<s, part>> \in assets' <=> part \in partsOf(Kept(s))
      /\ \A t \in Sources, part \in Parts : t # s => (<<t, part>> \in assets' <=> <<t, part>> \in assets)
  <2>1. partsOf(Kept(s)) \subseteq Parts /\ assets \subseteq Sources \X Parts
    BY <1>2, RecordsAreTyped DEF TypeOK
  <2>2. CASE known[s] = None
    <3>1. Kept(s) = records[s] /\ assets' = assets \cup ({s} \X partsOf(records[s]))
      BY <1>1, <2>2 DEF Kept, AssetsOf
    <3>2. \A part \in Parts : <<s, part>> \notin assets
      BY <1>2, <2>2 DEF Sound, Offered
    <3> QED
      BY <2>1, <3>1, <3>2
  <2>3. CASE known[s] # None
    BY <1>1, <1>2, <2>1, <2>3 DEF Sound, Offered, Kept
  <2> QED
    BY <2>2, <2>3
<1>10. /\ known' \in [Sources -> Source \cup {None}] /\ known'[s] # None
       /\ \A t \in Sources : t # s => known'[t] = known[t]
       /\ \A t : t # s => Imports(t)' = Imports(t)
       /\ jobs' \subseteq Job /\ \A job \in jobs' : WellRun(job)
       /\ Sound(s)'
  <2>1. CASE Found(s).importing
    <3>1. known[s] # None /\ known[s].importing /\ known[s] \in Source
      BY <1>6, <1>7, <2>1
    <3>2. known' = [known EXCEPT ![s] = [known[s] EXCEPT !.changed = TRUE]] /\ jobs' = jobs
      BY <1>1, <2>1
    <3>3. /\ [known[s] EXCEPT !.changed = TRUE] \in Source
          /\ [known[s] EXCEPT !.changed = TRUE].importing = known[s].importing
          /\ [known[s] EXCEPT !.changed = TRUE].record = known[s].record
      BY <3>1 DEF Source
    <3>4. /\ known' \in [Sources -> Source \cup {None}] /\ known'[s] # None
          /\ \A t \in Sources : t # s => known'[t] = known[t]
          /\ known'[s].importing /\ known'[s].record = known[s].record
      BY <1>6, <3>1, <3>2, <3>3, NoneIsNone
    <3>5. \A t : Imports(t)' = Imports(t)
      BY <3>2, ImportsSame
    <3>6. Sound(s)'
      BY <1>1, <1>2, <1>8, <3>1, <3>4, <3>5, SoundMarked DEF cache
    <3> QED
      BY <1>2, <3>2, <3>4, <3>5, <3>6 DEF Inv, TypeOK
  <2>2. CASE ~Found(s).importing
    <3> DEFINE wanted == needsImport(s, Found(s))
               job == ImportJob(s, Found(s).record)
    <3>1. wanted \in BOOLEAN /\ Considered(s, Found(s), wanted)
      BY <1>1, <2>2, needsImportIsBoolean
    <3>2. Found(s).record \in Record \cup {None}
      BY <1>7 DEF Source
    <3>3. NewJob(job, s, Found(s).record)
      BY <1>2, <1>7, <2>2, <3>2, ImportJobIsNew
    <3> HIDE DEF wanted
    <3>4. /\ known' \in [Sources -> Source \cup {None}]
          /\ known'[s] \in Source /\ known'[s].record = Found(s).record
          /\ known'[s].importing = wanted /\ ~known'[s].changed
          /\ \A t \in Sources : t # s => known'[t] = known[t]
          /\ IF wanted
             THEN jobs' = jobs \cup {job} /\ Imports(s)' = {job}
             ELSE jobs' = jobs /\ Imports(s)' = {}
          /\ \A t : t # s => Imports(t)' = Imports(t)
      BY <1>2, <1>7, <2>2, <3>1, ConsideredGives
    <3> HIDE DEF job
    <3>5. jobs' \subseteq Job /\ \A other \in jobs' : WellRun(other)
      BY <1>2, <3>3, <3>4, NewJobIsWellRun DEF Inv, TypeOK, NewJob
    <3>6. known'[s] # None /\ known'[s].record = Kept(s)
      BY <1>7, <3>4, NoneIsNone
    <3>7. /\ Results(s)' = {}
          /\ recordFile'[s] = known'[s].record
          /\ artifact' = artifact
      BY <1>1, <1>7, <1>8, <2>2, <3>6 DEF cache
    <3>8. \/ Imports(s)' = {} /\ known'[s].importing = FALSE
          \/ Imports(s)' = {job} /\ known'[s].importing = TRUE /\ NewJob(job, s, known'[s].record)
      BY <3>1, <3>3, <3>4
    <3>9. Sound(s)'
      BY <1>1, <1>3, <1>7, <1>8, <1>9, <2>2, <3>4, <3>6, <3>7, <3>8, SoundSettles
    <3> QED
      BY <3>4, <3>5, <3>6, <3>9
  <2> QED
    BY <2>1, <2>2
<1>11. TypeOK' /\ ReportedOnce' /\ ScanIsOrderly'
  <2>1. TypeOK'
    BY <1>1, <1>2, <1>5, <1>8, <1>9, <1>10 DEF TypeOK, disk, cache
  <2>2. ReportedOnce' /\ ScanIsOrderly'
    BY <1>1, <1>3, <1>5 DEF Inv, ReportedOnce, ScanIsOrderly
  <2> QED
    BY <2>1, <2>2
<1>12. ASSUME NEW t \in Sources PROVE Sound(t)' /\ StaysAway(t)'
  <2>1. Sound(t) /\ StaysAway(t)
    BY DEF Inv
  <2>2. CASE t # s
    <3>1. Sound(t)'
      BY <1>1, <1>2, <1>8, <1>9, <1>10, <2>1, <2>2, SoundFrame DEF Untouched, cache
    <3>2. InFlight(t)' <=> InFlight(t)
      BY <1>8, <1>10, <2>2, InFlightIs
    <3>3. StaysAway(t)'
      BY <1>1, <1>5, <1>10, <2>1, <2>2, <3>2 DEF StaysAway, disk
    <3> QED
      BY <3>1, <3>3
  <2>3. CASE t = s
    BY <1>3, <1>5, <1>10, <2>3 DEF StaysAway
  <2> QED
    BY <2>2, <2>3
<1> QED
  BY <1>10, <1>11, <1>12 DEF Inv

\* A source the scan did not see goes, with its assets, its record and its artifacts.
LEMMA endScanKeepsInv == ASSUME Inv, endScan PROVE Inv'
<1> DEFINE unseen == {s \in Sources \ scan.listed : known[s] # None}
           recorded == {s \in unseen : known[s].record # None}
           gone == {[source |-> s, record |-> known[s].record] : s \in recorded}
<1>1. /\ scan.on /\ scan.unvisited = {} /\ scan' = NoScan
      /\ known' = [s \in Sources |-> IF s \in unseen THEN None ELSE known[s]]
      /\ assets' = assets \ UNION {AssetsOf(s, known[s].record.parts) : s \in recorded}
      /\ Removes(gone)
      /\ UNCHANGED <<disk, open, records, filesChanged, jobs, outcomes, left>>
  BY DEF endScan
<1>2. TypeOK /\ open /\ \A s \in Sources : Sound(s) /\ StaysAway(s)
  BY <1>1 DEF Inv, ScanIsOrderly, NoScan
<1>3. /\ artifact' \in [Sources \X Parts -> Made \cup {None}]
      /\ recordFile' \in [Sources -> Record \cup {None}]
      /\ \A s \in Sources, part \in Parts :
           /\ s \in recorded /\ part \in known[s].record.parts => artifact'[<<s, part>>] = None
           /\ ~(s \in recorded /\ part \in known[s].record.parts) => artifact'[<<s, part>>] = artifact[<<s, part>>]
      /\ \A s \in Sources : (s \in recorded => recordFile'[s] = None) /\ (s \notin recorded => recordFile'[s] = recordFile[s])
  <2> DEFINE r == [s \in Sources |-> known[s].record]
  <2>1. recorded \in SUBSET Sources /\ \A s \in Sources : r[s] = known[s].record
    OBVIOUS
  <2> HIDE DEF recorded
  <2>2. \A s \in recorded : \E x \in gone : x.source = s /\ x.record = r[s]
    <3>1. TAKE s \in recorded
    <3>2. [source |-> s, record |-> known[s].record] \in gone
      BY <3>1
    <3> HIDE DEF gone, r
    <3> QED
      BY <2>1, <3>2
  <2>3. \A x \in gone : \E s \in recorded : x.source = s /\ x.record = r[s]
    <3>1. TAKE x \in gone
    <3>2. PICK s \in recorded : x = [source |-> s, record |-> known[s].record]
      BY <3>1
    <3> HIDE DEF gone, r
    <3> QED
      BY <2>1, <3>2
  <2>4. Removes(gone) /\ TypeOK
    BY <1>1, <1>2
  <2> HIDE DEF gone, r, unseen
  <2>5. /\ artifact' \in [Sources \X Parts -> Made \cup {None}]
        /\ recordFile' \in [Sources -> Record \cup {None}]
        /\ \A s \in Sources, part \in Parts :
             /\ s \in recorded /\ part \in r[s].parts => artifact'[<<s, part>>] = None
             /\ ~(s \in recorded /\ part \in r[s].parts) => artifact'[<<s, part>>] = artifact[<<s, part>>]
        /\ \A s \in Sources : (s \in recorded => recordFile'[s] = None) /\ (s \notin recorded => recordFile'[s] = recordFile[s])
    BY <2>1, <2>2, <2>3, <2>4, RemovesGives
  <2> QED
    BY <2>1, <2>5
<1>6. \A s \in Sources, part \in Parts :
        <<s, part>> \in assets' <=> <<s, part>> \in assets /\ ~(s \in recorded /\ part \in known[s].record.parts)
  BY <1>1 DEF AssetsOf
<1>7. \A s \in Sources : known'[s] = IF s \in unseen THEN None ELSE known[s]
  BY <1>1
<1>8. \A s : Imports(s)' = Imports(s) /\ Results(s)' = Results(s)
  BY <1>1, ImportsSame, ResultsSame
<1>9. TypeOK' /\ ReportedOnce' /\ ScanIsOrderly'
  <2>1. known \in [Sources -> Source \cup {None}]
    BY <1>2 DEF TypeOK
  <2>2. known' \in [Sources -> Source \cup {None}]
    BY <1>1, <2>1
  <2>3. scan' \in Scan /\ assets' \subseteq Sources \X Parts
    BY <1>1, <1>2 DEF Scan, NoScan, TypeOK
  <2>4. TypeOK'
    BY <1>1, <1>2, <1>3, <2>2, <2>3 DEF TypeOK, disk
  <2> QED
    BY <1>1, <1>2, <2>4 DEF Inv, ReportedOnce, ScanIsOrderly, NoScan
<1>10. ASSUME NEW s \in Sources PROVE Sound(s)' /\ StaysAway(s)'
  <2>1. Sound(s) /\ StaysAway(s) /\ (InFlight(s)' <=> InFlight(s)) /\ Imports(s)' = Imports(s)
        /\ Results(s)' = Results(s) /\ open' = open /\ records'[s] = records[s]
    BY <1>1, <1>2, <1>8, InFlightIs
  <2>2. StaysAway(s)'
    <3>1. ~scan'.on /\ scan'.listed = {} /\ file' = file
      BY <1>1 DEF NoScan, disk
    <3>2. known'[s] = None => known[s] = None \/ s \notin scan.listed
      BY <1>7
    <3> QED
      BY <1>1, <1>2, <2>1, <3>1, <3>2 DEF StaysAway
  <2>3. CASE s \notin unseen
    <3>1. s \notin recorded /\ known'[s] = known[s]
      BY <1>7, <2>3
    <3> HIDE DEF recorded, unseen
    <3>2. Untouched(s)
      BY <1>3, <1>6, <2>1, <3>1 DEF Untouched
    <3> QED
      BY <1>2, <2>1, <2>2, <3>2, SoundFrame
  <2>4. CASE s \in unseen
    <3>1. known[s] # None /\ known'[s] = None /\ records[s] = None
      BY <1>2, <1>7, <2>1, <2>4 DEF Sound, Claimed
    <3>2. /\ \A part \in Parts :
               artifact'[<<s, part>>] = IF part \in partsOf(known[s].record) THEN None ELSE artifact[<<s, part>>]
          /\ known[s].record = None => recordFile'[s] = recordFile[s]
          /\ known[s].record # None => recordFile'[s] = None
          /\ \A part \in Parts : <<s, part>> \notin assets'
      <4>1. s \in recorded <=> known[s].record # None
        BY <2>4
      <4> HIDE DEF recorded, unseen
      <4>2. \A part \in Parts : <<s, part>> \in assets <=> part \in partsOf(known[s].record)
        BY <2>1, <3>1 DEF Sound, Offered
      <4>3. \A part \in Parts :
              /\ s \in recorded /\ part \in known[s].record.parts => artifact'[<<s, part>>] = None
              /\ ~(s \in recorded /\ part \in known[s].record.parts) => artifact'[<<s, part>>] = artifact[<<s, part>>]
        BY <1>3
      <4>4. (s \in recorded => recordFile'[s] = None) /\ (s \notin recorded => recordFile'[s] = recordFile[s])
        BY <1>3
      <4>5. \A part \in Parts :
              <<s, part>> \in assets' <=> <<s, part>> \in assets /\ ~(s \in recorded /\ part \in known[s].record.parts)
        BY <1>6
      <4>6. \A part : part \in partsOf(known[s].record) <=> s \in recorded /\ part \in known[s].record.parts
        BY <4>1 DEF partsOf
      <4>7. \A part \in Parts : <<s, part>> \notin assets'
        BY <4>2, <4>5, <4>6
      <4>8. ASSUME NEW part \in Parts
            PROVE  artifact'[<<s, part>>] = IF part \in partsOf(known[s].record) THEN None ELSE artifact[<<s, part>>]
        BY <4>3, <4>6
      <4> QED
        BY <4>1, <4>4, <4>7, <4>8
    <3> HIDE DEF recorded, unseen
    <3>3. Kept(s)' = None /\ Kept(s) = known[s].record /\ partsOf(None) = {}
      BY <2>1, <3>1 DEF Kept, partsOf
    <3>4. ~InFlight(s) => recordFile'[s] = None
      BY <1>2, <2>1, <3>2, <3>3 DEF Sound, Recorded
    <3>5. Alone(s)' /\ Flagged(s)' /\ Closed(s)' /\ Claimed(s)'
      BY <1>2, <2>1, <3>1 DEF Sound, Alone, Flagged, Closed, Claimed
    <3>6. Recorded(s)' /\ Keeps(s)'
      BY <2>1, <3>1, <3>3, <3>4 DEF Recorded, Keeps
    <3>7. Whole(s)'
      BY <1>2, <2>1, <3>1, <3>3, <3>4 DEF Whole
    <3>8. Offered(s)'
      BY <3>1, <3>2 DEF Offered
    <3>9. Written(s)'
      <4>1. \A job \in Imports(s) : job.made # None => Makes[job.made.file] \subseteq Parts
        BY <1>2, ImportsAreJobs, ImportsAssumption DEF Job, Made
      <4>2. \A part \in Parts : artifact'[<<s, part>>] = artifact[<<s, part>>] \/ artifact'[<<s, part>>] = None
        BY <3>2, <3>3
      <4> QED
        BY <1>2, <2>1, <3>1, <4>1, <4>2 DEF Sound, Written
    <3>10. NothingElse(s)'
      <4>1. ASSUME NEW part \in Parts, artifact'[<<s, part>>] # None
            PROVE  artifact[<<s, part>>] # None /\ part \notin partsOf(known[s].record)
        BY <3>2, <3>3, <4>1
      <4> QED
        BY <1>2, <2>1, <3>3, <4>1 DEF Sound, NothingElse
    <3> QED
      BY <2>2, <3>5, <3>6, <3>7, <3>8, <3>9, <3>10 DEF Sound
  <2> QED
    BY <2>3, <2>4
<1>11. \A job \in jobs' : WellRun(job)
  BY <1>1 DEF Inv
<1> QED
  BY <1>9, <1>10, <1>11 DEF Inv

-----------------------------------------------------------------------------
(* What the main thread does between two scans. *)

\* The report of a source that is gone removes the files of its import.
LEMMA applyToNothingKeepsInv ==
  ASSUME Inv, applyOutcome, known[Head(outcomes).source] = None
  PROVE  Inv'
<1>1. PICK t : t = Head(outcomes).source
  OBVIOUS
<1>2. /\ open /\ ~scan.on /\ outcomes # <<>> /\ outcomes' = Tail(outcomes)
      /\ Removes({Head(outcomes)})
      /\ UNCHANGED <<known, assets, jobs, disk, open, records, filesChanged, scan, left>>
  BY DEF applyOutcome, applyToNothing
<1>3. TypeOK /\ \A s \in Sources : Sound(s) /\ StaysAway(s)
  BY DEF Inv
<1>4. /\ t \in Sources /\ Head(outcomes).record \in Record
      /\ Results(t) = {Head(outcomes).record} /\ Results(t)' = {}
      /\ \A s : s # t => Results(s)' = Results(s)
      /\ ReportedOnce'
      /\ outcomes' \in Seq([source : Sources, record : Record])
  BY <1>1, <1>2, <1>3, ResultsApplied DEF Inv
<1>5. /\ artifact' \in [Sources \X Parts -> Made \cup {None}]
      /\ recordFile' \in [Sources -> Record \cup {None}]
      /\ \A s \in Sources, part \in Parts :
           artifact'[<<s, part>>] = IF s = t /\ part \in Head(outcomes).record.parts
                                    THEN None ELSE artifact[<<s, part>>]
      /\ \A s \in Sources : recordFile'[s] = IF s = t THEN None ELSE recordFile[s]
  <2> DEFINE gone == {Head(outcomes)}
             r == [s \in Sources |-> Head(outcomes).record]
  <2>1. /\ Removes(gone) /\ {t} \in SUBSET Sources /\ \A s \in Sources : r[s] = Head(outcomes).record
        /\ \A x \in gone : \E s \in {t} : x.source = s /\ x.record = r[s]
        /\ \A s \in {t} : \E x \in gone : x.source = s /\ x.record = r[s]
    BY <1>1, <1>2, <1>4
  <2> HIDE DEF gone, r
  <2>2. /\ artifact' \in [Sources \X Parts -> Made \cup {None}]
        /\ recordFile' \in [Sources -> Record \cup {None}]
        /\ \A s \in Sources, part \in Parts :
             /\ s \in {t} /\ part \in r[s].parts => artifact'[<<s, part>>] = None
             /\ ~(s \in {t} /\ part \in r[s].parts) => artifact'[<<s, part>>] = artifact[<<s, part>>]
        /\ \A s \in Sources : (s \in {t} => recordFile'[s] = None) /\ (s \notin {t} => recordFile'[s] = recordFile[s])
    BY <1>3, <2>1, RemovesGives
  <2>3. ASSUME NEW s \in Sources, NEW part \in Parts
        PROVE  artifact'[<<s, part>>] = IF s = t /\ part \in Head(outcomes).record.parts
                                        THEN None ELSE artifact[<<s, part>>]
    <3>1. r[s] = Head(outcomes).record /\ (s \in {t} <=> s = t)
      BY <2>1
    <3> QED
      BY <2>2, <3>1
  <2>4. ASSUME NEW s \in Sources
        PROVE  recordFile'[s] = IF s = t THEN None ELSE recordFile[s]
    BY <2>2
  <2> QED
    BY <2>2, <2>3, <2>4
<1>6. \A s : Imports(s)' = Imports(s)
  BY <1>2, ImportsSame
<1>7. TypeOK' /\ ScanIsOrderly'
  BY <1>2, <1>3, <1>4, <1>5 DEF Inv, TypeOK, ScanIsOrderly, disk
<1>8. ASSUME NEW s \in Sources PROVE Sound(s)' /\ StaysAway(s)'
  <2>1. Sound(s) /\ StaysAway(s)
    BY <1>3
  <2>2. InFlight(s)' => InFlight(s)
    BY <1>4, <1>6, InFlightIs
  <2>3. StaysAway(s)'
    BY <1>2, <2>1, <2>2, StaysFrame DEF disk
  <2>4. CASE s # t
    BY <1>2, <1>3, <1>4, <1>5, <1>6, <2>1, <2>3, <2>4, SoundFrame DEF Untouched
  <2>5. CASE s = t
    <3>1. known[s] = None /\ known'[s] = None /\ InFlight(s) /\ Results(s)' = {}
      BY <1>1, <1>2, <1>4, <2>5, InFlightIs
    <3>2. records[s] = None /\ Imports(s) = {} /\ Imports(s)' = {}
      BY <1>2, <1>4, <1>6, <2>1, <2>5, <3>1 DEF Sound, Claimed, Alone
    <3>3. ~InFlight(s)' /\ recordFile'[s] = None /\ partsOf(None) = {}
      BY <1>5, <2>5, <3>1, <3>2, InFlightIs DEF partsOf
    <3>4. Kept(s) = None /\ Kept(s)' = None
      BY <1>2, <3>1, <3>2 DEF Kept
    <3>5. Alone(s)' /\ Flagged(s)' /\ Closed(s)' /\ Claimed(s)'
      BY <1>2, <3>1, <3>2, <3>3 DEF Alone, Flagged, Closed, Claimed
    <3>6. Recorded(s)' /\ Whole(s)' /\ Keeps(s)' /\ Written(s)'
      BY <3>1, <3>2, <3>3, <3>4 DEF Recorded, Whole, Keeps, Written
    <3>7. Offered(s)'
      BY <1>2, <2>1, <3>1 DEF Sound, Offered
    <3>8. NothingElse(s)'
      BY <1>2, <1>4, <1>5, <2>1, <2>5, <3>2, <3>3, <3>4 DEF Sound, NothingElse
    <3> QED
      BY <2>3, <3>5, <3>6, <3>7, <3>8 DEF Sound
  <2> QED
    BY <2>4, <2>5
<1>9. \A job \in jobs' : WellRun(job)
  BY <1>2 DEF Inv
<1> QED
  BY <1>4, <1>7, <1>8, <1>9 DEF Inv

\* The report of a source replaces its record; a success replaces its assets.
LEMMA applyToSourceKeepsInv ==
  ASSUME Inv, applyOutcome, known[Head(outcomes).source] # None
  PROVE  Inv'
<1>1. PICK t : t = Head(outcomes).source
  OBVIOUS
<1>2. PICK record : record = Head(outcomes).record
  OBVIOUS
<1> DEFINE source == [known[t] EXCEPT !.importing = FALSE, !.record = record]
           fresh == [source EXCEPT !.changed = FALSE]
           dropped == IF record.failed THEN {} ELSE AssetsOf(t, partsOf(known[t].record) \ record.parts)
           wanted == source.changed /\ needsImport(t, source)
           job == ImportJob(t, record)
<1>3. /\ open /\ ~scan.on /\ outcomes # <<>> /\ outcomes' = Tail(outcomes)
      /\ known[t] # None
      /\ artifact' = [a \in Sources \X Parts |-> IF a \in dropped THEN None ELSE artifact[a]]
      /\ assets' = IF record.failed THEN assets ELSE (assets \ dropped) \cup AssetsOf(t, record.parts)
      /\ IF source.changed
         THEN Considered(t, fresh, needsImport(t, source))
         ELSE known' = [known EXCEPT ![t] = source] /\ jobs' = jobs
      /\ UNCHANGED <<recordFile, disk, open, records, filesChanged, scan, left>>
  BY <1>1, <1>2 DEF applyOutcome, applyToSource
<1>4. TypeOK /\ \A s \in Sources : Sound(s) /\ StaysAway(s)
  BY DEF Inv
<1>5. /\ t \in Sources /\ record \in Record
      /\ Results(t) = {record} /\ Results(t)' = {}
      /\ \A s : s # t => Results(s)' = Results(s)
      /\ ReportedOnce'
      /\ outcomes' \in Seq([source : Sources, record : Record])
  BY <1>1, <1>2, <1>3, <1>4, ResultsApplied DEF Inv
<1>6. /\ Imports(t) = {} /\ recordFile[t] = record /\ records[t] = None
      /\ partsOf(record) = record.parts /\ record.parts \subseteq Parts
      /\ record.failed => record.parts = partsOf(known[t].record)
  <2>1. Sound(t) /\ record # None
    BY <1>4, <1>5, NoneIsNone
  <2> QED
    BY <1>3, <1>5, <2>1 DEF Sound, Alone, Recorded, Claimed, Keeps, partsOf, Record
<1>7. /\ known[t] \in Source /\ known \in [Sources -> Source \cup {None}]
      /\ artifact \in [Sources \X Parts -> Made \cup {None}]
      /\ assets \subseteq Sources \X Parts /\ partsOf(known[t].record) \subseteq Parts
  BY <1>3, <1>4, <1>5, RecordsAreTyped DEF TypeOK
<1>8. /\ source \in Source /\ source.record = record /\ source.importing = FALSE
      /\ source.changed = known[t].changed
  BY <1>5, <1>7 DEF Source
<1>9. /\ fresh \in Source /\ fresh.record = record /\ fresh.importing = FALSE /\ fresh.changed = FALSE
  BY <1>8 DEF Source
<1>10. \A s \in Sources, part \in Parts :
         artifact'[<<s, part>>] =
           IF s = t /\ ~record.failed /\ part \in partsOf(known[t].record) /\ part \notin record.parts
           THEN None ELSE artifact[<<s, part>>]
  <2>1. \A s \in Sources, part \in Parts : <<s, part>> \in dropped <=>
          s = t /\ ~record.failed /\ part \in partsOf(known[t].record) /\ part \notin record.parts
    BY DEF AssetsOf
  <2> HIDE DEF dropped
  <2> QED
    BY <1>3, <2>1
<1>11. artifact' \in [Sources \X Parts -> Made \cup {None}] /\ assets' \subseteq Sources \X Parts
  <2>1. artifact' \in [Sources \X Parts -> Made \cup {None}]
    <3> HIDE DEF dropped
    <3> QED
      BY <1>3, <1>7
  <2>2. assets' \subseteq Sources \X Parts
    BY <1>3, <1>5, <1>6, <1>7 DEF AssetsOf
  <2> QED
    BY <2>1, <2>2
<1>12. /\ \A s \in Sources, part \in Parts : s # t => (<<s, part>> \in assets' <=> <<s, part>> \in assets)
       /\ \A part \in Parts : <<t, part>> \in assets' <=> part \in record.parts
  <2>1. \A part \in Parts : <<t, part>> \in assets <=> part \in partsOf(known[t].record)
    BY <1>3, <1>4, <1>5 DEF Sound, Offered
  <2>2. CASE record.failed
    BY <1>3, <1>6, <2>1, <2>2
  <2>3. CASE ~record.failed
    BY <1>3, <1>5, <1>7, <2>1, <2>3 DEF AssetsOf
  <2> QED
    BY <2>2, <2>3
<1>13. /\ \A part \in record.parts : artifact'[<<t, part>>] # None
       /\ \A part \in Parts : artifact'[<<t, part>>] # None => part \in record.parts
  <2>1. \A part \in record.parts : artifact[<<t, part>>] # None
    BY <1>3, <1>4, <1>5, <1>6 DEF Sound, Whole
  <2>2. \A part \in Parts : artifact[<<t, part>>] # None =>
          part \in partsOf(known[t].record) \/ (~record.failed /\ part \in record.parts)
    <3>1. Kept(t) = known[t].record
      BY <1>3 DEF Kept
    <3>2. NothingElse(t)
      BY <1>4, <1>5 DEF Sound
    <3> QED
      BY <1>3, <1>5, <1>6, <3>1, <3>2 DEF NothingElse
  <2> QED
    BY <1>5, <1>6, <1>10, <2>1, <2>2
<1>14. NewJob(job, t, record)
  BY <1>4, <1>5, <1>6, ImportJobIsNew
<1>15. /\ known' \in [Sources -> Source \cup {None}]
       /\ known'[t] \in Source /\ known'[t].record = record
       /\ known'[t].importing = wanted /\ ~known'[t].changed
       /\ \A s \in Sources : s # t => known'[s] = known[s]
       /\ IF wanted
          THEN jobs' = jobs \cup {job} /\ Imports(t)' = {job}
          ELSE jobs' = jobs /\ Imports(t)' = {}
       /\ \A s : s # t => Imports(s)' = Imports(s)
       /\ wanted \in BOOLEAN
  <2>1. needsImport(t, source) \in BOOLEAN
    BY needsImportIsBoolean
  <2>2. CASE source.changed
    <3>1. wanted = needsImport(t, source) /\ wanted \in BOOLEAN
      BY <2>1, <2>2
    <3>2. Considered(t, fresh, wanted)
      BY <1>3, <2>2, <3>1
    <3> HIDE DEF wanted, fresh
    <3> QED
      BY <1>4, <1>5, <1>6, <1>9, <3>1, <3>2, ConsideredGives
  <2>3. CASE ~source.changed
    <3>1. wanted = FALSE /\ known' = [known EXCEPT ![t] = source] /\ jobs' = jobs
      BY <1>3, <2>3
    <3>2. \A s : Imports(s)' = Imports(s)
      BY <3>1, ImportsSame
    <3> HIDE DEF wanted, source
    <3> QED
      BY <1>5, <1>6, <1>7, <1>8, <2>3, <3>1, <3>2
  <2> QED
    BY <2>2, <2>3
<1> HIDE DEF source, fresh, dropped, wanted, job
<1>16. jobs' \subseteq Job /\ \A other \in jobs' : WellRun(other)
  BY <1>4, <1>14, <1>15, NewJobIsWellRun DEF Inv, TypeOK, NewJob
<1>17. TypeOK' /\ ScanIsOrderly'
  BY <1>3, <1>4, <1>5, <1>11, <1>15, <1>16 DEF Inv, TypeOK, ScanIsOrderly, disk
<1>18. ASSUME NEW s \in Sources PROVE Sound(s)' /\ StaysAway(s)'
  <2>1. Sound(s) /\ StaysAway(s)
    BY <1>4
  <2>2. CASE s # t
    <3>1. Sound(s)'
      BY <1>3, <1>4, <1>5, <1>10, <1>12, <1>15, <2>1, <2>2, SoundFrame DEF Untouched
    <3>2. InFlight(s)' => InFlight(s)
      BY <1>5, <1>15, <2>2, InFlightIs
    <3>3. StaysAway(s)'
      BY <1>3, <1>15, <2>1, <2>2, <3>2, StaysFrame DEF disk
    <3> QED
      BY <3>1, <3>3
  <2>3. CASE s = t
    <3>1. known'[t] # None
      BY <1>15, NoneIsNone
    <3>2. StaysAway(s)'
      BY <1>3, <2>3, <3>1 DEF StaysAway
    <3>3. \/ Imports(t)' = {} /\ known'[t].importing = FALSE
          \/ Imports(t)' = {job} /\ known'[t].importing = TRUE /\ NewJob(job, t, known'[t].record)
      BY <1>14, <1>15
    <3>4. /\ records'[t] = None /\ recordFile'[t] = known'[t].record /\ open'
          /\ partsOf(known'[t].record) = record.parts
      BY <1>3, <1>6, <1>15
    <3>5. /\ \A part \in Parts : <<t, part>> \in assets' <=> part \in partsOf(known'[t].record)
          /\ \A part \in partsOf(known'[t].record) : artifact'[<<t, part>>] # None
          /\ \A part \in Parts : artifact'[<<t, part>>] # None => part \in partsOf(known'[t].record)
      BY <1>12, <1>13, <3>4
    <3>6. Results(t)' = {} /\ ~known'[t].changed
      BY <1>5, <1>15
    <3>7. Sound(t)'
      BY <1>5, <3>1, <3>3, <3>4, <3>5, <3>6, SoundSettles
    <3> QED
      BY <2>3, <3>2, <3>7
  <2> QED
    BY <2>2, <2>3
<1> QED
  BY <1>5, <1>16, <1>17, <1>18 DEF Inv

\* An import asked for is queued, or the one in flight is marked to run again.
LEMMA AgainKeepsInv ==
  ASSUME Inv, NEW s \in Sources, NEW job, open, ~scan.on, known[s] # None,
         known[s].importing =>
           known' = [known EXCEPT ![s].forced = TRUE, ![s].changed = TRUE] /\ jobs' = jobs,
         ~known[s].importing =>
           known' = [known EXCEPT ![s] = Queued(known[s])] /\ jobs' = jobs \cup {job},
         Imports(s) = {} => NewJob(job, s, known[s].record),
         option' \in [Sources -> Options], filesChanged' \in BOOLEAN, left' \in Budget,
         UNCHANGED <<file, shared, cache, open, records, assets, scan, outcomes>>
  PROVE  Inv'
<1> USE DEF cache
<1>1. TypeOK /\ \A t \in Sources : Sound(t) /\ StaysAway(t)
  BY DEF Inv
<1>2. known \in [Sources -> Source \cup {None}] /\ known[s] \in Source
  BY <1>1 DEF TypeOK
<1>3. \A t : Results(t)' = Results(t)
  BY ResultsSame
<1>4. CASE known[s].importing
  <2> DEFINE marked == [[known[s] EXCEPT !.forced = TRUE] EXCEPT !.changed = TRUE]
  <2>1. marked \in Source /\ marked.importing = known[s].importing /\ marked.record = known[s].record
    BY <1>2 DEF Source
  <2>2. known' = [known EXCEPT ![s] = marked] /\ jobs' = jobs
    BY <1>2, <1>4
  <2> HIDE DEF marked
  <2>3. /\ known' \in [Sources -> Source \cup {None}] /\ known'[s] = marked /\ known'[s] # None
        /\ \A t \in Sources : t # s => known'[t] = known[t]
    BY <1>2, <2>1, <2>2, NoneIsNone
  <2>4. \A t : Imports(t)' = Imports(t)
    BY <2>2, ImportsSame
  <2>5. TypeOK' /\ ReportedOnce' /\ ScanIsOrderly' /\ \A other \in jobs' : WellRun(other)
    BY <1>1, <2>2, <2>3 DEF Inv, TypeOK, ReportedOnce, ScanIsOrderly
  <2>6. ASSUME NEW t \in Sources PROVE Sound(t)' /\ StaysAway(t)'
    <3>1. Sound(t) /\ StaysAway(t) /\ (InFlight(t)' => InFlight(t))
      BY <1>1, <1>3, <2>4, InFlightIs
    <3>2. known'[t] = None <=> known[t] = None
      BY <2>3
    <3>3. StaysAway(t)'
      BY <3>1, <3>2, StaysFrame
    <3>4. CASE t # s
      BY <1>1, <1>3, <2>3, <2>4, <3>1, <3>3, <3>4, SoundFrame DEF Untouched
    <3>5. CASE t = s
      <4>1. Sound(s)'
        BY <1>1, <1>3, <1>4, <2>1, <2>3, <2>4, SoundMarked
      <4> QED
        BY <3>3, <3>5, <4>1
    <3> QED
      BY <3>4, <3>5
  <2> QED
    BY <2>5, <2>6 DEF Inv
<1>5. CASE ~known[s].importing
  <2>1. known' = [known EXCEPT ![s] = Queued(known[s])] /\ jobs' = jobs \cup {job}
    BY <1>5
  <2>2. /\ Queued(known[s]) \in Source /\ Queued(known[s]).record = known[s].record
        /\ Queued(known[s]).importing = TRUE /\ Queued(known[s]).changed = FALSE
    BY <1>2 DEF Queued, Source
  <2>3. /\ known' \in [Sources -> Source \cup {None}] /\ known'[s] = Queued(known[s]) /\ known'[s] # None
        /\ \A t \in Sources : t # s => known'[t] = known[t]
    BY <1>2, <2>1, <2>2, NoneIsNone
  <2>4. ~InFlight(s) /\ Imports(s) = {} /\ Results(s) = {}
    BY <1>1, <1>5, InFlightIs DEF Sound, Flagged
  <2>5. NewJob(job, s, known[s].record) /\ job.source = s /\ job \in Job
    BY <2>4 DEF NewJob
  <2>6. Imports(s)' = {job} /\ \A t : t # s => Imports(t)' = Imports(t)
    BY <2>1, <2>4, <2>5, ImportsQueued
  <2>7. jobs' \subseteq Job /\ \A other \in jobs' : WellRun(other)
    BY <1>1, <2>1, <2>5, NewJobIsWellRun DEF Inv, TypeOK
  <2>8. TypeOK' /\ ReportedOnce' /\ ScanIsOrderly'
    BY <1>1, <2>3, <2>7 DEF Inv, TypeOK, ReportedOnce, ScanIsOrderly
  <2>9. ASSUME NEW t \in Sources PROVE Sound(t)' /\ StaysAway(t)'
    <3>1. Sound(t) /\ StaysAway(t)
      BY <1>1
    <3>2. CASE t # s
      <4>1. InFlight(t)' => InFlight(t)
        BY <1>3, <2>6, <3>2, InFlightIs
      <4>2. StaysAway(t)'
        BY <2>3, <3>1, <3>2, <4>1, StaysFrame
      <4>3. Sound(t)'
        BY <1>1, <1>3, <2>3, <2>6, <3>1, <3>2, SoundFrame DEF Untouched
      <4> QED
        BY <4>2, <4>3
    <3>3. CASE t = s
      <4>1. StaysAway(t)'
        BY <2>3, <3>3 DEF StaysAway
      <4>2. Kept(s) = known[s].record
        BY DEF Kept
      <4>3. /\ recordFile'[s] = known'[s].record
            /\ records'[s] = None
            /\ \A part \in Parts : <<s, part>> \in assets' <=> part \in partsOf(known'[s].record)
            /\ \A part \in partsOf(known'[s].record) : artifact'[<<s, part>>] # None
        BY <1>1, <2>2, <2>3, <2>4, <4>2 DEF Sound, Recorded, Claimed, Offered
      <4>4. \A part \in Parts : artifact'[<<s, part>>] # None => part \in partsOf(known'[s].record)
        BY <1>1, <2>2, <2>3, <2>4, <4>2 DEF Sound, NothingElse
      <4>5. NewJob(job, s, known'[s].record) /\ known'[s].importing = TRUE /\ ~known'[s].changed
        BY <2>2, <2>3, <2>5
      <4>6. Results(s)' = {}
        BY <1>3, <2>4
      <4>7. Sound(s)'
        BY <2>3, <2>6, <4>3, <4>4, <4>5, <4>6, SoundSettles
      <4> QED
        BY <3>3, <4>1, <4>7
    <3> QED
      BY <3>2, <3>3
  <2> QED
    BY <2>7, <2>8, <2>9 DEF Inv
<1> QED
  BY <1>4, <1>5

\* A source that is imported on request is imported once: a running import remembers the change.
LEMMA reimportKeepsInv == ASSUME Inv, NEW s \in Sources, reimport(s) PROVE Inv'
<1> DEFINE job == ImportJob(s, known[s].record)
<1>1. /\ open /\ ~scan.on /\ known[s] # None /\ Uses("forces")
      /\ known[s].importing =>
           known' = [known EXCEPT ![s].forced = TRUE, ![s].changed = TRUE] /\ jobs' = jobs
      /\ ~known[s].importing =>
           known' = [known EXCEPT ![s] = Queued(known[s])] /\ jobs' = jobs \cup {job}
      /\ UNCHANGED <<disk, cache, open, records, assets, filesChanged, scan, outcomes>>
  BY DEF reimport, Again
<1>2. TypeOK
  BY DEF Inv
<1>3. Imports(s) = {} => NewJob(job, s, known[s].record)
  BY <1>1, <1>2, RecordsAreTyped, ImportJobIsNew
<1>4. left' \in Budget
  BY <1>1, <1>2, SpendingTypes DEF TypeOK
<1>5. /\ option' \in [Sources -> Options] /\ filesChanged' \in BOOLEAN
      /\ UNCHANGED <<file, shared, cache, open, records, assets, scan, outcomes>>
  BY <1>1, <1>2 DEF TypeOK, disk
<1> HIDE DEF job
<1> QED
  BY <1>1, <1>3, <1>4, <1>5, AgainKeepsInv

\* New options import a source again, in the same way.
LEMMA setImportOptionsKeepsInv == ASSUME Inv, NEW s \in Sources, setImportOptions(s) PROVE Inv'
<1>1. PICK value \in Options : 
      /\ option' = [option EXCEPT ![s] = value]
      /\ IF known[s].importing
         THEN /\ known' = [known EXCEPT ![s].forced = TRUE, ![s].changed = TRUE]
              /\ UNCHANGED jobs
         ELSE /\ known' = [known EXCEPT ![s] = Queued(known[s])]
              /\ jobs' = jobs \cup {[ImportJob(s, known[s].record) EXCEPT !.option = value]}
  BY DEF setImportOptions
<1> DEFINE job == [ImportJob(s, known[s].record) EXCEPT !.option = value]
<1>2. /\ open /\ ~scan.on /\ known[s] # None /\ Uses("options") /\ filesChanged' = TRUE
      /\ known[s].importing =>
           known' = [known EXCEPT ![s].forced = TRUE, ![s].changed = TRUE] /\ jobs' = jobs
      /\ ~known[s].importing =>
           known' = [known EXCEPT ![s] = Queued(known[s])] /\ jobs' = jobs \cup {job}
      /\ UNCHANGED <<file, shared, cache, open, records, assets, scan, outcomes>>
  BY <1>1 DEF setImportOptions
<1>3. TypeOK
  BY DEF Inv
<1>4. Imports(s) = {} => NewJob(job, s, known[s].record)
  BY <1>2, <1>3, RecordsAreTyped, ImportJobIsNew
<1>5. left' \in Budget
  BY <1>2, <1>3, SpendingTypes DEF TypeOK
<1>6. option' \in [Sources -> Options] /\ filesChanged' \in BOOLEAN
  BY <1>1, <1>2, <1>3 DEF TypeOK
<1> HIDE DEF job
<1> QED
  BY <1>2, <1>4, <1>5, <1>6, AgainKeepsInv

-----------------------------------------------------------------------------
(* The program opens and closes the database, or crashes, and the files change. *)

\* The records of the cache are read again, and their artifacts kept.
LEMMA initializeKeepsInv == ASSUME Inv, initialize PROVE Inv'
<1>1. /\ ~open /\ jobs = {} /\ open' /\ records' = recordFile
      /\ artifact' = [a \in Sources \X Parts |-> IF a \in Cited THEN artifact[a] ELSE None]
      /\ scan' = [on |-> TRUE, opening |-> TRUE, listed |-> Present, unvisited |-> Present]
      /\ UNCHANGED <<disk, recordFile, known, assets, filesChanged, jobs, outcomes, left>>
      /\ open' \in BOOLEAN
  BY DEF initialize
<1>2. TypeOK /\ \A s \in Sources : Sound(s)
  BY DEF Inv
<1>3. scan' \in Scan /\ scan'.on /\ scan'.unvisited \subseteq scan'.listed
  BY <1>1 DEF Scan, Present
<1>4. artifact' \in [Sources \X Parts -> Made \cup {None}]
  BY <1>1, <1>2 DEF TypeOK
<1>5. TypeOK' /\ ReportedOnce' /\ ScanIsOrderly'
  BY <1>1, <1>2, <1>3, <1>4 DEF Inv, TypeOK, ReportedOnce, ScanIsOrderly, disk
<1>6. \A s \in Sources, part \in Parts :
        artifact'[<<s, part>>] = IF part \in partsOf(recordFile[s]) THEN artifact[<<s, part>>] ELSE None
  <2>1. ASSUME NEW s \in Sources, NEW part \in Parts
        PROVE  <<s, part>> \in Cited <=> part \in partsOf(recordFile[s])
    BY DEF Cited, AssetsOf
  <2> QED
    BY <1>1, <2>1
<1>7. ASSUME NEW s \in Sources PROVE Sound(s)' /\ StaysAway(s)'
  <2>1. Sound(s) /\ known[s] = None /\ known'[s] = None /\ Results(s) = {} /\ Results(s)' = {}
    BY <1>1, <1>2, ResultsSame DEF Sound, Closed
  <2>2. Imports(s) = {} /\ Imports(s)' = {} /\ ~InFlight(s)'
    BY <1>1, <2>1, InFlightIs DEF Imports
  <2>3. Kept(s)' = recordFile[s] /\ recordFile'[s] = recordFile[s]
    BY <1>1, <2>1 DEF Kept
  <2>4. Alone(s)' /\ Flagged(s)' /\ Closed(s)' /\ Claimed(s)'
    BY <1>1, <2>1, <2>2 DEF Alone, Flagged, Closed, Claimed
  <2>5. Recorded(s)' /\ Keeps(s)' /\ Written(s)' /\ StaysAway(s)'
    BY <2>1, <2>2, <2>3 DEF Recorded, Keeps, Written, StaysAway
  <2>6. Whole(s)'
    <3>1. partsOf(recordFile[s]) \subseteq Parts
      BY <1>2, RecordsAreTyped
    <3> QED
      BY <1>1, <1>6, <2>1, <2>3, <3>1 DEF Sound, Whole
  <2>7. Offered(s)'
    BY <1>1, <2>1 DEF Sound, Offered
  <2>8. NothingElse(s)'
    BY <1>6, <2>3 DEF NothingElse
  <2> QED
    BY <2>4, <2>5, <2>6, <2>7, <2>8 DEF Sound
<1>8. \A job \in jobs' : WellRun(job)
  BY <1>1
<1> QED
  BY <1>5, <1>7, <1>8 DEF Inv

\* No source leaves or returns while its import runs.
NoneAstray == {"returns", "gone"} \cap Surprises = {}

\* What the program leaves: the cache, and the jobs that still run unless it crashed.
LEMMA ForgetsKeepsInv ==
  ASSUME Inv, Forgets, \A s \in Sources : known[s] = None => ~InFlight(s),
         jobs' \subseteq jobs, left' \in Budget
  PROVE  Inv'
<1>1. /\ open /\ open' = FALSE
      /\ records' = [s \in Sources |-> None] /\ known' = [s \in Sources |-> None]
      /\ assets' = {} /\ filesChanged' = FALSE /\ scan' = NoScan /\ outcomes' = <<>>
      /\ UNCHANGED <<disk, cache>>
  BY DEF Forgets
<1>2. TypeOK /\ \A s \in Sources : Sound(s)
  BY DEF Inv
<1>3. TypeOK' /\ ReportedOnce' /\ ScanIsOrderly'
  <2>1. scan' \in Scan /\ scan'.unvisited \subseteq scan'.listed
    BY <1>1 DEF Scan, NoScan
  <2>2. outcomes' \in Seq([source : Sources, record : Record]) /\ DOMAIN outcomes' = {}
    BY <1>1, EmptySeq
  <2> QED
    BY <1>1, <1>2, <2>1, <2>2 DEF Inv, TypeOK, ReportedOnce, ScanIsOrderly, disk, cache
<1>4. ASSUME NEW s \in Sources PROVE Sound(s)' /\ StaysAway(s)'
  <2>1. Sound(s) /\ known'[s] = None /\ records'[s] = None
    BY <1>1, <1>2
  <2>2. Imports(s)' \subseteq Imports(s) /\ Results(s)' = {}
    BY <1>1, EmptySeq DEF Imports, Results
  <2>3. Imports(s) # {} => known[s] # None
    BY InFlightIs
  <2>4. Alone(s)' /\ Flagged(s)' /\ Closed(s)' /\ Claimed(s)'
    BY <1>1, <2>1, <2>2 DEF Sound, Alone, Flagged, Closed, Claimed
  <2>5. Recorded(s)' /\ Keeps(s)' /\ NothingElse(s)' /\ StaysAway(s)' /\ Offered(s)'
    BY <1>1, <2>1 DEF Recorded, Keeps, NothingElse, StaysAway, Offered
  <2>6. Whole(s)'
    BY <1>1, <2>1 DEF Sound, Whole, cache
  <2>7. Written(s)'
    BY <1>1, <2>1, <2>2, <2>3 DEF Sound, Written, cache
  <2> QED
    BY <2>4, <2>5, <2>6, <2>7 DEF Sound
<1>5. \A job \in jobs' : WellRun(job)
  BY DEF Inv
<1> QED
  BY <1>3, <1>4, <1>5 DEF Inv

\* A database that closes forgets what it knew; jobs that have begun to write are of sources it
\* knew.
LEMMA closeKeepsInv == ASSUME Inv, NoneAstray, close PROVE Inv'
<1>1. Forgets /\ jobs' = jobs /\ Uses("closes") /\ \A s \in Sources : known[s] = None => ~InFlight(s)
  BY DEF close, Orphans, NoneAstray
<1>2. left' \in Budget
  BY <1>1, SpendingTypes DEF Inv, TypeOK
<1> QED
  BY <1>1, <1>2, ForgetsKeepsInv

\* A crash ends the jobs and leaves the cache: the record in it cites what was written before it.
LEMMA CrashKeepsInv == ASSUME Inv, NoneAstray, Crash PROVE Inv'
<1>1. Forgets /\ jobs' = {} /\ Uses("crashes") /\ \A s \in Sources : known[s] = None => ~InFlight(s)
  BY DEF Crash, Orphans, NoneAstray
<1>2. left' \in Budget
  BY <1>1, SpendingTypes DEF Inv, TypeOK
<1> QED
  BY <1>1, <1>2, ForgetsKeepsInv

\* The files change under the program, but for one that returns while its import runs.
LEMMA FilesKeepInv ==
  ASSUME Inv, file' \in [Sources -> Stamps], shared' \in Contents, filesChanged' \in BOOLEAN, left' \in Budget,
         \A s \in Sources : file'[s] # file[s] => ~Returns(s),
         UNCHANGED <<option, cache, open, records, known, assets, scan, jobs, outcomes>>
  PROVE  Inv'
<1> USE DEF cache
<1>1. TypeOK' /\ ReportedOnce' /\ ScanIsOrderly'
  BY DEF Inv, TypeOK, ReportedOnce, ScanIsOrderly
<1>2. \A s : Imports(s)' = Imports(s) /\ Results(s)' = Results(s)
  BY ImportsSame, ResultsSame
<1>3. ASSUME NEW s \in Sources PROVE Sound(s)' /\ StaysAway(s)'
  <2>1. TypeOK /\ Sound(s) /\ StaysAway(s) /\ (InFlight(s)' <=> InFlight(s))
    BY <1>2, InFlightIs DEF Inv
  <2>2. Sound(s)'
    BY <1>2, <2>1, SoundFrame DEF Untouched
  <2>3. StaysAway(s)'
    BY <2>1 DEF StaysAway, Returns
  <2> QED
    BY <2>2, <2>3
<1>4. \A job \in jobs' : WellRun(job)
  BY DEF Inv
<1> QED
  BY <1>1, <1>3, <1>4 DEF Inv

\* Another program changes a file, but brings none back while its import runs.
LEMMA changeFileKeepsInv == ASSUME Inv, NoneAstray, NEW s \in Sources, changeFile(s) PROVE Inv'
<1>1. PICK content \in Stamps : file' = [file EXCEPT ![s] = content]
  BY DEF changeFile
<1>2. /\ ~Returns(s) /\ Uses("changes") /\ Told
      /\ UNCHANGED <<shared, option, cache, open, records, known, assets, scan, jobs, outcomes>>
  BY DEF changeFile, NoneAstray
<1>3. TypeOK /\ left' \in Budget
  BY <1>2, SpendingTypes DEF Inv, TypeOK
<1>4. /\ file' \in [Sources -> Stamps] /\ shared' \in Contents
      /\ \A t \in Sources : file'[t] # file[t] => t = s
      /\ filesChanged' \in BOOLEAN
  BY <1>1, <1>2, <1>3 DEF TypeOK, Told
<1> QED
  BY <1>2, <1>3, <1>4, FilesKeepInv

\* What the shared file holds is no part of the invariant.
LEMMA changeSharedKeepsInv == ASSUME Inv, changeShared PROVE Inv'
<1>1. /\ shared' \in Contents /\ Uses("shares") /\ Told
      /\ UNCHANGED <<file, option, cache, open, records, known, assets, scan, jobs, outcomes>>
  BY DEF changeShared
<1>2. TypeOK /\ left' \in Budget
  BY <1>1, SpendingTypes DEF Inv, TypeOK
<1>3. file' \in [Sources -> Stamps] /\ file' = file /\ filesChanged' \in BOOLEAN
  BY <1>1, <1>2 DEF TypeOK, Told
<1> QED
  BY <1>1, <1>2, <1>3, FilesKeepInv

-----------------------------------------------------------------------------
(* The invariants. *)

\* An empty cache and a closed database are as the invariant says.
LEMMA InitKeepsInv == Init => Inv
<1> SUFFICES ASSUME Init PROVE Inv
  OBVIOUS
<1>1. TypeOK
  BY InitTypes
<1>2. DOMAIN outcomes = {}
  BY EmptySeq DEF Init
<1>3. ReportedOnce /\ ScanIsOrderly /\ \A job \in jobs : WellRun(job)
  BY <1>2 DEF Init, ReportedOnce, ScanIsOrderly, NoScan
<1>4. ASSUME NEW s \in Sources PROVE Sound(s) /\ StaysAway(s)
  <2>1. Imports(s) = {} /\ Results(s) = {} /\ ~open /\ known[s] = None /\ records[s] = None
        /\ recordFile[s] = None /\ assets = {}
    BY <1>2 DEF Init, Imports, Results
  <2>2. Alone(s) /\ Flagged(s) /\ Closed(s) /\ Claimed(s)
    BY <2>1 DEF Alone, Flagged, Closed, Claimed
  <2>3. Recorded(s) /\ Whole(s) /\ Offered(s) /\ Keeps(s) /\ Written(s) /\ NothingElse(s) /\ StaysAway(s)
    BY <2>1 DEF Recorded, Whole, Offered, Keeps, Written, NothingElse, StaysAway, partsOf
  <2> QED
    BY <2>2, <2>3 DEF Sound
<1> QED
  BY <1>1, <1>3, <1>4 DEF Inv

\* Every step keeps the invariant: one lemma above for each action.
LEMMA NextKeepsInv == ASSUME Inv, NoneAstray, [Next]_vars PROVE Inv'
<1>1. CASE Work
  <2>1. PICK job \in jobs :
          \/ stampSource(job) \/ runImporter(job) \/ cancelled(job) \/ writeArtifact(job) \/ writeRecord(job)
    BY <1>1 DEF Work
  <2> QED
    BY <2>1, stampSourceKeepsInv, runImporterKeepsInv, cancelledKeepsInv, writeArtifactKeepsInv,
       writeRecordKeepsInv
<1>2. CASE update
  BY <1>2, beginScanKeepsInv, scanFileKeepsInv, endScanKeepsInv, applyToNothingKeepsInv,
     applyToSourceKeepsInv DEF update
<1>3. CASE initialize \/ close \/ Crash \/ changeShared
  BY <1>3, initializeKeepsInv, closeKeepsInv, CrashKeepsInv, changeSharedKeepsInv
<1>4. CASE \E s \in Sources : reimport(s) \/ setImportOptions(s) \/ changeFile(s)
  BY <1>4, reimportKeepsInv, setImportOptionsKeepsInv, changeFileKeepsInv
<1>5. CASE UNCHANGED vars
  <2>1. TypeOK' /\ ReportedOnce' /\ ScanIsOrderly' /\ \A job \in jobs' : WellRun(job)
    BY <1>5 DEF Inv, TypeOK, ReportedOnce, ScanIsOrderly, vars
  <2>2. \A s : Imports(s)' = Imports(s) /\ Results(s)' = Results(s)
    BY <1>5, ImportsSame, ResultsSame DEF vars
  <2>3. ASSUME NEW s \in Sources PROVE Sound(s)' /\ StaysAway(s)'
    <3>1. TypeOK /\ Sound(s) /\ StaysAway(s) /\ (InFlight(s)' <=> InFlight(s))
      BY <2>2, InFlightIs DEF Inv
    <3> QED
      BY <1>5, <2>2, <3>1, SoundFrame, StaysFrame DEF Untouched, vars
  <2> QED
    BY <2>1, <2>3 DEF Inv
<1> QED
  BY <1>1, <1>2, <1>3, <1>4, <1>5 DEF Next

\* The inductive invariant holds of every run in which no source leaves or returns while its import
\* runs: one import of a source at a time, the record of the cache being the one in memory or the one
\* reported, the artifacts it cites being there, and no others (runImport, applyOutcome, refresh).
THEOREM Invariant == ASSUME NoneAstray PROVE Spec => []Inv
<1>1. Init => Inv
  BY InitKeepsInv
<1>2. Inv /\ [Next]_vars => Inv'
  BY NextKeepsInv
<1> QED
  BY <1>1, <1>2, PTL DEF Spec

\* The variables hold values of their types: the records, the sources and the jobs are ones the code
\* builds, and an import of a source is numbered among two.
THEOREM TypeCorrect == ASSUME NoneAstray PROVE Spec => []TypeOK
<1>1. Inv => TypeOK
  BY DEF Inv
<1> QED
  BY <1>1, Invariant, PTL

\* What the database offers can be loaded at every moment, for every project and however often it is
\* closed, crashes and opens again (publishArtifacts, removeFiles, writeRecord).
THEOREM OfferedAreThere == ASSUME NoneAstray PROVE Spec => []AssetsCanBeLoaded
<1>1. Inv => AssetsCanBeLoaded
  <2> SUFFICES ASSUME Inv, NEW a \in assets PROVE artifact[a] # None
    BY DEF AssetsCanBeLoaded
  <2>1. PICK s \in Sources, part \in Parts : a = <<s, part>>
    BY DEF Inv, TypeOK
  <2> QED
    BY <2>1 DEF Inv, Sound, Offered
<1> QED
  BY <1>1, Invariant, PTL

\* Once nothing is left to do, the cache holds what the records of its sources say and nothing else
\* (removeFiles, publishArtifacts, removeOrphanArtifacts).
THEOREM CacheIsExact == ASSUME NoneAstray PROVE Spec => []NothingLeftBehind
<1>1. Inv => NothingLeftBehind
  <2> SUFFICES ASSUME Inv, AtRest, NEW s \in Sources
               PROVE  /\ recordFile[s] = IF known[s] # None THEN known[s].record ELSE records[s]
                      /\ \A part \in Parts : artifact[<<s, part>>] # None
                                              <=> recordFile[s] # None /\ part \in recordFile[s].parts
    BY DEF NothingLeftBehind
  <2>1. open /\ Imports(s) = {} /\ Results(s) = {} /\ ~InFlight(s)
    <3>1. DOMAIN outcomes = {}
      BY EmptySeq DEF AtRest
    <3> QED
      BY <3>1, InFlightIs DEF AtRest, Imports, Results
  <2>2. recordFile[s] = Kept(s)
    BY <2>1 DEF Inv, Sound, Recorded
  <2>3. \A part \in Parts : artifact[<<s, part>>] # None <=> part \in partsOf(recordFile[s])
    BY <2>1, <2>2 DEF Inv, Sound, Whole, NothingElse
  <2> QED
    BY <2>2, <2>3 DEF Kept, partsOf
<1> QED
  BY <1>1, Invariant, PTL

-----------------------------------------------------------------------------
(* Nothing passes for what it is not, when no change of the files goes      *)
(* unseen (Surprises = {}).                                                 *)

\* What an import read is what its stamp, taken before, and the one its record will take, say.
AsRead(s) ==
  \A job \in Imports(s) : job.made # None =>
    /\ job.stamp = file[s] => job.made.file = file[s]
    /\ job.made.shared = shared

\* A record that stamps the file as it is while its artifacts are of another is being replaced.
Vouched(s) == Passes(s, file[s], shared) => \E job \in Imports(s) : job.stage = "writing"

\* A record whose parts are not those of its stamp has artifacts that show it, and the import in
\* flight does not make them of what it stamps.
Shows(s) ==
  LET record == recordFile[s]
  IN record # None /\ ~record.failed /\ ~(record.source \in Contents /\ record.parts = Makes[record.source]) =>
       /\ Passes(s, record.source, record.shared)
       /\ \A job \in Imports(s) : job.made # None =>
            ~(job.made.file = record.source /\ job.made.shared = record.shared)

\* Only a failure stamps no dependency.
Shaped(s) ==
  recordFile[s] # None => /\ recordFile[s].failed => recordFile[s].shared = None
                          /\ ~recordFile[s].failed => recordFile[s].shared # None

\* The sources are the files of the folder, unless the watcher told or the scan did not come to them.
Seen(s) ==
  open /\ ~filesChanged =>
    /\ scan.on => /\ s \in scan.listed <=> file[s] # Absent
                  /\ s \in scan.listed \ scan.unvisited => known[s] # None
    /\ ~scan.on => (known[s] # None <=> file[s] # Absent)

\* A record of the source as it is.
Stands(s, record) ==
  /\ record.source = file[s] /\ record.option = option[s]
  /\ ~record.failed => record.shared = shared

\* A source the watcher tells nothing of, that is not to be imported again, is recorded as it is or
\* being imported as it is.
Settled(s) ==
  open /\ ~filesChanged /\ known[s] # None /\ ~known[s].changed
       /\ (scan.on => s \in scan.listed \ scan.unvisited)
  => /\ ~InFlight(s) => known[s].record # None /\ Stands(s, known[s].record)
     /\ \A job \in Imports(s) : job.option = option[s] /\ (job.stage # "queued" => job.stamp = file[s])
     /\ \A record \in Results(s) : Stands(s, record)

Cached(s) == AsRead(s) /\ Vouched(s) /\ Shows(s) /\ Shaped(s)
Noticed(s) == Seen(s) /\ Settled(s)
Followed == \A s \in Sources : Cached(s) /\ Noticed(s)

\* Whether a record passes depends on it and on its artifacts.
LEMMA PassesSame ==
  ASSUME NEW s, recordFile'[s] = recordFile[s],
         \A part \in partsOf(recordFile[s]) : artifact'[<<s, part>>] = artifact[<<s, part>>]
  PROVE  \A content, common : Passes(s, content, common)' <=> Passes(s, content, common)
BY DEF Passes, partsOf

\* A source of which nothing is told has no record to vouch for, unless it is being imported.
LEMMA NothingToVouch ==
  ASSUME NEW s, Cached(s), \A job \in Imports(s) : job.stage # "writing"
  PROVE  ~Passes(s, file[s], shared)
BY DEF Cached, Vouched

\* The cache stays as true of a source whose record, artifacts, imports and files stay.
LEMMA CachedFrame ==
  ASSUME NEW s, Cached(s), recordFile'[s] = recordFile[s],
         \A part \in partsOf(recordFile[s]) : artifact'[<<s, part>>] = artifact[<<s, part>>],
         Imports(s)' = Imports(s), file'[s] = file[s], shared' = shared
  PROVE  Cached(s)'
<1>1. \A content, common : Passes(s, content, common)' <=> Passes(s, content, common)
  BY PassesSame
<1>2. AsRead(s)' /\ Shaped(s)'
  BY DEF Cached, AsRead, Shaped
<1>3. Vouched(s)'
  BY <1>1 DEF Cached, Vouched
<1>4. Shows(s)'
  BY <1>1 DEF Cached, Shows
<1> QED
  BY <1>2, <1>3, <1>4 DEF Cached

\* The imports that read nothing yet change nothing about a record that is not to be replaced.
LEMMA CachedStill ==
  ASSUME NEW s, Cached(s), ~Passes(s, file[s], shared), \A job \in Imports(s)' : job.made = None,
         recordFile'[s] = recordFile[s],
         \A part \in partsOf(recordFile[s]) : artifact'[<<s, part>>] = artifact[<<s, part>>],
         file'[s] = file[s], shared' = shared
  PROVE  Cached(s)'
<1>1. \A content, common : Passes(s, content, common)' <=> Passes(s, content, common)
  BY PassesSame
<1>2. AsRead(s)' /\ Shaped(s)'
  BY DEF Cached, AsRead, Shaped
<1>3. Vouched(s)'
  BY <1>1 DEF Vouched
<1>4. Shows(s)'
  BY <1>1 DEF Cached, Shows
<1> QED
  BY <1>2, <1>3, <1>4 DEF Cached

\* A cache without a record of a source says nothing of it.
LEMMA CachedNothing ==
  ASSUME NEW s, Cached(s), recordFile'[s] = None, Imports(s)' \subseteq Imports(s),
         file'[s] = file[s], shared' = shared
  PROVE  Cached(s)'
<1>1. \A content, common : ~Passes(s, content, common)'
  BY DEF Passes
<1> QED
  BY <1>1 DEF Cached, AsRead, Vouched, Shows, Shaped

\* What will be looked at of a source stays so while a step leaves what is said of it alone.
LEMMA NoticedFrame ==
  ASSUME NEW s, Noticed(s), open' = open, filesChanged' = filesChanged, known'[s] = known[s],
         file'[s] = file[s], shared' = shared, option'[s] = option[s],
         Imports(s)' = Imports(s), Results(s)' = Results(s),
         scan'.on = scan.on, s \in scan'.listed <=> s \in scan.listed,
         s \in scan'.unvisited <=> s \in scan.unvisited
  PROVE  Noticed(s)'
<1>1. InFlight(s)' <=> InFlight(s)
  BY InFlightIs
<1>2. \A record : Stands(s, record)' <=> Stands(s, record)
  BY DEF Stands
<1>3. Seen(s)'
  BY DEF Noticed, Seen
<1>4. Settled(s)'
  BY <1>1, <1>2 DEF Noticed, Settled
<1> QED
  BY <1>3, <1>4 DEF Noticed

\* What the watcher told is looked at again.
LEMMA NoticedTold == ASSUME NEW s, open' => filesChanged' PROVE Noticed(s)'
BY DEF Noticed, Seen, Settled

-----------------------------------------------------------------------------
(* The import jobs. *)

\* A stamp is that of the file that is about to be read.
LEMMA stampSourceKeepsFollowed ==
  ASSUME Inv, Followed, NEW job \in jobs, stampSource(job)
  PROVE  Followed'
<1> USE DEF disk, cache, memory
<1>1. /\ TypeOK /\ WellRun(job) /\ job.source \in Sources
      /\ \A other \in Imports(job.source) : other = job
  BY JobIsAlone
<1>2. PICK next \in Job :
        /\ Becomes(job, next) /\ next.source = job.source /\ next.option = job.option
        /\ next.stage = "stamped" /\ next.stamp = file[job.source] /\ next.made = job.made
  BY <1>1, stampSourceIs
<1>3. job.stage = "queued" /\ job.made = None /\ UNCHANGED <<disk, cache, memory>>
  BY <1>1 DEF stampSource, WellRun
<1>4. /\ Imports(job.source) = {job} /\ Imports(job.source)' = {next}
      /\ \A s : s # job.source => Imports(s)' = Imports(s)
  BY <1>1, <1>2, ImportsReplaced
<1>5. \A s : Results(s)' = Results(s)
  BY <1>3, ResultsSame
<1>6. ASSUME NEW s \in Sources PROVE Cached(s)' /\ Noticed(s)'
  <2>1. Cached(s) /\ Noticed(s)
    BY DEF Followed
  <2>2. CASE s # job.source
    BY <1>3, <1>4, <1>5, <2>1, <2>2, CachedFrame, NoticedFrame
  <2>3. CASE s = job.source
    <3>1. ~Passes(s, file[s], shared)
      BY <1>3, <1>4, <2>1, <2>3, NothingToVouch
    <3>2. Cached(s)'
      BY <1>2, <1>3, <1>4, <2>1, <2>3, <3>1, CachedStill
    <3>3. InFlight(s) /\ InFlight(s)'
      BY <1>4, <2>3, InFlightIs
    <3>4. Settled(s)'
      BY <1>2, <1>3, <1>4, <1>5, <2>1, <2>3, <3>3 DEF Noticed, Settled, Stands
    <3>5. Seen(s)'
      BY <1>3, <2>1 DEF Noticed, Seen
    <3> QED
      BY <3>2, <3>4, <3>5 DEF Noticed
  <2> QED
    BY <2>2, <2>3
<1> QED
  BY <1>6 DEF Followed

\* What is read is not what a record that shows otherwise stamps.
LEMMA runImporterKeepsFollowed ==
  ASSUME Inv, Followed, NEW job \in jobs, runImporter(job)
  PROVE  Followed'
<1> USE DEF disk, cache, memory
<1>1. /\ TypeOK /\ WellRun(job) /\ job.source \in Sources
      /\ \A other \in Imports(job.source) : other = job
  BY JobIsAlone
<1>2. PICK next \in Job :
        /\ Becomes(job, next) /\ next.source = job.source /\ next.option = job.option
        /\ next.stage = "read" /\ next.stamp = job.stamp
        /\ next.made # None => next.made.file = file[job.source] /\ next.made.shared = shared
  BY <1>1, runImporterIs
<1>3. job.stage = "stamped" /\ UNCHANGED <<disk, cache, memory>>
  BY <1>1 DEF runImporter
<1>4. /\ Imports(job.source) = {job} /\ Imports(job.source)' = {next}
      /\ \A s : s # job.source => Imports(s)' = Imports(s)
  BY <1>1, <1>2, ImportsReplaced
<1>5. \A s : Results(s)' = Results(s)
  BY <1>3, ResultsSame
<1>6. ASSUME NEW s \in Sources PROVE Cached(s)' /\ Noticed(s)'
  <2>1. Cached(s) /\ Noticed(s)
    BY DEF Followed
  <2>2. CASE s # job.source
    BY <1>3, <1>4, <1>5, <2>1, <2>2, CachedFrame, NoticedFrame
  <2>3. CASE s = job.source
    <3>1. ~Passes(s, file[s], shared)
      BY <1>3, <1>4, <2>1, <2>3, NothingToVouch
    <3>2. \A content, common : Passes(s, content, common)' <=> Passes(s, content, common)
      BY <1>3, PassesSame
    <3>3. AsRead(s)' /\ Shaped(s)'
      BY <1>2, <1>3, <1>4, <2>1, <2>3 DEF Cached, AsRead, Shaped
    <3>4. Vouched(s)'
      BY <1>3, <3>1, <3>2 DEF Vouched
    <3>5. Shows(s)'
      BY <1>2, <1>3, <1>4, <2>1, <2>3, <3>1, <3>2 DEF Cached, Shows
    <3>6. InFlight(s) /\ InFlight(s)'
      BY <1>4, <2>3, InFlightIs
    <3>7. Settled(s)'
      BY <1>2, <1>3, <1>4, <1>5, <2>1, <2>3, <3>6 DEF Noticed, Settled, Stands
    <3>8. Seen(s)'
      BY <1>3, <2>1 DEF Noticed, Seen
    <3> QED
      BY <3>3, <3>4, <3>5, <3>7, <3>8 DEF Cached, Noticed
  <2> QED
    BY <2>2, <2>3
<1> QED
  BY <1>6 DEF Followed

\* A job is cancelled only once the database is closed, and the next session looks at the source
\* again.
LEMMA cancelledKeepsFollowed ==
  ASSUME Inv, Followed, NEW job \in jobs, cancelled(job)
  PROVE  Followed'
<1> USE DEF disk, cache, memory
<1>1. job.source \in Sources /\ \A other \in Imports(job.source) : other = job
  BY JobIsAlone
<1>2. jobs' = jobs \ {job} /\ job.stage = "read" /\ ~open /\ UNCHANGED <<disk, cache, memory, left>>
  BY DEF cancelled
<1>3. /\ Imports(job.source) = {job} /\ Imports(job.source)' = {}
      /\ \A s : s # job.source => Imports(s)' = Imports(s)
  BY <1>1, <1>2, ImportsEnded
<1>4. ASSUME NEW s \in Sources PROVE Cached(s)' /\ Noticed(s)'
  <2>1. Cached(s) /\ Noticed(s)'
    BY <1>2, NoticedTold DEF Followed
  <2>2. CASE s # job.source
    BY <1>2, <1>3, <2>1, <2>2, CachedFrame
  <2>3. CASE s = job.source
    <3>1. ~Passes(s, file[s], shared)
      BY <1>2, <1>3, <2>1, <2>3, NothingToVouch
    <3> QED
      BY <1>2, <1>3, <2>1, <2>3, <3>1, CachedStill
  <2> QED
    BY <2>2, <2>3
<1> QED
  BY <1>4 DEF Followed

\* What is written shows that the record in the cache is of something else.
LEMMA writeArtifactKeepsFollowed ==
  ASSUME Inv, Followed, NEW job \in jobs, writeArtifact(job)
  PROVE  Followed'
<1> USE DEF disk, memory
<1>1. /\ TypeOK /\ WellRun(job) /\ job.source \in Sources
      /\ \A other \in Imports(job.source) : other = job
  BY JobIsAlone
<1>2. PICK next \in Job, part \in job.unwritten :
        /\ artifact' = [artifact EXCEPT ![<<job.source, part>>] = job.made]
        /\ Becomes(job, next) /\ next.source = job.source /\ next.option = job.option
        /\ next.stage = "writing" /\ next.stamp = job.stamp /\ next.made = job.made
        /\ job.made # None /\ job.stage # "queued" /\ part \in Parts
  BY <1>1, writeArtifactIs
<1>3. UNCHANGED <<disk, recordFile, memory, left>>
  BY DEF writeArtifact
<1>4. /\ Imports(job.source) = {job} /\ Imports(job.source)' = {next}
      /\ \A s : s # job.source => Imports(s)' = Imports(s)
  BY <1>1, <1>2, ImportsReplaced
<1>5. \A s : Results(s)' = Results(s)
  BY <1>3, ResultsSame
<1>6. \A s \in Sources, q \in Parts :
        artifact'[<<s, q>>] = IF s = job.source /\ q = part THEN job.made ELSE artifact[<<s, q>>]
  BY <1>1, <1>2 DEF TypeOK
<1>7. ASSUME NEW s \in Sources PROVE Cached(s)' /\ Noticed(s)'
  <2>1. Cached(s) /\ Noticed(s)
    BY DEF Followed
  <2>2. partsOf(recordFile[s]) \subseteq Parts
    BY <1>1, RecordsAreTyped
  <2>3. CASE s # job.source
    BY <1>3, <1>4, <1>5, <1>6, <2>1, <2>2, <2>3, CachedFrame, NoticedFrame
  <2>4. CASE s = job.source
    <3>1. AsRead(s)' /\ Shaped(s)' /\ Vouched(s)'
      BY <1>2, <1>3, <1>4, <2>1, <2>4 DEF Cached, AsRead, Shaped, Vouched
    <3>2. ASSUME NEW content, NEW common, Passes(s, content, common),
                 ~(job.made.file = content /\ job.made.shared = common)
          PROVE  Passes(s, content, common)'
      <4> DEFINE wanted == [file |-> content, shared |-> common, option |-> recordFile[s].option]
      <4>1. PICK q \in recordFile[s].parts : artifact[<<s, q>>] # wanted
        BY <3>2 DEF Passes
      <4>2. q \in Parts /\ recordFile[s] # None
        BY <2>2, <3>2 DEF Passes, partsOf
      <4>3. wanted.file = content /\ wanted.shared = common
        OBVIOUS
      <4>4. artifact'[<<s, q>>] # wanted
        <5> HIDE DEF wanted
        <5> QED
          BY <1>6, <2>4, <3>2, <4>1, <4>2, <4>3
      <4> QED
        BY <1>3, <3>2, <4>1, <4>4 DEF Passes
    <3>3. Shows(s)'
      BY <1>2, <1>3, <1>4, <2>1, <2>4, <3>2 DEF Cached, Shows
    <3>4. InFlight(s) /\ InFlight(s)'
      BY <1>4, <2>4, InFlightIs
    <3>5. Settled(s)'
      BY <1>2, <1>3, <1>4, <1>5, <2>1, <2>4, <3>4 DEF Noticed, Settled, Stands
    <3>6. Seen(s)'
      BY <1>3, <2>1 DEF Noticed, Seen
    <3> QED
      BY <3>1, <3>3, <3>5, <3>6 DEF Cached, Noticed
  <2> QED
    BY <2>3, <2>4
<1> QED
  BY <1>7 DEF Followed

\* A record is of what its artifacts were made of, or they show it is not.
LEMMA writeRecordKeepsFollowed ==
  ASSUME Inv, Followed, NEW job \in jobs, writeRecord(job)
  PROVE  Followed'
<1>0. PICK record : record = RecordOf(job)
  OBVIOUS
<1>1. /\ TypeOK /\ job \in Job /\ job.source \in Sources /\ Sound(job.source) /\ StaysAway(job.source)
      /\ \A other \in Imports(job.source) : other = job
      /\ WellRun(job) /\ Results(job.source) = {} /\ InFlight(job.source)
  BY JobIsAlone
<1>2. /\ job.unwritten = {} /\ job.stage \in {"writing", "read"}
      /\ recordFile' = [recordFile EXCEPT ![job.source] = record]
      /\ outcomes' = IF open THEN Append(outcomes, [source |-> job.source, record |-> record]) ELSE outcomes
      /\ jobs' = jobs \ {job}
      /\ UNCHANGED <<disk, artifact, open, records, known, assets, filesChanged, scan, left>>
  BY <1>0 DEF writeRecord
<1>3. /\ record \in Record /\ record.source = job.stamp /\ record.option = job.option
      /\ record.failed <=> job.made = None
      /\ job.made = None => record.shared = None
      /\ job.made # None => record.parts = Makes[job.made.file] /\ record.shared = shared
  BY <1>0, <1>1, <1>2, RecordOfIs
<1>4. /\ Imports(job.source) = {job} /\ Imports(job.source)' = {}
      /\ \A s : s # job.source => Imports(s)' = Imports(s)
  BY <1>1, <1>2, ImportsEnded
<1>5. /\ Results(job.source)' = IF open THEN {record} ELSE {}
      /\ \A s : s # job.source => Results(s)' = Results(s)
  <2>1. CASE open
    BY <1>1, <1>2, <1>3, <2>1, ResultsReported DEF Inv
  <2>2. CASE ~open
    BY <1>1, <1>2, <2>2, ResultsSame
  <2> QED
    BY <2>1, <2>2
<1>6. shared \in Contents /\ shared # None /\ Absent \notin Contents
  BY <1>1, NoneIsNone, ImportsAssumption DEF TypeOK
<1>7. ASSUME NEW s \in Sources PROVE Cached(s)' /\ Noticed(s)'
  <2>1. Cached(s) /\ Noticed(s)
    BY DEF Followed
  <2>2. CASE s # job.source
    <3>1. recordFile'[s] = recordFile[s]
      BY <1>1, <1>2, <2>2 DEF TypeOK
    <3> QED
      BY <1>2, <1>4, <1>5, <2>1, <2>2, <3>1, CachedFrame, NoticedFrame DEF disk
  <2>3. CASE s = job.source
    <3>1. Imports(s) = {job} /\ Imports(s)' = {} /\ Results(s)' = IF open THEN {record} ELSE {}
      BY <1>4, <1>5, <2>3
    <3>2. recordFile'[s] = record /\ record # None
      BY <1>1, <1>2, <1>3, <2>3, NoneIsNone DEF TypeOK
    <3>3. ASSUME job.made # None
          PROVE  /\ job.made \in Made /\ job.made.file \in Contents
                 /\ job.made = [file |-> job.made.file, shared |-> shared, option |-> record.option]
                 /\ job.stamp = file[s] => job.made.file = file[s]
                 /\ \A part \in record.parts : artifact[<<s, part>>] = job.made
                                               \/ (file[s] = Absent /\ artifact[<<s, part>>] = None)
                 /\ record.parts # {}
      <4>1. job.made \in Made /\ job.made.file \in Contents
        BY <1>1, <3>3 DEF Job, Made
      <4>2. job.made.shared = shared /\ job.made.option = record.option
            /\ (job.stamp = file[s] => job.made.file = file[s])
        BY <1>1, <1>3, <2>1, <3>1, <3>3 DEF Cached, AsRead, WellRun
      <4>3. job.made = [file |-> job.made.file, shared |-> shared, option |-> record.option]
        BY <4>1, <4>2 DEF Made
      <4>4. \A part \in record.parts : artifact[<<s, part>>] = job.made
              \/ (open /\ known[s] = None /\ artifact[<<s, part>>] = None)
        BY <1>1, <1>2, <1>3, <2>3, <3>1, <3>3 DEF Sound, Written
      <4>5. open /\ known[s] = None => file[s] = Absent
        BY <1>1, <2>3 DEF StaysAway
      <4>6. record.parts # {}
        BY <1>1, <1>3, <3>3 DEF WellRun
      <4> QED
        BY <4>1, <4>2, <4>3, <4>4, <4>5, <4>6
    <3>4. AsRead(s)'
      BY <3>1 DEF AsRead
    <3>5. Shaped(s)'
      BY <1>3, <1>6, <3>2 DEF Shaped
    <3>6. Vouched(s)'
      <4>1. SUFFICES ASSUME Passes(s, file[s], shared)' PROVE FALSE
        BY DEF Vouched
      <4>2. file' = file /\ shared' = shared /\ artifact' = artifact
        BY <1>2 DEF disk
      <4>3. record.source = file[s] /\ record.shared = shared
        BY <3>2, <4>1, <4>2 DEF Passes
      <4>4. job.made # None /\ job.stamp = file[s]
        BY <1>3, <1>6, <4>3
      <4>5. file[s] = job.made.file /\ file[s] # Absent
        BY <1>6, <3>3, <4>4
      <4>6. \A part \in record.parts : artifact[<<s, part>>] = job.made
        BY <3>3, <4>4, <4>5
      <4>7. PICK part \in record.parts :
              artifact[<<s, part>>] # [file |-> file[s], shared |-> shared, option |-> record.option]
        BY <3>2, <4>1, <4>2 DEF Passes
      <4> QED
        BY <3>3, <4>4, <4>5, <4>6, <4>7
    <3>7. Shows(s)'
      <4>1. SUFFICES ASSUME ~record.failed, ~(record.source \in Contents /\ record.parts = Makes[record.source])
                     PROVE  Passes(s, record.source, record.shared)'
        BY <3>1, <3>2 DEF Shows
      <4>2. job.made # None /\ record.shared = shared /\ job.stamp # job.made.file
        BY <1>3, <3>3, <4>1
      <4>3. PICK part \in record.parts : TRUE
        BY <3>3, <4>2
      <4> DEFINE wanted == [file |-> record.source, shared |-> record.shared, option |-> record.option]
      <4>4. artifact[<<s, part>>] # wanted
        <5>1. CASE artifact[<<s, part>>] = job.made
          <6>1. wanted.file = job.stamp
            BY <1>3
          <6> QED
            BY <4>2, <5>1, <6>1
        <5>2. CASE file[s] = Absent /\ artifact[<<s, part>>] = None
          <6>1. job.stamp # Absent
            BY <1>6, <3>3, <4>2, <5>2
          <6>2. job.stamp \in Contents /\ record.option \in Options
            BY <1>1, <1>3, <6>1 DEF Job, Stamps, WellRun, Record
          <6>3. wanted \in Made
            BY <1>3, <1>6, <4>2, <6>2 DEF Made
          <6> QED
            BY <5>2, <6>3, NoneIsNone
        <5> QED
          BY <3>3, <4>2, <5>1, <5>2
      <4> QED
        BY <1>2, <3>2, <4>3, <4>4 DEF Passes
    <3>8. Seen(s)'
      BY <1>2, <2>1 DEF Noticed, Seen, disk
    <3>9. Settled(s)'
      <4>1. open => InFlight(s) /\ InFlight(s)'
        BY <3>1, InFlightIs
      <4>2. job.stage # "queued"
        BY <1>2
      <4> QED
        BY <1>2, <1>3, <2>1, <3>1, <4>1, <4>2 DEF Noticed, Settled, Stands, disk
    <3> QED
      BY <3>4, <3>5, <3>6, <3>7, <3>8, <3>9 DEF Cached, Noticed
  <2> QED
    BY <2>2, <2>3
<1> QED
  BY <1>7 DEF Followed

-----------------------------------------------------------------------------
(* The scan of the folder. *)

\* A scan that begins has every source on the disk still to visit.
LEMMA beginScanKeepsFollowed == ASSUME Inv, Followed, beginScan PROVE Followed'
<1> USE DEF disk, cache
<1>1. /\ scan' = [on |-> TRUE, opening |-> FALSE, listed |-> Present, unvisited |-> Present]
      /\ UNCHANGED <<disk, cache, open, records, known, assets, jobs, outcomes, left>>
  BY DEF beginScan
<1>2. ASSUME NEW s \in Sources PROVE Cached(s)' /\ Noticed(s)'
  <2>1. Imports(s)' = Imports(s)
    BY <1>1, ImportsSame
  <2>2. Cached(s)'
    BY <1>1, <2>1, CachedFrame DEF Followed
  <2>3. scan'.on /\ (s \in scan'.listed <=> file'[s] # Absent) /\ s \notin scan'.listed \ scan'.unvisited
    BY <1>1 DEF Present
  <2> QED
    BY <2>2, <2>3 DEF Noticed, Seen, Settled
<1> QED
  BY <1>2 DEF Followed

\* A source that needs no import is recorded as it is.
LEMMA needsNoImport ==
  ASSUME NEW s, NEW source, ~needsImport(s, source)
  PROVE  source.record # None /\ Stands(s, source.record)
BY DEF needsImport, Reason, isChanged, Stands

\* A source considered is imported, or recorded as it is.
LEMMA ConsideredIsFollowed ==
  ASSUME TypeOK, NEW s \in Sources, NEW source \in Source, NEW wanted \in BOOLEAN,
         ~source.importing, ~source.changed, Imports(s) = {},
         Considered(s, source, wanted), ~wanted => source.record # None /\ Stands(s, source.record),
         Cached(s), recordFile'[s] = recordFile[s], Results(s)' = {},
         \A part \in partsOf(recordFile[s]) : artifact'[<<s, part>>] = artifact[<<s, part>>],
         file' = file, shared' = shared, option' = option
  PROVE  Cached(s)' /\ Settled(s)' /\ known'[s] # None
<1> DEFINE job == ImportJob(s, source.record)
<1>1. /\ known'[s] \in Source /\ known'[s].record = source.record
      /\ IF wanted THEN Imports(s)' = {job} ELSE Imports(s)' = {}
  BY ConsideredGives
<1>2. NewJob(job, s, source.record) /\ job.option = option[s]
  <2>1. source.record \in Record \cup {None}
    BY DEF Source
  <2> QED
    BY <2>1, ImportJobIsNew
<1> HIDE DEF job
<1>3. ~Passes(s, file[s], shared) /\ \A other \in Imports(s)' : other = job
  BY <1>1, NothingToVouch
<1>4. Cached(s)'
  BY <1>2, <1>3, CachedStill DEF NewJob
<1>5. InFlight(s)' <=> wanted
  BY <1>1, InFlightIs
<1>6. known'[s] # None
  BY <1>1, NoneIsNone
<1>7. Settled(s)'
  <2>1. CASE wanted
    BY <1>1, <1>2, <1>5, <2>1 DEF Settled, NewJob
  <2>2. CASE ~wanted
    BY <1>1, <1>5, <2>2 DEF Settled, Stands
  <2> QED
    BY <2>1, <2>2
<1> QED
  BY <1>4, <1>6, <1>7

\* A source that is visited has an import, or its record is of the file as it is.
LEMMA scanFileKeepsFollowed == ASSUME Inv, Followed, NEW s \in Sources, scanFile(s) PROVE Followed'
<1>1. /\ s \in scan.unvisited
      /\ scan' = [scan EXCEPT !.unvisited = scan.unvisited \ {s}]
      /\ IF Found(s).importing
         THEN known' = [known EXCEPT ![s].changed = TRUE] /\ jobs' = jobs
         ELSE Considered(s, Found(s), needsImport(s, Found(s)))
      /\ UNCHANGED <<disk, cache, open, filesChanged, outcomes, left>>
  BY DEF scanFile
<1>2. TypeOK /\ Sound(s) /\ StaysAway(s) /\ scan \in Scan /\ Cached(s) /\ Noticed(s)
  BY DEF Inv, TypeOK, Followed
<1>3. s \in scan.listed /\ scan.on /\ open
  <2>1. scan # NoScan
    BY <1>1 DEF NoScan
  <2> QED
    BY <1>1, <2>1 DEF Inv, ScanIsOrderly
<1>4. known[s] = None => ~InFlight(s)
  BY <1>2, <1>3 DEF StaysAway
<1>5. scan'.on = scan.on /\ scan'.listed = scan.listed /\ scan'.unvisited = scan.unvisited \ {s}
  BY <1>1, <1>2 DEF Scan
<1>6. /\ Found(s) \in Source
      /\ Found(s).importing => known[s] # None
      /\ ~Found(s).importing => ~Found(s).changed /\ Imports(s) = {} /\ Results(s) = {}
      /\ known[s] # None => Found(s) = known[s]
  BY <1>3, <1>4, FoundIs
<1>7. \A t : Results(t)' = Results(t)
  BY <1>1, ResultsSame
<1>8. known[s] \in Source \cup {None} /\ known \in [Sources -> Source \cup {None}]
  BY <1>2 DEF TypeOK
<1>9. /\ \A t \in Sources : t # s => known'[t] = known[t]
      /\ \A t : t # s => Imports(t)' = Imports(t)
      /\ Cached(s)' /\ Settled(s)' /\ known'[s] # None
  <2>1. CASE Found(s).importing
    <3>1. known[s] # None /\ known[s] \in Source
      BY <1>6, <1>8, <2>1
    <3>2. known' = [known EXCEPT ![s] = [known[s] EXCEPT !.changed = TRUE]] /\ jobs' = jobs
      BY <1>1, <2>1
    <3>3. [known[s] EXCEPT !.changed = TRUE] \in Source /\ [known[s] EXCEPT !.changed = TRUE].changed
      BY <3>1 DEF Source
    <3>4. /\ known'[s] # None /\ known'[s].changed
          /\ \A t \in Sources : t # s => known'[t] = known[t]
      BY <1>8, <3>2, <3>3, NoneIsNone
    <3>5. \A t : Imports(t)' = Imports(t)
      BY <3>2, ImportsSame
    <3>6. Cached(s)'
      BY <1>1, <1>2, <3>5, CachedFrame DEF disk, cache
    <3> QED
      BY <3>4, <3>5, <3>6 DEF Settled
  <2>2. CASE ~Found(s).importing
    <3> DEFINE wanted == needsImport(s, Found(s))
    <3>1. wanted \in BOOLEAN /\ Considered(s, Found(s), wanted)
      BY <1>1, <2>2, needsImportIsBoolean
    <3>2. ~wanted => Found(s).record # None /\ Stands(s, Found(s).record)
      BY needsNoImport
    <3> HIDE DEF wanted
    <3>3. /\ \A t \in Sources : t # s => known'[t] = known[t]
          /\ \A t : t # s => Imports(t)' = Imports(t)
      BY <1>2, <1>6, <2>2, <3>1, ConsideredGives
    <3>4. Results(s)' = {} /\ recordFile' = recordFile /\ artifact' = artifact
          /\ file' = file /\ shared' = shared /\ option' = option
      BY <1>1, <1>6, <1>7, <2>2 DEF disk, cache
    <3>5. Cached(s)' /\ Settled(s)' /\ known'[s] # None
      BY <1>2, <1>6, <2>2, <3>1, <3>2, <3>4, ConsideredIsFollowed
    <3> QED
      BY <3>3, <3>5
  <2> QED
    BY <2>1, <2>2
<1>10. ASSUME NEW t \in Sources PROVE Cached(t)' /\ Noticed(t)'
  <2>1. CASE t # s
    BY <1>1, <1>5, <1>7, <1>9, <2>1, CachedFrame, NoticedFrame DEF Followed, disk, cache
  <2>2. CASE t = s
    <3>1. Seen(s)'
      BY <1>1, <1>2, <1>3, <1>5, <1>9 DEF Noticed, Seen, disk
    <3> QED
      BY <1>9, <2>2, <3>1 DEF Noticed
  <2> QED
    BY <2>1, <2>2
<1> QED
  BY <1>10 DEF Followed

\* What the scan did not see is not there, and leaves no record that could pass.
LEMMA endScanKeepsFollowed == ASSUME Inv, Followed, endScan PROVE Followed'
<1> DEFINE unseen == {s \in Sources \ scan.listed : known[s] # None}
           recorded == {s \in unseen : known[s].record # None}
           gone == {[source |-> s, record |-> known[s].record] : s \in recorded}
<1>1. /\ scan.on /\ scan.unvisited = {} /\ scan' = NoScan
      /\ known' = [s \in Sources |-> IF s \in unseen THEN None ELSE known[s]]
      /\ Removes(gone)
      /\ UNCHANGED <<disk, open, records, filesChanged, jobs, outcomes, left>>
  BY DEF endScan
<1>2. TypeOK
  BY DEF Inv
<1>3. /\ \A s \in Sources, part \in Parts : s \notin recorded => artifact'[<<s, part>>] = artifact[<<s, part>>]
      /\ \A s \in Sources : (s \in recorded => recordFile'[s] = None) /\ (s \notin recorded => recordFile'[s] = recordFile[s])
  <2>1. \A s, part : (\E x \in gone : <<s, part>> \in AssetsOf(x.source, x.record.parts)) => s \in recorded
    BY DEF AssetsOf
  <2>2. \A s : (\E x \in gone : x.source = s) <=> s \in recorded
    <3>1. \A s \in recorded : [source |-> s, record |-> known[s].record] \in gone
      OBVIOUS
    <3>2. \A x \in gone : x.source \in recorded
      OBVIOUS
    <3> HIDE DEF gone, recorded
    <3> QED
      BY <3>1, <3>2
  <2>3. Removes(gone)
    BY <1>1
  <2> HIDE DEF gone, recorded, unseen
  <2> QED
    BY <2>1, <2>2, <2>3 DEF Removes
<1>4. \A s : Imports(s)' = Imports(s) /\ Results(s)' = Results(s)
  BY <1>1, ImportsSame, ResultsSame
<1>5. \A s \in Sources : known'[s] = IF s \in unseen THEN None ELSE known[s]
  BY <1>1
<1>6. ASSUME NEW s \in Sources PROVE Cached(s)' /\ Noticed(s)'
  <2>1. Cached(s) /\ Seen(s) /\ Settled(s) /\ partsOf(recordFile[s]) \subseteq Parts
    BY <1>2, RecordsAreTyped DEF Followed, Noticed
  <2>2. Cached(s)'
    <3> HIDE DEF recorded, unseen
    <3>1. CASE s \in recorded
      BY <1>1, <1>3, <1>4, <2>1, <3>1, CachedNothing DEF disk
    <3>2. CASE s \notin recorded
      BY <1>1, <1>3, <1>4, <2>1, <3>2, CachedFrame DEF disk
    <3> QED
      BY <3>1, <3>2
  <2>3. ~scan'.on
    BY <1>1 DEF NoScan
  <2>4. known'[s] # None <=> known[s] # None /\ s \in scan.listed
    BY <1>5
  <2>5. known'[s] # None => known'[s] = known[s]
    BY <1>5
  <2>6. Seen(s)'
    BY <1>1, <2>1, <2>3, <2>4 DEF Seen, disk
  <2>7. Settled(s)'
    <3>1. InFlight(s)' <=> InFlight(s)
      BY <1>4, InFlightIs
    <3> QED
      BY <1>1, <1>4, <2>1, <2>4, <2>5, <3>1 DEF Settled, Stands, disk
  <2> QED
    BY <2>2, <2>6, <2>7 DEF Noticed
<1> QED
  BY <1>6 DEF Followed

-----------------------------------------------------------------------------
(* What the main thread does between two scans. *)

\* The report of a source that was removed meanwhile leaves nothing of it in the cache.
LEMMA applyToNothingKeepsFollowed ==
  ASSUME Inv, Followed, applyOutcome, known[Head(outcomes).source] = None
  PROVE  Followed'
<1>1. PICK t : t = Head(outcomes).source
  OBVIOUS
<1>2. /\ outcomes # <<>> /\ outcomes' = Tail(outcomes)
      /\ Removes({Head(outcomes)})
      /\ UNCHANGED <<known, assets, jobs, disk, open, records, filesChanged, scan, left>>
  BY DEF applyOutcome, applyToNothing
<1>3. t \in Sources /\ \A s : s # t => Results(s)' = Results(s)
  BY <1>1, <1>2, ResultsApplied DEF Inv
<1>4. /\ recordFile'[t] = None
      /\ \A s \in Sources : s # t => recordFile'[s] = recordFile[s]
      /\ \A s \in Sources, part \in Parts : s # t => artifact'[<<s, part>>] = artifact[<<s, part>>]
  BY <1>1, <1>2, <1>3 DEF Removes, AssetsOf
<1>5. \A s : Imports(s)' = Imports(s)
  BY <1>2, ImportsSame
<1>6. ASSUME NEW s \in Sources PROVE Cached(s)' /\ Noticed(s)'
  <2>1. Cached(s) /\ Noticed(s) /\ partsOf(recordFile[s]) \subseteq Parts
    BY RecordsAreTyped DEF Inv, Followed
  <2>2. CASE s # t
    BY <1>2, <1>3, <1>4, <1>5, <2>1, <2>2, CachedFrame, NoticedFrame DEF disk
  <2>3. CASE s = t
    <3>1. Cached(s)'
      BY <1>2, <1>4, <1>5, <2>1, <2>3, CachedNothing DEF disk
    <3>2. Seen(s)'
      BY <1>2, <2>1 DEF Noticed, Seen, disk
    <3>3. Settled(s)'
      BY <1>1, <1>2, <2>3 DEF Settled
    <3> QED
      BY <3>1, <3>2, <3>3 DEF Noticed
  <2> QED
    BY <2>2, <2>3
<1> QED
  BY <1>6 DEF Followed

\* What is reported is of the source as it is, or the source changed since and is looked at again.
LEMMA applyToSourceKeepsFollowed ==
  ASSUME Inv, Followed, applyOutcome, known[Head(outcomes).source] # None
  PROVE  Followed'
<1>1. PICK t : t = Head(outcomes).source
  OBVIOUS
<1>2. PICK record : record = Head(outcomes).record
  OBVIOUS
<1> DEFINE source == [known[t] EXCEPT !.importing = FALSE, !.record = record]
           fresh == [source EXCEPT !.changed = FALSE]
           dropped == IF record.failed THEN {} ELSE AssetsOf(t, partsOf(known[t].record) \ record.parts)
           wanted == needsImport(t, source)
<1>3. /\ open /\ ~scan.on /\ outcomes # <<>> /\ outcomes' = Tail(outcomes)
      /\ known[t] # None
      /\ artifact' = [a \in Sources \X Parts |-> IF a \in dropped THEN None ELSE artifact[a]]
      /\ IF source.changed
         THEN Considered(t, fresh, wanted)
         ELSE known' = [known EXCEPT ![t] = source] /\ jobs' = jobs
      /\ UNCHANGED <<recordFile, disk, open, records, filesChanged, scan, left>>
  BY <1>1, <1>2 DEF applyOutcome, applyToSource
<1>4. TypeOK /\ \A s \in Sources : Sound(s) /\ StaysAway(s) /\ Cached(s) /\ Noticed(s)
  BY DEF Inv, Followed
<1>5. /\ t \in Sources /\ record \in Record
      /\ Results(t) = {record} /\ Results(t)' = {}
      /\ \A s : s # t => Results(s)' = Results(s)
  BY <1>1, <1>2, <1>3, <1>4, ResultsApplied DEF Inv
<1>6. Imports(t) = {} /\ recordFile[t] = record /\ partsOf(record) = record.parts /\ record # None
  <2>1. Sound(t) /\ record # None
    BY <1>4, <1>5, NoneIsNone
  <2> QED
    BY <1>3, <1>5, <2>1 DEF Sound, Alone, Recorded, partsOf
<1>7. known[t] \in Source /\ known \in [Sources -> Source \cup {None}]
  BY <1>3, <1>4, <1>5 DEF TypeOK
<1>8. /\ source \in Source /\ source.record = record /\ source.importing = FALSE
      /\ source.changed = known[t].changed
  BY <1>5, <1>7 DEF Source
<1>9. fresh \in Source /\ fresh.record = record /\ fresh.importing = FALSE /\ fresh.changed = FALSE
  BY <1>8 DEF Source
<1>10. \A s \in Sources : \A part \in partsOf(recordFile[s]) : artifact'[<<s, part>>] = artifact[<<s, part>>]
  <2>1. \A s, part : <<s, part>> \in dropped => s = t /\ part \notin record.parts
    BY DEF AssetsOf
  <2> HIDE DEF dropped, source, fresh, wanted
  <2>2. TAKE s \in Sources
  <2>3. TAKE part \in partsOf(recordFile[s])
  <2>4. <<s, part>> \in Sources \X Parts
    BY <1>4, RecordsAreTyped
  <2>5. <<s, part>> \notin dropped
    BY <1>6, <2>1, <2>3
  <2> QED
    BY <1>3, <2>4, <2>5
<1>11. ~wanted => record # None /\ Stands(t, record)
  BY <1>8, needsNoImport
<1>12. wanted \in BOOLEAN
  BY needsImportIsBoolean
<1> HIDE DEF wanted, dropped
<1>13. /\ \A s \in Sources : s # t => known'[s] = known[s]
       /\ \A s : s # t => Imports(s)' = Imports(s)
       /\ Cached(t)' /\ Settled(t)' /\ known'[t] # None
  <2>1. CASE source.changed
    <3>1. Considered(t, fresh, wanted)
      BY <1>3, <2>1
    <3> HIDE DEF fresh, source
    <3>2. /\ \A s \in Sources : s # t => known'[s] = known[s]
          /\ \A s : s # t => Imports(s)' = Imports(s)
      BY <1>4, <1>5, <1>6, <1>9, <1>12, <3>1, ConsideredGives
    <3>3. recordFile'[t] = recordFile[t] /\ file' = file /\ shared' = shared /\ option' = option
      BY <1>3 DEF disk
    <3>4. \A part \in partsOf(recordFile[t]) : artifact'[<<t, part>>] = artifact[<<t, part>>]
      BY <1>5, <1>10
    <3>5. Cached(t)' /\ Settled(t)' /\ known'[t] # None
      BY <1>4, <1>5, <1>6, <1>9, <1>11, <1>12, <3>1, <3>3, <3>4, ConsideredIsFollowed
    <3> QED
      BY <3>2, <3>5
  <2>2. CASE ~source.changed
    <3>1. known' = [known EXCEPT ![t] = source] /\ jobs' = jobs /\ ~known[t].changed
      BY <1>3, <1>8, <2>2
    <3> HIDE DEF source, fresh
    <3>2. \A s : Imports(s)' = Imports(s)
      BY <3>1, ImportsSame
    <3>3. known'[t] = source /\ known'[t] # None /\ \A s \in Sources : s # t => known'[s] = known[s]
      BY <1>5, <1>7, <1>8, <3>1, NoneIsNone
    <3>4. Cached(t)'
      BY <1>3, <1>4, <1>5, <1>10, <3>2, CachedFrame DEF disk
    <3>5. Settled(t)'
      <4>1. open /\ ~filesChanged => Stands(t, record)
        BY <1>3, <1>4, <1>5, <3>1 DEF Noticed, Settled
      <4> QED
        BY <1>3, <1>5, <1>6, <1>8, <3>2, <3>3, <4>1 DEF Settled, Stands, disk
    <3> QED
      BY <3>2, <3>3, <3>4, <3>5
  <2> QED
    BY <2>1, <2>2
<1> HIDE DEF source, fresh
<1>14. ASSUME NEW s \in Sources PROVE Cached(s)' /\ Noticed(s)'
  <2>1. Cached(s) /\ Noticed(s)
    BY <1>4
  <2>2. CASE s # t
    BY <1>3, <1>5, <1>10, <1>13, <2>1, <2>2, CachedFrame, NoticedFrame DEF disk
  <2>3. CASE s = t
    <3>1. Seen(s)'
      BY <1>3, <1>13, <2>1, <2>3 DEF Noticed, Seen, disk
    <3> QED
      BY <1>13, <2>3, <3>1 DEF Noticed
  <2> QED
    BY <2>2, <2>3
<1> QED
  BY <1>14 DEF Followed

\* An import asked for reads the source as it will be.
LEMMA CachedAsked ==
  ASSUME Inv, NEW s \in Sources, NEW job, Cached(s),
         Imports(s)' = Imports(s) \/ (Imports(s) = {} /\ Imports(s)' = {job} /\ job.made = None),
         UNCHANGED <<file, shared, cache>>
  PROVE  Cached(s)'
<1> USE DEF cache
<1>1. CASE Imports(s)' = Imports(s)
  BY <1>1, CachedFrame
<1>2. CASE Imports(s) = {} /\ Imports(s)' = {job} /\ job.made = None
  <2>1. ~Passes(s, file[s], shared)
    BY <1>2, NothingToVouch
  <2> QED
    BY <1>2, <2>1, CachedStill
<1> QED
  BY <1>1, <1>2

\* An import on request is of the file as it will be read, or remembers that it must be done again.
LEMMA reimportKeepsFollowed == ASSUME Inv, Followed, NEW s \in Sources, reimport(s) PROVE Followed'
<1> DEFINE job == ImportJob(s, known[s].record)
<1>1. /\ open /\ ~scan.on /\ known[s] # None
      /\ known[s].importing =>
           known' = [known EXCEPT ![s].forced = TRUE, ![s].changed = TRUE] /\ jobs' = jobs
      /\ ~known[s].importing =>
           known' = [known EXCEPT ![s] = Queued(known[s])] /\ jobs' = jobs \cup {job}
      /\ UNCHANGED <<disk, cache, open, records, assets, filesChanged, scan, outcomes>>
  BY DEF reimport, Again
<1>2. TypeOK /\ Sound(s) /\ known[s] \in Source /\ known \in [Sources -> Source \cup {None}]
  BY <1>1 DEF Inv, TypeOK
<1>3. Imports(s) = {} => NewJob(job, s, known[s].record) /\ job.option = option[s]
  BY <1>1, <1>2, RecordsAreTyped, ImportJobIsNew
<1> HIDE DEF job
<1>4. \A t : Results(t)' = Results(t)
  BY <1>1, ResultsSame
<1>5. ~known[s].importing => ~InFlight(s) /\ Imports(s) = {} /\ Results(s) = {}
  BY <1>1, <1>2, InFlightIs DEF Sound, Flagged
<1>6. /\ \A t \in Sources : t # s => known'[t] = known[t] /\ Imports(t)' = Imports(t)
      /\ known'[s] # None
      /\ known[s].importing => known'[s].changed /\ Imports(s)' = Imports(s)
      /\ ~known[s].importing => Imports(s)' = {job}
  <2>1. CASE known[s].importing
    <3> DEFINE marked == [[known[s] EXCEPT !.forced = TRUE] EXCEPT !.changed = TRUE]
    <3>1. marked \in Source /\ marked.changed /\ known' = [known EXCEPT ![s] = marked] /\ jobs' = jobs
      BY <1>1, <1>2, <2>1 DEF Source
    <3> HIDE DEF marked
    <3>2. \A t : Imports(t)' = Imports(t)
      BY <3>1, ImportsSame
    <3> QED
      BY <1>2, <2>1, <3>1, <3>2, NoneIsNone
  <2>2. CASE ~known[s].importing
    <3>1. Queued(known[s]) \in Source /\ known' = [known EXCEPT ![s] = Queued(known[s])] /\ jobs' = jobs \cup {job}
      BY <1>1, <1>2, <2>2 DEF Queued, Source
    <3>2. Imports(s) = {} /\ job.source = s
      BY <1>3, <1>5, <2>2 DEF NewJob
    <3>3. Imports(s)' = {job} /\ \A t : t # s => Imports(t)' = Imports(t)
      BY <3>1, <3>2, ImportsQueued
    <3> QED
      BY <1>2, <2>2, <3>1, <3>3, NoneIsNone
  <2> QED
    BY <2>1, <2>2
<1>7. ASSUME NEW t \in Sources PROVE Cached(t)' /\ Noticed(t)'
  <2>1. Cached(t) /\ Noticed(t)
    BY DEF Followed
  <2>2. CASE t # s
    BY <1>1, <1>4, <1>6, <2>1, <2>2, CachedFrame, NoticedFrame DEF disk, cache
  <2>3. CASE t = s
    <3>1. Cached(s)'
      BY <1>1, <1>3, <1>5, <1>6, <2>1, <2>3, CachedAsked DEF disk, NewJob
    <3>2. Seen(s)'
      BY <1>1, <1>6, <2>1, <2>3 DEF Noticed, Seen, disk
    <3>3. CASE known[s].importing
      BY <1>6, <2>3, <3>1, <3>2, <3>3 DEF Noticed, Settled
    <3>4. CASE ~known[s].importing
      <4>1. InFlight(s)'
        BY <1>6, <3>4, InFlightIs
      <4>2. Imports(s)' = {job} /\ Results(s)' = {} /\ job.option = option[s] /\ job.stage = "queued"
        BY <1>3, <1>4, <1>5, <1>6, <3>4 DEF NewJob
      <4> QED
        BY <1>1, <2>3, <3>1, <3>2, <4>1, <4>2 DEF Noticed, Settled, disk
    <3> QED
      BY <3>3, <3>4
  <2> QED
    BY <2>2, <2>3
<1> QED
  BY <1>7 DEF Followed

\* So is one with new options.
LEMMA setImportOptionsKeepsFollowed ==
  ASSUME Inv, Followed, NEW s \in Sources, setImportOptions(s)
  PROVE  Followed'
<1>1. PICK value \in Options :
      IF known[s].importing
      THEN jobs' = jobs
      ELSE jobs' = jobs \cup {[ImportJob(s, known[s].record) EXCEPT !.option = value]}
  BY DEF setImportOptions
<1> DEFINE job == [ImportJob(s, known[s].record) EXCEPT !.option = value]
<1>2. /\ known[s] # None /\ filesChanged'
      /\ UNCHANGED <<file, shared, cache, open, records, assets, scan, outcomes>>
  BY DEF setImportOptions
<1>3. TypeOK /\ Sound(s)
  BY DEF Inv
<1>4. Imports(s) = {} => NewJob(job, s, known[s].record)
  BY <1>2, <1>3, RecordsAreTyped, ImportJobIsNew
<1>5. ~known[s].importing => Imports(s) = {}
  BY <1>2, <1>3, InFlightIs DEF Sound, Flagged
<1>6. known[s].importing => jobs' = jobs
  BY <1>1
<1>7. ~known[s].importing => jobs' = jobs \cup {job}
  BY <1>1
<1> HIDE DEF job
<1>8. ASSUME NEW t \in Sources PROVE Cached(t)' /\ Noticed(t)'
  <2>1. Cached(t) /\ Noticed(t)'
    BY <1>2, NoticedTold DEF Followed
  <2>2. CASE known[s].importing
    BY <1>2, <1>6, <2>1, <2>2, ImportsSame, CachedFrame DEF cache
  <2>3. CASE ~known[s].importing
    <3>1. Imports(s) = {} /\ job.source = s /\ job.made = None
      BY <1>4, <1>5, <2>3 DEF NewJob
    <3>2. Imports(s)' = {job} /\ \A u : u # s => Imports(u)' = Imports(u)
      BY <1>7, <2>3, <3>1, ImportsQueued
    <3> QED
      BY <1>2, <2>1, <3>1, <3>2, CachedAsked
  <2> QED
    BY <2>2, <2>3
<1> QED
  BY <1>8 DEF Followed

-----------------------------------------------------------------------------
(* The program opens and closes the database, or crashes, and the files change. *)

\* A database that opens has everything to scan.
LEMMA initializeKeepsFollowed == ASSUME Inv, Followed, initialize PROVE Followed'
<1>1. /\ jobs = {}
      /\ artifact' = [a \in Sources \X Parts |-> IF a \in Cited THEN artifact[a] ELSE None]
      /\ scan' = [on |-> TRUE, opening |-> TRUE, listed |-> Present, unvisited |-> Present]
      /\ UNCHANGED <<disk, recordFile, known, assets, filesChanged, jobs, outcomes, left>>
  BY DEF initialize
<1>2. \A s \in Sources : \A part \in partsOf(recordFile[s]) : artifact'[<<s, part>>] = artifact[<<s, part>>]
  <2>1. ASSUME NEW s \in Sources, NEW part \in partsOf(recordFile[s])
        PROVE  <<s, part>> \in Cited /\ <<s, part>> \in Sources \X Parts
    <3>1. part \in Parts
      BY RecordsAreTyped DEF Inv
    <3> QED
      BY <3>1 DEF Cited, AssetsOf
  <2> QED
    BY <1>1, <2>1
<1>3. ASSUME NEW s \in Sources PROVE Cached(s)' /\ Noticed(s)'
  <2>1. Imports(s)' = Imports(s)
    BY <1>1, ImportsSame
  <2>2. Cached(s)'
    BY <1>1, <1>2, <2>1, CachedFrame DEF Followed, disk
  <2>3. scan'.on /\ (s \in scan'.listed <=> file'[s] # Absent) /\ s \notin scan'.listed \ scan'.unvisited
    BY <1>1 DEF Present, disk
  <2> QED
    BY <2>2, <2>3 DEF Noticed, Seen, Settled
<1> QED
  BY <1>3 DEF Followed

\* A closed database is told of nothing, and the next scan looks at everything.
LEMMA closeKeepsFollowed == ASSUME Followed, close PROVE Followed'
<1>1. ~open' /\ jobs' = jobs /\ UNCHANGED <<disk, cache>>
  BY DEF close, Forgets
<1>2. ASSUME NEW s \in Sources PROVE Cached(s)' /\ Noticed(s)'
  <2>1. Cached(s)'
    BY <1>1, ImportsSame, CachedFrame DEF Followed, disk, cache
  <2> QED
    BY <1>1, <2>1, NoticedTold
<1> QED
  BY <1>2 DEF Followed

\* A crash comes with the record of what is being written, or before it.
LEMMA CrashKeepsFollowed == ASSUME Followed, Surprises = {}, Crash PROVE Followed'
<1>1. ~open' /\ jobs' = {} /\ UNCHANGED <<disk, cache>> /\ \A s \in Sources : ~Passes(s, file[s], shared)
  BY DEF Crash, Forgets
<1>2. ASSUME NEW s \in Sources PROVE Cached(s)' /\ Noticed(s)'
  <2>1. Imports(s)' = {} /\ Cached(s)
    BY <1>1 DEF Imports, Followed
  <2>2. Cached(s)'
    BY <1>1, <2>1, CachedStill DEF disk, cache
  <2> QED
    BY <1>1, <2>2, NoticedTold
<1> QED
  BY <1>2 DEF Followed

\* A change of the files is told, and makes no record pass for what it is not.
LEMMA FilesKeepFollowed ==
  ASSUME Inv, Followed, Told, ~scan.opening, open' = open, UNCHANGED <<cache, jobs>>,
         \A s \in Sources : \/ file'[s] = file[s] /\ shared' = shared
                            \/ /\ ~GoesBack(s, file'[s], shared')
                               /\ \A job \in Imports(s) : job.made # None => job.made.shared = shared'
  PROVE  Followed'
<1>1. ASSUME NEW s \in Sources PROVE Cached(s)' /\ Noticed(s)'
  <2>1. Cached(s) /\ Imports(s)' = Imports(s)
    BY ImportsSame DEF Followed
  <2>2. Noticed(s)'
    BY NoticedTold DEF Told
  <2>3. CASE file'[s] = file[s] /\ shared' = shared
    BY <2>1, <2>2, <2>3, CachedFrame DEF cache
  <2>4. CASE /\ ~GoesBack(s, file'[s], shared')
             /\ \A job \in Imports(s) : job.made # None => job.made.shared = shared'
    <3>1. \A content, common : Passes(s, content, common)' <=> Passes(s, content, common)
      BY PassesSame DEF cache
    <3>2. AsRead(s)'
      BY <2>1, <2>4 DEF AsRead, GoesBack
    <3>3. Vouched(s)'
      BY <2>1, <2>4, <3>1 DEF Vouched, GoesBack
    <3>4. Shows(s)' /\ Shaped(s)'
      BY <2>1, <3>1 DEF Cached, Shows, Shaped, cache
    <3> QED
      BY <2>2, <3>2, <3>3, <3>4 DEF Cached
  <2> QED
    BY <2>3, <2>4
<1> QED
  BY <1>1 DEF Followed

\* A file that changes has a new stamp, and the watcher tells of it.
LEMMA changeFileKeepsFollowed ==
  ASSUME Inv, Followed, Surprises = {}, NEW s \in Sources, changeFile(s)
  PROVE  Followed'
<1>1. PICK content \in Stamps : ~GoesBack(s, content, shared) /\ file' = [file EXCEPT ![s] = content]
  BY DEF changeFile
<1>2. /\ ~scan.opening /\ Told
      /\ UNCHANGED <<shared, option, cache, open, records, known, assets, scan, jobs, outcomes>>
  BY DEF changeFile, Opening
<1>3. file'[s] = content /\ \A t \in Sources : t # s => file'[t] = file[t]
  BY <1>1 DEF Inv, TypeOK
<1>4. \A job \in Imports(s) : job.made # None => job.made.shared = shared'
  BY <1>2 DEF Followed, Cached, AsRead
<1>5. ~GoesBack(s, file'[s], shared')
  BY <1>1, <1>2, <1>3
<1> QED
  BY <1>2, <1>3, <1>4, <1>5, FilesKeepFollowed

\* So has what depends on a shared file.
LEMMA changeSharedKeepsFollowed ==
  ASSUME Inv, Followed, Surprises = {}, changeShared
  PROVE  Followed'
<1>1. PICK content \in Contents : (\A s \in Sources : ~GoesBack(s, file[s], content)) /\ shared' = content
  BY DEF changeShared
<1>2. /\ ~scan.opening /\ ~BeingRead /\ Told
      /\ UNCHANGED <<file, option, cache, open, records, known, assets, scan, jobs, outcomes>>
  BY DEF changeShared, Opening
<1>3. ASSUME NEW s \in Sources
      PROVE  /\ ~GoesBack(s, file'[s], shared')
             /\ \A job \in Imports(s) : job.made # None => job.made.shared = shared'
  <2>1. ~GoesBack(s, file'[s], shared')
    BY <1>1, <1>2
  <2> QED
    BY <1>2, <2>1 DEF BeingRead, Imports
<1> QED
  BY <1>2, <1>3, FilesKeepFollowed

-----------------------------------------------------------------------------
(* The second invariant. *)

\* Nothing is followed at first, and nothing is offered.
LEMMA InitKeepsFollowed == Init => Followed
<1> SUFFICES ASSUME Init, NEW s \in Sources PROVE Cached(s) /\ Noticed(s)
  BY DEF Followed
<1>1. Imports(s) = {} /\ ~open /\ recordFile[s] = None
  BY DEF Init, Imports
<1>2. AsRead(s) /\ Vouched(s) /\ Shows(s) /\ Shaped(s)
  BY <1>1 DEF AsRead, Vouched, Shows, Shaped, Passes
<1> QED
  BY <1>1, <1>2 DEF Cached, Noticed, Seen, Settled

\* Every step keeps the second invariant, the first one given.
LEMMA NextKeepsFollowed == ASSUME Inv, Followed, Surprises = {}, [Next]_vars PROVE Followed'
<1>1. CASE Work
  <2>1. PICK job \in jobs :
          \/ stampSource(job) \/ runImporter(job) \/ cancelled(job) \/ writeArtifact(job) \/ writeRecord(job)
    BY <1>1 DEF Work
  <2> QED
    BY <2>1, stampSourceKeepsFollowed, runImporterKeepsFollowed, cancelledKeepsFollowed,
       writeArtifactKeepsFollowed, writeRecordKeepsFollowed
<1>2. CASE update
  BY <1>2, beginScanKeepsFollowed, scanFileKeepsFollowed, endScanKeepsFollowed, applyToNothingKeepsFollowed,
     applyToSourceKeepsFollowed DEF update
<1>3. CASE initialize \/ close \/ Crash \/ changeShared
  BY <1>3, initializeKeepsFollowed, closeKeepsFollowed, CrashKeepsFollowed, changeSharedKeepsFollowed
<1>4. CASE \E s \in Sources : reimport(s) \/ setImportOptions(s) \/ changeFile(s)
  BY <1>4, reimportKeepsFollowed, setImportOptionsKeepsFollowed, changeFileKeepsFollowed
<1>5. CASE UNCHANGED vars
  <2>1. \A s : Imports(s)' = Imports(s) /\ Results(s)' = Results(s)
    BY <1>5, ImportsSame, ResultsSame DEF vars
  <2>2. ASSUME NEW s \in Sources PROVE Cached(s)' /\ Noticed(s)'
    BY <1>5, <2>1, CachedFrame, NoticedFrame DEF Followed, vars
  <2> QED
    BY <2>2 DEF Followed
<1> QED
  BY <1>1, <1>2, <1>3, <1>4, <1>5 DEF Next

\* Once nothing is left to do, the sources are the files of the folder, each was tried as it is, and
\* what one offers was made of the file, the dependency and the option as they are: no change is
\* missed, and no restart or crash makes an older artifact pass for the new one (scanFile,
\* needsImport, applyOutcome, runImport). It fails once Surprises holds "opening", "late", "back" or
\* "returns"; "gone" takes Inv away, on which the proof rests.
THEOREM ArtifactsAreCurrent == ASSUME Surprises = {} PROVE Spec => []ArtifactsFollow
<1>1. Init => Inv /\ Followed
  BY InitKeepsInv, InitKeepsFollowed
<1>2. Inv /\ Followed /\ [Next]_vars => Inv' /\ Followed'
  BY NextKeepsInv, NextKeepsFollowed DEF NoneAstray
<1>3. Inv /\ Followed => ArtifactsFollow
  <2> SUFFICES ASSUME Inv, Followed, AtRest PROVE ArtifactsFollow
    BY DEF ArtifactsFollow
  <2>1. ASSUME NEW s \in Sources
        PROVE  /\ ~InFlight(s) /\ Imports(s) = {}
               /\ known[s] # None => ~known[s].changed
               /\ known[s] # None <=> s \in Present
    <3>1. DOMAIN outcomes = {}
      BY EmptySeq DEF AtRest
    <3>2. Imports(s) = {} /\ Results(s) = {} /\ ~InFlight(s)
      BY <3>1, InFlightIs DEF AtRest, Imports, Results
    <3>3. known[s] # None => ~known[s].changed
      BY <3>2 DEF Inv, Sound, Flagged
    <3> QED
      BY <3>2, <3>3 DEF AtRest, Followed, Noticed, Seen, Present
  <2>2. ASSUME NEW s \in Present
        PROVE  /\ known[s].record # None
               /\ known[s].record.source = file[s]
               /\ known[s].record.option = option[s]
               /\ Ready(s) => /\ known[s].record.parts = Makes[file[s]]
                              /\ \A part \in Makes[file[s]] : artifact[<<s, part>>] = Current(s)
    <3> DEFINE record == known[s].record
    <3>1. s \in Sources /\ known[s] # None /\ ~known[s].changed /\ ~InFlight(s) /\ Imports(s) = {}
      BY <2>1 DEF Present
    <3>2. record # None /\ Stands(s, record)
      BY <3>1 DEF AtRest, Followed, Noticed, Settled
    <3>3. recordFile[s] = record
      BY <3>1 DEF AtRest, Inv, Sound, Recorded, Kept
    <3>4. ~Passes(s, file[s], shared)
      BY <3>1, NothingToVouch DEF Followed
    <3>5. ASSUME Ready(s)
          PROVE  /\ record.parts = Makes[file[s]]
                 /\ \A part \in Makes[file[s]] : artifact[<<s, part>>] = Current(s)
      <4>1. ~record.failed /\ record.source = file[s] /\ record.shared = shared /\ record.option = option[s]
        BY <3>2, <3>5 DEF Ready, Stands
      <4>2. record.parts = Makes[record.source]
        BY <3>1, <3>2, <3>3, <3>4, <4>1 DEF Followed, Cached, Shows
      <4> HIDE DEF record
      <4> QED
        BY <3>2, <3>3, <3>4, <4>1, <4>2 DEF Passes, Current
    <3> QED
      BY <3>2, <3>5 DEF Stands
  <2>3. Present = {s \in Sources : known[s] # None}
    BY <2>1 DEF Present
  <2> QED
    BY <2>2, <2>3 DEF ArtifactsFollow
<1> QED
  BY <1>1, <1>2, <1>3, PTL DEF Spec

=============================================================================
