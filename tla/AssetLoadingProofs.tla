------------------------- MODULE AssetLoadingProofs -------------------------
(***************************************************************************)
(* Proofs about AssetLoading, for every number of assets, workers, imports  *)
(* and sources, and every size and budget: the inductive invariant Inv and  *)
(* the invariants it gives.                                                 *)
(***************************************************************************)
EXTENDS AssetLoading, SequenceFacts

busy == {w \in Workers : work[w] # Idle}
ended == ToSet(finished) \cup ToSet(unfinished)
Cancelling == {"cancelLoads", "asleepCancelling"}

(* The inductive invariant. *)

\* A job reads nothing before it starts, and starts only under the source it was asked of.
JobsAreCurrent ==
  \A load \in ToSet(jobs) :
    /\ load.stamp = Unread /\ load.generation <= generation
    /\ load.generation = generation =>
         load.source = source /\ main \in {"free", "waitForLoads", "asleep"}

\* The loads that run are of this generation or an earlier one, and counted.
WorkIsCounted ==
  /\ running = Cardinality(busy)
  /\ \A w \in busy : work[w].generation <= generation

\* A load that ended has read its artifact, or failed.
EndedAreRead == \A load \in ended : load.stamp # Unread

\* No request was made that m_nextRequest has not counted.
RequestsAreCounted ==
  /\ \A load \in loadsAnywhere : load.request \in 1 .. nextRequest
  /\ \A a \in Assets : loading[a] <= nextRequest

\* What an awaited load has read is on the disk still, unless an import is about to be told of.
AwaitedAreFresh ==
  \A load \in loadsAnywhere :
    Awaited(load) /\ load.stamp # Unread /\ load.id \notin ToSet(news)
      => load.stamp \in {0, file[load.id]}

\* Once the manager is gone it awaits nothing.
GoneAwaitsNothing == main = "gone" => \A a \in Assets : loading[a] = 0

Inv ==
  /\ TypeOK /\ JobsAreCurrent /\ WorkIsCounted /\ EndedAreRead /\ RequestsAreCounted
  /\ AwaitedAreFresh /\ GoneAwaitsNothing
  /\ NoLoadIsLost /\ WorkersReadTheirSource /\ ShowsTheLatest /\ MaterialsFollow

-----------------------------------------------------------------------------
(* What the operators give. *)

\* What follows from the types: what is in the sequences are loads.
LEMMA LoadsAreLoads ==
  ASSUME TypeOK
  PROVE  /\ ToSet(jobs) \subseteq Loads /\ ended \subseteq Loads /\ loadsAnywhere \subseteq Loads
         /\ busy \subseteq Workers /\ \A w \in busy : work[w] \in Loads
         /\ ToSet(news) \subseteq Assets
<1>1. ToSet(jobs) \subseteq Loads
  BY ToSetOfSeq DEF TypeOK
<1>2. ToSet(finished) \subseteq Loads /\ ToSet(unfinished) \subseteq Loads
  BY ToSetOfSeq DEF TypeOK
<1>3. \A w \in busy : work[w] \in Loads
  BY DEF TypeOK, busy
<1>4. loadsAnywhere \subseteq Loads
  BY <1>1, <1>2, <1>3 DEF loadsAnywhere, busy
<1>5. ToSet(news) \subseteq Assets
  BY ToSetOfSeq DEF TypeOK
<1> QED
  BY <1>1, <1>2, <1>3, <1>4, <1>5 DEF ended, busy

\* Idle is no load.
LEMMA IdleIsNoLoad == Idle \notin Loads
BY DEF Idle, Loads

\* toLoad lists what mesh() and texture() would start of the assets asked for.
LEMMA ToLoadLists ==
  ASSUME NEW asked \in SUBSET Assets, NEW pending
  PROVE  /\ toLoad(asked, pending) \in Seq(Assets)
         /\ ToSet(toLoad(asked, pending)) =
              {a \in asked \cap (known' \ failed') : shown'[a] = Nothing /\ pending[a] = 0}
<1> DEFINE wanted == {a \in asked \cap (known' \ failed') : shown'[a] = Nothing /\ pending[a] = 0}
<1>1. IsFiniteSet(wanted)
  BY AssetLoadingAssumption, FS_Subset
<1>2. SetToSeq(wanted) \in Seq(wanted) /\ ToSet(SetToSeq(wanted)) = wanted
  BY <1>1, SetToSeqLists
<1>3. SetToSeq(wanted) \in Seq(Assets)
  BY <1>2, SeqMonotonic
<1> QED
  BY <1>2, <1>3 DEF toLoad

\* readAgain keeps those of the imported assets that are wanted.
readAgainStep(kept, imported, wanted, n) ==
  [k \in 0 .. n |->
    IF k = 0 THEN <<>>
    ELSE IF imported[k] \in wanted THEN Append(kept[k - 1], imported[k]) ELSE kept[k - 1]]

\* The fold by which readAgain is defined is defined for every length.
LEMMA ReadAgainExists ==
  ASSUME NEW imported, NEW wanted, NEW n \in Nat
  PROVE  \E kept : kept = readAgainStep(kept, imported, wanted, n)
<1> DEFINE F(k, kept) == kept = readAgainStep(kept, imported, wanted, k)
           Bad == {k \in Nat : ~ \E kept : F(k, kept)}
<1>1. SUFFICES ASSUME Bad # {} PROVE FALSE
  OBVIOUS
<1>2. PICK k \in Bad : \A m \in Bad : k <= m
  <2>1. Bad \in SUBSET Nat
    OBVIOUS
  <2> HIDE DEF Bad
  <2> QED
    BY <1>1, <2>1, LeastNat
<1>3. k # 0
  <2>1. F(0, [i \in 0 .. 0 |-> <<>>])
    BY DEF readAgainStep
  <2> QED
    BY <1>2, <2>1
<1>4. PICK kept : F(k - 1, kept)
  BY <1>2, <1>3
<1> DEFINE longer == [i \in 0 .. k |->
                        IF i = k
                          THEN IF imported[k] \in wanted THEN Append(kept[k - 1], imported[k]) ELSE kept[k - 1]
                          ELSE kept[i]]
<1>5. F(k, longer)
  <2>1. k \in Nat \ {0} /\ \A i \in 0 .. k : i # k => i \in 0 .. k - 1
    BY <1>2, <1>3
  <2>2. \A i \in 0 .. k - 1 : longer[i] = kept[i]
    BY <2>1
  <2>3. \A i \in 0 .. k - 1 :
          kept[i] = IF i = 0 THEN <<>>
                    ELSE IF imported[i] \in wanted THEN Append(kept[i - 1], imported[i]) ELSE kept[i - 1]
    BY <1>4 DEF readAgainStep
  <2>4. \A i \in 0 .. k :
          longer[i] = IF i = 0 THEN <<>>
                      ELSE IF imported[i] \in wanted THEN Append(longer[i - 1], imported[i]) ELSE longer[i - 1]
    <3>1. TAKE i \in 0 .. k
    <3>2. CASE i = k
      BY <2>1, <2>2, <3>2
    <3>3. CASE i # k
      BY <2>1, <2>2, <2>3, <3>3
    <3> QED
      BY <3>2, <3>3
  <2> HIDE DEF longer
  <2>5. longer = [i \in 0 .. k |-> longer[i]]
    BY DEF longer
  <2> QED
    BY <2>4, <2>5 DEF readAgainStep
<1> QED
  BY <1>2, <1>5

\* readAgain lists what was imported and is wanted.
LEMMA ReadAgainLists ==
  ASSUME NEW imported \in Seq(Assets), NEW wanted
  PROVE  /\ readAgain(imported, wanted) \in Seq(Assets)
         /\ ToSet(readAgain(imported, wanted)) = ToSet(imported) \cap wanted
<1> DEFINE L == Len(imported)
           kept == CHOOSE kept : kept = readAgainStep(kept, imported, wanted, L)
           upTo(k) == {imported[i] : i \in 1 .. k}
           Good(k) == kept[k] \in Seq(Assets) /\ ToSet(kept[k]) = upTo(k) \cap wanted
           Bad == {k \in 0 .. L : ~Good(k)}
<1> HIDE DEF Good
<1>1. L \in Nat /\ \A i \in 1 .. L : imported[i] \in Assets
  BY LenProperties, ElementOfSeq
<1>2. kept = readAgainStep(kept, imported, wanted, L)
  BY <1>1, ReadAgainExists
<1>3. readAgain(imported, wanted) = kept[L]
  BY DEF readAgain, readAgainStep
<1> HIDE DEF kept
<1>4. Bad = {}
  <2>1. SUFFICES ASSUME Bad # {} PROVE FALSE
    OBVIOUS
  <2>2. PICK k \in Bad : \A m \in Bad : k <= m
    <3>1. Bad \in SUBSET Nat
      BY <1>1
    <3> HIDE DEF Bad
    <3> QED
      BY <2>1, <3>1, LeastNat
  <2>3. k # 0
    <3>1. kept[0] = <<>>
      BY <1>1, <1>2 DEF readAgainStep
    <3>2. upTo(0) = {} /\ <<>> \in Seq(Assets) /\ ToSet(<<>>) = {}
      BY DEF ToSet
    <3>3. Good(0)
      BY <3>1, <3>2 DEF Good
    <3> QED
      BY <2>2, <3>3
  <2>4. k - 1 \in 0 .. L /\ Good(k - 1) /\ k \in 1 .. L
    <3>1. k \in 1 .. L /\ k - 1 \in 0 .. L /\ ~(k <= k - 1)
      BY <1>1, <2>2, <2>3
    <3>2. k - 1 \notin Bad
      BY <2>2, <3>1
    <3> QED
      BY <3>1, <3>2
  <2>5. kept[k] = IF imported[k] \in wanted THEN Append(kept[k - 1], imported[k]) ELSE kept[k - 1]
    <3>1. \A i \in 0 .. L :
            kept[i] = IF i = 0 THEN <<>>
                      ELSE IF imported[i] \in wanted THEN Append(kept[i - 1], imported[i]) ELSE kept[i - 1]
      <4> HIDE DEF Bad
      <4> QED
        BY <1>2 DEF readAgainStep
    <3>2. k \in 0 .. L /\ k # 0
      BY <1>1, <2>4
    <3> HIDE DEF Bad
    <3> QED
      BY <3>1, <3>2
  <2>6. upTo(k) = upTo(k - 1) \cup {imported[k]}
    BY <1>1, <2>4
  <2>7. CASE imported[k] \in wanted
    <3>1. kept[k] \in Seq(Assets) /\ ToSet(kept[k]) = ToSet(kept[k - 1]) \cup {imported[k]}
      BY <1>1, <2>4, <2>5, <2>7, ToSetAppend, AppendProperties DEF Good
    <3> QED
      BY <2>2, <2>4, <2>6, <2>7, <3>1 DEF Good
  <2>8. CASE imported[k] \notin wanted
    BY <2>2, <2>4, <2>5, <2>6, <2>8 DEF Good
  <2> QED
    BY <2>7, <2>8
<1>5. Good(L)
  <2>1. L \in 0 .. L /\ L \notin Bad
    BY <1>1, <1>4
  <2> QED
    BY <2>1
<1>6. upTo(L) = ToSet(imported)
  BY ToSetOfSeq
<1> QED
  BY <1>3, <1>5, <1>6 DEF Good

\* A frame hands over so many of the loads that ended, from the first.
LEMMA HandedOverIsSome ==
  ASSUME NEW loads \in Seq(Loads), NEW budget
  PROVE  handedOver(loads, budget) \in 0 .. Len(loads)
<1> DEFINE Ends == {k \in 0 .. Len(loads) : k = Len(loads) \/ ~Fits(loads, k, budget)}
<1>1. Len(loads) \in Nat
  BY LenProperties
<1>2. Ends \in SUBSET Nat /\ Ends # {}
  BY <1>1
<1>3. PICK n \in Ends : \A m \in Ends : n <= m
  <2> HIDE DEF Ends
  <2> QED
    BY <1>2, LeastNat
<1>4. n \in 0 .. Len(loads) /\ (n < Len(loads) => ~Fits(loads, n, budget))
  BY <1>1, <1>3
<1>5. \A k \in 0 .. n - 1 : Fits(loads, k, budget)
  <2>1. TAKE k \in 0 .. n - 1
  <2>2. k \in 0 .. Len(loads) /\ k # Len(loads) /\ ~(n <= k)
    BY <1>1, <1>4
  <2>3. k \notin Ends
    BY <1>3, <2>2
  <2> QED
    BY <2>2, <2>3
<1> QED
  BY <1>4, <1>5 DEF handedOver

\* The loads of ids are queued under new requests, which their assets await.
LEMMA StartLoadsStarts ==
  ASSUME TypeOK, NEW ids \in Seq(Assets), NEW pending \in [Assets -> Nat], startLoads(ids, pending)
  PROVE  /\ nextRequest' \in Nat /\ nextRequest' >= nextRequest
         /\ loading' \in [Assets -> Nat]
         /\ jobs' \in Seq(Loads) /\ ToSet(jobs) \subseteq ToSet(jobs')
         /\ \A load \in ToSet(jobs') \ ToSet(jobs) :
              /\ load.id \in ToSet(ids) /\ load.stamp = Unread
              /\ load.generation = generation /\ load.source = source
              /\ load.request \in nextRequest + 1 .. nextRequest'
         /\ \A a \in Assets \ ToSet(ids) : loading'[a] = pending[a]
         /\ \A a \in ToSet(ids) :
              /\ loading'[a] \in nextRequest + 1 .. nextRequest'
              /\ \E load \in ToSet(jobs') :
                   load.id = a /\ load.request = loading'[a] /\ load.generation = generation
<1> DEFINE requestOf(a) == nextRequest + CHOOSE k \in DOMAIN ids : ids[k] = a
           loadOf(a) == [id |-> a, request |-> requestOf(a), generation |-> generation,
                         source |-> source, stamp |-> Unread]
           new == [k \in DOMAIN ids |-> loadOf(ids[k])]
<1>1. /\ nextRequest' = nextRequest + Len(ids)
      /\ loading' = [a \in Assets |-> IF a \in ToSet(ids) THEN requestOf(a) ELSE pending[a]]
      /\ jobs' = jobs \o new
  BY DEF startLoads
<1>2. /\ DOMAIN ids = 1 .. Len(ids) /\ Len(ids) \in Nat /\ \A k \in 1 .. Len(ids) : ids[k] \in Assets
      /\ ToSet(ids) = {ids[k] : k \in 1 .. Len(ids)}
  BY LenProperties, ElementOfSeq, ToSetOfSeq
<1>3. nextRequest \in Nat /\ generation \in Nat /\ source \in Nat /\ jobs \in Seq(Loads)
  BY DEF TypeOK
<1>4. \A a \in ToSet(ids) : requestOf(a) \in nextRequest + 1 .. nextRequest'
  <2>1. TAKE a \in ToSet(ids)
  <2>2. (CHOOSE k \in DOMAIN ids : ids[k] = a) \in 1 .. Len(ids)
    BY <1>2
  <2> QED
    BY <1>1, <1>2, <1>3, <2>2
<1> HIDE DEF requestOf
<1>5. \A a \in ToSet(ids) : requestOf(a) \in Nat /\ loadOf(a) \in Loads
  <2>1. TAKE a \in ToSet(ids)
  <2>2. a \in Assets /\ nextRequest' \in Nat
    BY <1>1, <1>2, <1>3
  <2>3. requestOf(a) \in Nat
    BY <1>3, <1>4, <2>2
  <2> QED
    BY <1>3, <2>2, <2>3 DEF Loads
<1>6. new \in Seq(Loads) /\ ToSet(new) = {loadOf(a) : a \in ToSet(ids)}
  <2>1. new \in [1 .. Len(ids) -> Loads]
    BY <1>2, <1>5
  <2>2. new \in Seq(Loads)
    BY <1>2, <2>1
  <2>3. ToSet(new) = {new[k] : k \in 1 .. Len(ids)}
    BY <1>2 DEF ToSet
  <2>4. \A k \in 1 .. Len(ids) : new[k] = loadOf(ids[k])
    BY <1>2
  <2> HIDE DEF new, loadOf
  <2> QED
    BY <1>2, <2>2, <2>3, <2>4
<1>7. jobs' \in Seq(Loads) /\ ToSet(jobs') = ToSet(jobs) \cup {loadOf(a) : a \in ToSet(ids)}
  BY <1>1, <1>3, <1>6, ToSetConcat
<1>8. loading' \in [Assets -> Nat]
  BY <1>1, <1>5
<1>9. \A a \in ToSet(ids) : loading'[a] = requestOf(a) /\ loadOf(a) \in ToSet(jobs')
  BY <1>1, <1>2, <1>7
<1>10. \A a \in Assets \ ToSet(ids) : loading'[a] = pending[a]
  BY <1>1
<1>11. \A load \in ToSet(jobs') \ ToSet(jobs) :
         /\ load.id \in ToSet(ids) /\ load.stamp = Unread
         /\ load.generation = generation /\ load.source = source
         /\ load.request \in nextRequest + 1 .. nextRequest'
  BY <1>4, <1>7
<1>12. \A a \in ToSet(ids) :
         /\ loading'[a] \in nextRequest + 1 .. nextRequest'
         /\ \E load \in ToSet(jobs') :
              load.id = a /\ load.request = loading'[a] /\ load.generation = generation
  BY <1>4, <1>9
<1>13. nextRequest' \in Nat /\ nextRequest' >= nextRequest
  BY <1>1, <1>2, <1>3
<1> HIDE DEF loadOf, new
<1> QED
  BY <1>7, <1>8, <1>10, <1>11, <1>12, <1>13

-----------------------------------------------------------------------------
(* The invariant holds at first. *)

\* A manager that draws nothing is as the invariant says.
LEMMA InitInv == Init => Inv
<1> SUFFICES ASSUME Init PROVE Inv
  OBVIOUS
<1>1. ToSet(jobs) = {} /\ ToSet(finished) = {} /\ ToSet(unfinished) = {} /\ ToSet(news) = {}
  BY DEF Init, ToSet
<1>2. busy = {} /\ ended = {} /\ loadsAnywhere = {}
  BY <1>1 DEF Init, busy, ended, loadsAnywhere
<1>3. TypeOK
  BY DEF Init, TypeOK, Nothing
<1>4. JobsAreCurrent /\ EndedAreRead /\ AwaitedAreFresh
  BY <1>1, <1>2 DEF JobsAreCurrent, EndedAreRead, AwaitedAreFresh
<1>5. WorkIsCounted
  BY <1>2, FS_EmptySet DEF WorkIsCounted, Init
<1>6. RequestsAreCounted /\ GoneAwaitsNothing /\ NoLoadIsLost
  BY <1>2 DEF RequestsAreCounted, GoneAwaitsNothing, NoLoadIsLost, Init
<1>7. WorkersReadTheirSource /\ ShowsTheLatest /\ MaterialsFollow
  BY DEF Init, WorkersReadTheirSource, ShowsTheLatest, MaterialsFollow
<1> QED
  BY <1>3, <1>4, <1>5, <1>6, <1>7 DEF Inv

-----------------------------------------------------------------------------
(* The steps of the main thread that may start loads. *)

\* What they have in common: the loads of ids are asked for after those of pending, which are
\* those awaited but what was handed over or removed, and no load ends.
Asks(ids, pending) ==
  /\ main \in {"free", "waitForLoads"} /\ main' \in {"free", "waitForLoads"}
  /\ ids \in Seq(Assets) /\ pending \in [Assets -> Nat]
  /\ \A a \in Assets : pending[a] \in {0, loading[a]}
  /\ UNCHANGED <<source, work, generation, running>>
  /\ finished' \in Seq(Loads) /\ unfinished' \in Seq(Loads) /\ ended' \subseteq ended
  /\ startLoads(ids, pending)

\* The loads there are then: those there were, and the ones asked for, which have read nothing.
LEMMA AskedFor ==
  ASSUME Inv, NEW ids, NEW pending, Asks(ids, pending)
  PROVE  \A load \in loadsAnywhere' \ loadsAnywhere :
           /\ load.id \in ToSet(ids) /\ load.stamp = Unread
           /\ load.request \in nextRequest + 1 .. nextRequest'
<1>1. TAKE load \in loadsAnywhere' \ loadsAnywhere
<1>2. TypeOK /\ ids \in Seq(Assets) /\ pending \in [Assets -> Nat] /\ startLoads(ids, pending)
  BY DEF Inv, Asks
<1>3. work' = work /\ generation' = generation /\ ended' \subseteq ended
  BY DEF Asks
<1>4. load \in ToSet(jobs') \ ToSet(jobs)
  BY <1>1, <1>3 DEF loadsAnywhere, ended
<1> QED
  BY <1>2, <1>4, StartLoadsStarts

\* They leave the queue as the invariant says.
LEMMA AsksKeepsQueue ==
  ASSUME Inv, NEW ids, NEW pending, Asks(ids, pending)
  PROVE  /\ JobsAreCurrent' /\ WorkIsCounted' /\ EndedAreRead' /\ RequestsAreCounted'
         /\ GoneAwaitsNothing' /\ WorkersReadTheirSource'
<1>1. TypeOK /\ ids \in Seq(Assets) /\ pending \in [Assets -> Nat] /\ startLoads(ids, pending)
  BY DEF Inv, Asks
<1>2. /\ work' = work /\ generation' = generation /\ running' = running /\ source' = source
      /\ ended' \subseteq ended
      /\ main \in {"free", "waitForLoads"} /\ main' \in {"free", "waitForLoads"}
      /\ \A a \in Assets : pending[a] \in {0, loading[a]}
  BY DEF Asks
<1>3. generation \in Nat /\ nextRequest \in Nat /\ nextRequest' \in Nat /\ nextRequest' >= nextRequest
  BY <1>1, StartLoadsStarts DEF TypeOK
<1>4. JobsAreCurrent'
  <2>1. SUFFICES ASSUME NEW load \in ToSet(jobs')
                 PROVE  /\ load.stamp = Unread /\ load.generation <= generation
                        /\ load.generation = generation => load.source = source
    BY <1>2 DEF JobsAreCurrent
  <2>2. CASE load \in ToSet(jobs)
    BY <2>2 DEF Inv, JobsAreCurrent
  <2>3. CASE load \notin ToSet(jobs)
    <3>1. load.stamp = Unread /\ load.generation = generation /\ load.source = source
      BY <1>1, <2>3, StartLoadsStarts
    <3> QED
      BY <1>3, <3>1
  <2> QED
    BY <2>2, <2>3
<1>5. WorkIsCounted' /\ WorkersReadTheirSource'
  BY <1>2 DEF Inv, WorkIsCounted, WorkersReadTheirSource, busy
<1>6. EndedAreRead'
  BY <1>2 DEF Inv, EndedAreRead
<1>7. RequestsAreCounted'
  <2>1. \A load \in loadsAnywhere' : load.request \in 1 .. nextRequest'
    <3>1. TAKE load \in loadsAnywhere'
    <3>2. CASE load \in loadsAnywhere
      <4>1. load.request \in 1 .. nextRequest
        BY <3>2 DEF Inv, RequestsAreCounted
      <4> QED
        BY <1>3, <4>1
    <3>3. CASE load \notin loadsAnywhere
      <4>1. load.request \in nextRequest + 1 .. nextRequest'
        BY <3>3, AskedFor
      <4> QED
        BY <1>3, <4>1
    <3> QED
      BY <3>2, <3>3
  <2>2. \A a \in Assets : loading'[a] <= nextRequest'
    <3>1. TAKE a \in Assets
    <3>2. CASE a \in ToSet(ids)
      <4>1. loading'[a] \in nextRequest + 1 .. nextRequest'
        BY <1>1, <3>2, StartLoadsStarts
      <4> QED
        BY <1>3, <4>1
    <3>3. CASE a \notin ToSet(ids)
      <4>1. loading'[a] = pending[a] /\ loading[a] <= nextRequest /\ loading[a] \in Nat
        <5>1. loading'[a] = pending[a]
          BY <1>1, <3>3, StartLoadsStarts
        <5> QED
          BY <5>1 DEF Inv, RequestsAreCounted, TypeOK
      <4> QED
        BY <1>2, <1>3, <4>1
    <3> QED
      BY <3>2, <3>3
  <2> QED
    BY <2>1, <2>2 DEF RequestsAreCounted
<1>8. GoneAwaitsNothing'
  BY <1>2 DEF GoneAwaitsNothing
<1> QED
  BY <1>4, <1>5, <1>6, <1>7, <1>8

\* What is awaited still was read of artifacts that did not change.
LEMMA AsksKeepsFresh ==
  ASSUME Inv, NEW ids, NEW pending, Asks(ids, pending),
         \A a \in Assets \ ToSet(ids) :
           pending[a] # 0 /\ a \notin ToSet(news') => a \notin ToSet(news) /\ file'[a] = file[a]
  PROVE  AwaitedAreFresh'
<1>1. SUFFICES ASSUME NEW load \in loadsAnywhere', loading'[load.id] = load.request,
                      load.stamp # Unread, load.id \notin ToSet(news')
               PROVE  load.stamp \in {0, file'[load.id]}
  BY DEF AwaitedAreFresh, Awaited
<1>2. load \in loadsAnywhere
  BY <1>1, AskedFor
<1>3. TypeOK /\ ids \in Seq(Assets) /\ pending \in [Assets -> Nat] /\ startLoads(ids, pending)
  BY DEF Inv, Asks
<1>4. load.request \in 1 .. nextRequest /\ nextRequest \in Nat /\ load.id \in Assets
  BY <1>2, <1>3, LoadsAreLoads DEF Inv, RequestsAreCounted, TypeOK, Loads
<1>5. load.id \notin ToSet(ids)
  <2>1. SUFFICES ASSUME load.id \in ToSet(ids) PROVE FALSE
    OBVIOUS
  <2>2. loading'[load.id] \in nextRequest + 1 .. nextRequest'
    BY <1>3, <2>1, StartLoadsStarts
  <2> QED
    BY <1>1, <1>4, <2>2
<1>6. pending[load.id] = load.request /\ pending[load.id] # 0
  BY <1>1, <1>3, <1>4, <1>5, StartLoadsStarts
<1>7. loading[load.id] = load.request
  BY <1>4, <1>6 DEF Asks
<1>8. load.id \notin ToSet(news) /\ file'[load.id] = file[load.id]
  BY <1>1, <1>4, <1>5, <1>6
<1> QED
  BY <1>1, <1>2, <1>7, <1>8 DEF Inv, AwaitedAreFresh, Awaited

\* What is awaited still was not handed over.
LEMMA AsksKeepsLoads ==
  ASSUME Inv, NEW ids, NEW pending, Asks(ids, pending),
         \A load \in ended : pending[load.id] # 0 /\ Awaited(load) => load \in ended'
  PROVE  NoLoadIsLost'
<1>1. SUFFICES ASSUME NEW a \in Assets, loading'[a] # 0
               PROVE  \E load \in loadsAnywhere' : load.id = a /\ load.request = loading'[a]
  BY DEF NoLoadIsLost
<1>2. TypeOK /\ ids \in Seq(Assets) /\ pending \in [Assets -> Nat] /\ startLoads(ids, pending)
  BY DEF Inv, Asks
<1>3. work' = work /\ generation' = generation
  BY DEF Asks
<1>4. ToSet(jobs) \subseteq ToSet(jobs')
  BY <1>2, StartLoadsStarts
<1>5. \A load \in ToSet(jobs') : load # Idle
  <2>1. jobs' \in Seq(Loads)
    BY <1>2, StartLoadsStarts
  <2> QED
    BY <2>1, ToSetOfSeq, IdleIsNoLoad
<1>6. CASE a \in ToSet(ids)
  <2>1. PICK load \in ToSet(jobs') :
          load.id = a /\ load.request = loading'[a] /\ load.generation = generation
    BY <1>2, <1>6, StartLoadsStarts
  <2>2. load \in loadsAnywhere'
    BY <1>3, <1>5, <2>1 DEF loadsAnywhere
  <2> QED
    BY <2>1, <2>2
<1>7. CASE a \notin ToSet(ids)
  <2>1. loading'[a] = pending[a] /\ pending[a] = loading[a] /\ loading[a] # 0
    BY <1>1, <1>2, <1>7, StartLoadsStarts DEF Asks
  <2>2. PICK load \in loadsAnywhere : load.id = a /\ load.request = loading[a]
    BY <2>1 DEF Inv, NoLoadIsLost, Asks
  <2>3. CASE load \in ended
    <3>1. load \in ended'
      BY <2>1, <2>2, <2>3 DEF Awaited
    <3> QED
      BY <2>1, <2>2, <3>1 DEF loadsAnywhere, ended
  <2>4. CASE load \notin ended
    <3>1. load \in loadsAnywhere'
      BY <1>3, <1>4, <2>2, <2>4 DEF loadsAnywhere, ended
    <3> QED
      BY <2>1, <2>2, <3>1
  <2> QED
    BY <2>3, <2>4
<1> QED
  BY <1>6, <1>7

\* What is asked for is awaited, and what is not awaited then was not before.
LEMMA AsksAwaits ==
  ASSUME Inv, NEW ids, NEW pending, Asks(ids, pending)
  PROVE  /\ \A a \in ToSet(ids) : loading'[a] # 0
         /\ \A a \in Assets : pending[a] # 0 => loading'[a] # 0
<1>1. /\ TypeOK /\ ids \in Seq(Assets) /\ pending \in [Assets -> Nat] /\ startLoads(ids, pending)
      /\ nextRequest \in Nat
  BY DEF Inv, Asks, TypeOK
<1>2. \A a \in ToSet(ids) : loading'[a] # 0
  <2>1. \A a \in ToSet(ids) : loading'[a] \in nextRequest + 1 .. nextRequest'
    BY <1>1, StartLoadsStarts
  <2> QED
    BY <1>1, <2>1
<1>3. \A a \in Assets \ ToSet(ids) : loading'[a] = pending[a]
  BY <1>1, StartLoadsStarts
<1> QED
  BY <1>2, <1>3

\* The types of what startLoads assigns.
LEMMA AsksTypes ==
  ASSUME Inv, NEW ids, NEW pending, Asks(ids, pending)
  PROVE  /\ nextRequest' \in Nat /\ loading' \in [Assets -> Nat] /\ jobs' \in Seq(Loads)
         /\ source' \in Nat /\ generation' \in Nat /\ running' \in Nat
         /\ work' \in [Workers -> Loads \cup {Idle}]
         /\ finished' \in Seq(Loads) /\ unfinished' \in Seq(Loads)
<1>1. /\ TypeOK /\ ids \in Seq(Assets) /\ pending \in [Assets -> Nat] /\ startLoads(ids, pending)
  BY DEF Inv, Asks
<1>2. nextRequest' \in Nat /\ loading' \in [Assets -> Nat] /\ jobs' \in Seq(Loads)
  BY <1>1, StartLoadsStarts
<1> QED
  BY <1>1, <1>2 DEF Asks, TypeOK

\* Asking for assets only: ask, material and loadSceneInBackground are such steps.
OnlyAsks(asked) ==
  /\ Asks(toLoad(asked, loading), loading)
  /\ UNCHANGED <<main, disk, failed, shown, finished, unfinished>>

\* Assets that are asked for are queued, and nothing drawn or loading changes (load, textureHandle,
\* meshHandle).
LEMMA OnlyAsksKeeps ==
  ASSUME Inv, NEW asked \in SUBSET Assets, OnlyAsks(asked)
  PROVE  /\ JobsAreCurrent' /\ WorkIsCounted' /\ EndedAreRead' /\ RequestsAreCounted'
         /\ GoneAwaitsNothing' /\ WorkersReadTheirSource' /\ AwaitedAreFresh'
         /\ NoLoadIsLost' /\ ShowsTheLatest'
         /\ \A a \in Assets : loading[a] # 0 => loading'[a] # 0
         /\ \A a \in asked : shown[a] # Nothing \/ loading'[a] # 0 \/ a \in failed \/ a \notin known
<1> DEFINE ids == toLoad(asked, loading)
<1>1. Asks(ids, loading)
  BY DEF OnlyAsks
<1>2. /\ file' = file /\ known' = known /\ news' = news /\ failed' = failed /\ shown' = shown
      /\ main' = main /\ ended' = ended
  BY DEF OnlyAsks, disk, ended
<1>3. ToSet(ids) = {a \in asked \cap (known' \ failed') : shown'[a] = Nothing /\ loading[a] = 0}
  BY ToLoadLists
<1> HIDE DEF ids
<1>4. /\ JobsAreCurrent' /\ WorkIsCounted' /\ EndedAreRead' /\ RequestsAreCounted'
      /\ GoneAwaitsNothing' /\ WorkersReadTheirSource'
  BY <1>1, AsksKeepsQueue
<1>5. AwaitedAreFresh'
  BY <1>1, <1>2, AsksKeepsFresh
<1>6. NoLoadIsLost'
  BY <1>1, <1>2, AsksKeepsLoads
<1>7. /\ \A a \in ToSet(ids) : loading'[a] # 0
      /\ \A a \in Assets : loading[a] # 0 => loading'[a] # 0
  BY <1>1, AsksAwaits
<1>8. ShowsTheLatest'
  BY <1>2, <1>7 DEF Inv, ShowsTheLatest
<1>9. \A a \in asked : shown[a] # Nothing \/ loading'[a] # 0 \/ a \in failed \/ a \notin known
  BY <1>2, <1>3, <1>7
<1> QED
  BY <1>4, <1>5, <1>6, <1>7, <1>8, <1>9

\* A step that only asks, and does not touch the materials.
LEMMA OnlyAsksKeepsInv ==
  ASSUME Inv, NEW asked \in SUBSET Assets, OnlyAsks(asked), UNCHANGED <<sampled, bound>>,
         background' \in SUBSET Assets
  PROVE  Inv'
<1>1. TypeOK'
  <2>1. Asks(toLoad(asked, loading), loading)
    BY DEF OnlyAsks
  <2> HIDE DEF OnlyAsks
  <2>2. /\ main' = main /\ file' = file /\ known' = known /\ news' = news /\ imports' = imports
        /\ failed' = failed /\ shown' = shown
    BY DEF OnlyAsks, disk
  <2> QED
    BY <2>1, <2>2, AsksTypes DEF Inv, TypeOK
<1>2. MaterialsFollow'
  <2>1. main' = main /\ known' = known /\ failed' = failed /\ shown' = shown
    BY DEF OnlyAsks, disk
  <2>2. \A a \in Assets : loading[a] # 0 => loading'[a] # 0
    BY OnlyAsksKeeps
  <2>3. sampled \subseteq Assets
    BY AssetLoadingAssumption DEF Inv, TypeOK
  <2> QED
    BY <2>1, <2>2, <2>3 DEF Inv, MaterialsFollow
<1> QED
  BY <1>1, <1>2, OnlyAsksKeeps DEF Inv

\* A game asks for an asset.
LEMMA askKeepsInv ==
  ASSUME Inv, NEW a \in Assets, ask(a)
  PROVE  Inv'
<1>1. toLoad({a}, loading) \in Seq(Assets)
  BY ToLoadLists
<1>2. OnlyAsks({a})
  BY <1>1 DEF ask, OnlyAsks, Asks, Inv, TypeOK, disk, queue, ended
<1>3. UNCHANGED <<sampled, bound>> /\ background' \in SUBSET Assets
  BY DEF ask, Inv, TypeOK
<1> QED
  BY <1>2, <1>3, OnlyAsksKeepsInv

\* The assets of a scene are asked for in the background.
LEMMA loadSceneKeepsInv ==
  ASSUME Inv, NEW scene \in Scenes, loadSceneInBackground(scene)
  PROVE  Inv'
<1>1. scene \in SUBSET Assets /\ toLoad(scene, loading) \in Seq(Assets)
  BY AssetLoadingAssumption, ToLoadLists
<1>2. OnlyAsks(scene)
  BY <1>1 DEF loadSceneInBackground, OnlyAsks, Asks, Inv, TypeOK, disk, queue, ended
<1>3. UNCHANGED <<sampled, bound>> /\ background' \in SUBSET Assets
  BY <1>1 DEF loadSceneInBackground
<1> QED
  BY <1>1, <1>2, <1>3, OnlyAsksKeepsInv

\* A material asks for its texture, and samples what is drawn of it or nothing.
LEMMA materialKeepsInv ==
  ASSUME Inv, NEW a \in Assets, material(a)
  PROVE  Inv'
<1>1. toLoad({a}, loading) \in Seq(Assets)
  BY ToLoadLists
<1>2. OnlyAsks({a})
  BY <1>1 DEF material, OnlyAsks, Asks, Inv, TypeOK, disk, queue, ended
<1>3. /\ a \in Textures /\ sampled' = sampled \cup {a} /\ bound' = [bound EXCEPT ![a] = shown[a]]
      /\ background' = background
  BY DEF material
<1>4. /\ main' = main /\ file' = file /\ known' = known /\ news' = news /\ imports' = imports
      /\ failed' = failed /\ shown' = shown
  BY DEF material, disk
<1>5. TypeOK'
  <2>1. Asks(toLoad({a}, loading), loading)
    BY <1>2 DEF OnlyAsks
  <2> QED
    BY <2>1, <1>3, <1>4, AsksTypes DEF Inv, TypeOK
<1>6. MaterialsFollow'
  <2>1. SUFFICES ASSUME main \notin {"cancelLoads", "asleepCancelling", "gone"}, NEW b \in sampled'
                 PROVE  /\ bound'[b] = shown[b]
                        /\ shown[b] # Nothing \/ loading'[b] # 0 \/ b \in failed \/ b \notin known
    BY <1>4 DEF MaterialsFollow
  <2>2. bound \in [Assets -> [request : Nat, stamp : Nat]] /\ sampled \subseteq Assets
    BY AssetLoadingAssumption DEF Inv, TypeOK
  <2>3. CASE b = a
    <3>1. shown[a] # Nothing \/ loading'[a] # 0 \/ a \in failed \/ a \notin known
      BY <1>2, OnlyAsksKeeps
    <3> QED
      BY <1>3, <2>2, <2>3, <3>1
  <2>4. CASE b # a
    <3>1. b \in sampled /\ bound'[b] = bound[b] /\ b \in Assets
      BY <1>3, <2>2, <2>4
    <3>2. loading[b] # 0 => loading'[b] # 0
      BY <1>2, <3>1, OnlyAsksKeeps
    <3> QED
      BY <2>1, <3>1, <3>2 DEF Inv, MaterialsFollow
  <2> QED
    BY <2>3, <2>4
<1> QED
  BY <1>2, <1>5, <1>6, OnlyAsksKeeps DEF Inv

\* Finished loads are handed over, as many as the budget lets: the awaited one is shown, others are
\* dropped.
LEMMA FinishLoadsKeepsInv ==
  ASSUME Inv, NEW budget, FinishLoads(budget),
         main \in {"free", "waitForLoads"}, main' \in {"free", "waitForLoads"}
  PROVE  Inv'
<1> DEFINE loads == unfinished \o finished
           n == handedOver(loads, budget)
           first == ToSet(SubSeq(loads, 1, n))
           applied == {load \in first : Awaited(load)}
           made == {load \in applied : load.stamp # 0}
           of(a) == CHOOSE load \in made : load.id = a
           handle(a) == [request |-> of(a).request, stamp |-> of(a).stamp]
           changed == {load.id : load \in made}
           pending == [a \in Assets |-> IF \E load \in applied : load.id = a THEN 0 ELSE loading[a]]
           ids == toLoad(toRefresh(changed), pending)
<1>1. /\ finished' = <<>> /\ unfinished' = SubSeq(loads, n + 1, Len(loads))
      /\ failed' = failed \cup {load.id : load \in applied \ made}
      /\ shown' = [a \in Assets |-> IF a \in changed THEN handle(a) ELSE shown[a]]
      /\ UNCHANGED <<disk, sampled, background, work, generation, running>>
      /\ refreshMaterials(changed)
      /\ startLoads(ids, pending)
  BY DEF FinishLoads
<1>2. /\ source' = source /\ file' = file /\ known' = known /\ news' = news /\ imports' = imports
      /\ sampled' = sampled /\ background' = background
  BY <1>1 DEF disk
<1>3. loads \in Seq(Loads) /\ ToSet(loads) = ended
  BY ToSetConcat DEF Inv, TypeOK, ended
<1>4. n \in 0 .. Len(loads)
  BY <1>3, HandedOverIsSome
<1> HIDE DEF n, loads
<1>5. unfinished' \in Seq(Loads) /\ ended = first \cup ToSet(unfinished')
  <2>1. /\ SubSeq(loads, n + 1, Len(loads)) \in Seq(Loads)
        /\ ToSet(loads) = first \cup ToSet(SubSeq(loads, n + 1, Len(loads)))
    BY <1>3, <1>4, ToSetSplit
  <2>2. unfinished' = SubSeq(loads, n + 1, Len(loads))
    BY <1>1
  <2> HIDE DEF first
  <2> QED
    BY <1>3, <2>1, <2>2
<1>6. finished' \in Seq(Loads) /\ ended' = ToSet(unfinished')
  <2>1. finished' = <<>>
    BY <1>1
  <2> QED
    BY <2>1 DEF ended, ToSet
<1> HIDE DEF first
<1>7. \A load \in applied :
        /\ load \in ended /\ load \in Loads /\ load \in loadsAnywhere /\ load.id \in Assets
        /\ load.stamp \in Nat /\ loading[load.id] = load.request
  <2>1. TAKE load \in applied
  <2>2. load \in ended /\ loading[load.id] = load.request
    BY <1>5 DEF Awaited
  <2>3. load \in Loads /\ load.stamp # Unread /\ load \in loadsAnywhere
    BY <2>2, LoadsAreLoads DEF Inv, EndedAreRead, loadsAnywhere, ended
  <2> QED
    BY <2>2, <2>3 DEF Loads
<1> HIDE DEF applied
<1>8. \A a \in changed : of(a) \in made /\ of(a).id = a
  OBVIOUS
<1>9. changed \subseteq Assets
  BY <1>7
<1> HIDE DEF of
<1>10. shown' \in [Assets -> [request : Nat, stamp : Nat]]
  <2>1. \A a \in changed : handle(a) \in [request : Nat, stamp : Nat]
    BY <1>7, <1>8 DEF Loads
  <2> HIDE DEF handle, changed
  <2> QED
    BY <1>1, <2>1 DEF Inv, TypeOK
<1>11. toRefresh(changed) \in SUBSET Assets
  BY AssetLoadingAssumption DEF toRefresh, Inv, TypeOK
<1>12. /\ ids \in Seq(Assets)
       /\ ToSet(ids) = {a \in toRefresh(changed) \cap (known' \ failed') :
                          shown'[a] = Nothing /\ pending[a] = 0}
  BY <1>11, ToLoadLists
<1> HIDE DEF ids
<1>13. /\ pending \in [Assets -> Nat]
       /\ \A a \in Assets : pending[a] \in {0, loading[a]}
  BY DEF Inv, TypeOK
<1>14. Asks(ids, pending)
  BY <1>1, <1>2, <1>5, <1>6, <1>12, <1>13 DEF Asks
<1>15. /\ JobsAreCurrent' /\ WorkIsCounted' /\ EndedAreRead' /\ RequestsAreCounted'
       /\ GoneAwaitsNothing' /\ WorkersReadTheirSource'
  BY <1>14, AsksKeepsQueue
<1>16. AwaitedAreFresh'
  BY <1>2, <1>14, AsksKeepsFresh
<1>17. NoLoadIsLost'
  <2>1. SUFFICES ASSUME NEW load \in ended, pending[load.id] # 0, Awaited(load), load \notin ended'
                 PROVE  FALSE
    BY <1>14, AsksKeepsLoads
  <2>2. load \in applied
    BY <1>5, <1>6, <2>1 DEF applied
  <2>3. load.id \in Assets
    BY <1>7, <2>2
  <2> QED
    BY <2>1, <2>2, <2>3
<1>18. /\ \A a \in ToSet(ids) : loading'[a] # 0
       /\ \A a \in Assets : pending[a] # 0 => loading'[a] # 0
  BY <1>14, AsksAwaits
<1>19. bound' = IF Refreshes(changed)
                  THEN [a \in Assets |-> IF a \in sampled THEN shown'[a] ELSE bound[a]]
                  ELSE bound
  BY <1>1 DEF refreshMaterials
<1>20. TypeOK'
  <2>1. failed' \in SUBSET Assets
    BY <1>1, <1>7 DEF Inv, TypeOK
  <2>2. bound' \in [Assets -> [request : Nat, stamp : Nat]]
    BY <1>10, <1>19 DEF Inv, TypeOK
  <2> QED
    BY <1>2, <1>10, <1>14, <2>1, <2>2, AsksTypes DEF Inv, TypeOK
<1>21. \A a \in Assets : loading'[a] = 0 /\ loading[a] # 0 => a \in changed \cup failed'
  <2>1. TAKE a \in Assets
  <2>2. SUFFICES ASSUME loading'[a] = 0, loading[a] # 0 PROVE a \in changed \cup failed'
    OBVIOUS
  <2>3. pending[a] = 0
    BY <1>18, <2>2
  <2>4. PICK load \in applied : load.id = a
    BY <2>2, <2>3
  <2> QED
    BY <1>1, <2>4
<1>22. ShowsTheLatest'
  <2>1. SUFFICES ASSUME NEW a \in Assets, shown'[a] # Nothing, loading'[a] = 0,
                        a \notin ToSet(news), a \notin failed'
                 PROVE  shown'[a].stamp = file[a]
    BY <1>2 DEF ShowsTheLatest
  <2>2. CASE a \in changed
    <3>1. shown'[a].stamp = of(a).stamp
      BY <1>1, <2>2
    <3>2. of(a) \in made /\ of(a) \in applied /\ of(a).id = a
      BY <1>8, <2>2
    <3>3. of(a) \in loadsAnywhere /\ loading[a] = of(a).request /\ of(a).stamp \in Nat /\ of(a).stamp # 0
      BY <1>7, <3>2
    <3>4. of(a).stamp # Unread
      BY <3>3 DEF Unread
    <3>5. of(a).stamp \in {0, file[a]}
      BY <2>1, <3>2, <3>3, <3>4 DEF Inv, AwaitedAreFresh, Awaited
    <3> QED
      BY <3>1, <3>3, <3>5
  <2>3. CASE a \notin changed
    <3>1. shown'[a] = shown[a] /\ loading[a] = 0 /\ a \notin failed
      BY <1>1, <1>21, <2>1, <2>3
    <3> QED
      BY <2>1, <3>1 DEF Inv, ShowsTheLatest
  <2> QED
    BY <2>2, <2>3
<1>23. MaterialsFollow'
  <2>1. SUFFICES ASSUME NEW a \in sampled
                 PROVE  /\ bound'[a] = shown'[a]
                        /\ shown'[a] # Nothing \/ loading'[a] # 0 \/ a \in failed' \/ a \notin known
    BY <1>2 DEF MaterialsFollow
  <2>2. a \in Textures /\ a \in Assets
    BY AssetLoadingAssumption DEF Inv, TypeOK
  <2>3. CASE Refreshes(changed)
    <3>1. bound'[a] = shown'[a]
      BY <1>19, <2>2, <2>3
    <3>2. a \in toRefresh(changed)
      BY <2>3 DEF toRefresh
    <3> QED
      BY <1>2, <1>12, <1>18, <2>2, <3>1, <3>2
  <2>4. CASE ~Refreshes(changed)
    <3>1. a \notin changed /\ bound' = bound
      BY <1>19, <2>2, <2>4 DEF Refreshes
    <3>2. shown'[a] = shown[a]
      BY <1>1, <2>2, <3>1
    <3>3. /\ bound[a] = shown[a]
          /\ shown[a] # Nothing \/ loading[a] # 0 \/ a \in failed \/ a \notin known
      BY DEF Inv, MaterialsFollow
    <3>4. loading[a] # 0 => loading'[a] # 0 \/ a \in failed'
      BY <1>21, <2>2, <3>1
    <3> QED
      BY <1>1, <3>1, <3>2, <3>3, <3>4
  <2> QED
    BY <2>3, <2>4
<1> QED
  BY <1>15, <1>16, <1>17, <1>20, <1>22, <1>23 DEF Inv

\* Assets that were imported again or removed are loaded again or no longer known.
LEMMA handleAssetEventsKeepsInv ==
  ASSUME Inv, NEW removed \in SUBSET Assets, handleAssetEvents(removed)
  PROVE  Inv'
<1> DEFINE imported == ToSet(news)
           told == imported \cup removed
           pending == [a \in Assets |-> IF a \in removed THEN 0 ELSE loading[a]]
           wanted == {a \in Assets \ removed : shown[a] # Nothing \/ loading[a] # 0}
           again == readAgain(news, wanted)
           refreshed == toLoad(toRefresh(told), pending)
           ids == again \o refreshed
<1>1. /\ main = "free" /\ main' = "free"
      /\ known' = (known \cup imported) \ removed
      /\ file' = [a \in Assets |-> IF a \in removed THEN 0 ELSE file[a]]
      /\ news' = <<>>
      /\ failed' = failed \ told
      /\ shown' = [a \in Assets |-> IF a \in removed THEN Nothing ELSE shown[a]]
      /\ source' = source /\ imports' = imports /\ sampled' = sampled /\ background' = background
      /\ work' = work /\ generation' = generation /\ running' = running /\ finished' = finished
      /\ unfinished' = unfinished
      /\ refreshMaterials(told)
      /\ startLoads(ids, pending)
  BY DEF handleAssetEvents, queue
<1>2. TypeOK /\ imported \subseteq Assets /\ ToSet(news') = {} /\ ended' = ended
  BY <1>1, LoadsAreLoads DEF Inv, ToSet, ended
<1>3. again \in Seq(Assets) /\ ToSet(again) = imported \cap wanted
  BY ReadAgainLists DEF Inv, TypeOK
<1>4. toRefresh(told) \in SUBSET Assets
  BY AssetLoadingAssumption DEF toRefresh, Inv, TypeOK
<1>5. /\ refreshed \in Seq(Assets)
      /\ ToSet(refreshed) = {a \in toRefresh(told) \cap (known' \ failed') :
                               shown'[a] = Nothing /\ pending[a] = 0}
  BY <1>4, ToLoadLists
<1> HIDE DEF again, refreshed
<1>6. ids \in Seq(Assets) /\ ToSet(ids) = ToSet(again) \cup ToSet(refreshed)
  BY <1>3, <1>5, ToSetConcat
<1> HIDE DEF ids
<1>7. /\ pending \in [Assets -> Nat]
      /\ \A a \in Assets : pending[a] \in {0, loading[a]}
  BY <1>2 DEF TypeOK
<1>8. Asks(ids, pending)
  BY <1>1, <1>2, <1>6, <1>7 DEF Asks, TypeOK
<1>9. /\ JobsAreCurrent' /\ WorkIsCounted' /\ EndedAreRead' /\ RequestsAreCounted'
      /\ GoneAwaitsNothing' /\ WorkersReadTheirSource'
  BY <1>8, AsksKeepsQueue
<1>10. AwaitedAreFresh'
  <2>1. SUFFICES ASSUME NEW a \in Assets \ ToSet(ids), pending[a] # 0
                 PROVE  a \notin ToSet(news) /\ file'[a] = file[a]
    BY <1>8, AsksKeepsFresh
  <2>2. a \notin removed /\ loading[a] # 0
    BY <2>1
  <2>3. a \notin ToSet(news)
    BY <1>3, <1>6, <2>1, <2>2
  <2> QED
    BY <1>1, <2>2, <2>3
<1>11. NoLoadIsLost'
  BY <1>2, <1>8, AsksKeepsLoads
<1>12. /\ \A a \in ToSet(ids) : loading'[a] # 0
       /\ \A a \in Assets : pending[a] # 0 => loading'[a] # 0
  BY <1>8, AsksAwaits
<1>13. bound' = IF Refreshes(told)
                  THEN [a \in Assets |-> IF a \in sampled THEN shown'[a] ELSE bound[a]]
                  ELSE bound
  BY <1>1 DEF refreshMaterials
<1>14. TypeOK'
  <2>1. shown' \in [Assets -> [request : Nat, stamp : Nat]]
    BY <1>1, <1>2 DEF TypeOK, Nothing
  <2>2. bound' \in [Assets -> [request : Nat, stamp : Nat]]
    BY <1>2, <1>13, <2>1 DEF TypeOK
  <2>3. file' \in [Assets -> Nat] /\ known' \in SUBSET Assets /\ failed' \in SUBSET Assets
    BY <1>1, <1>2 DEF TypeOK
  <2>4. news' \in Seq(Assets)
    BY <1>1
  <2> QED
    BY <1>1, <1>2, <1>8, <2>1, <2>2, <2>3, <2>4, AsksTypes DEF TypeOK
<1>15. ShowsTheLatest'
  <2>1. SUFFICES ASSUME NEW a \in Assets, shown'[a] # Nothing, loading'[a] = 0, a \notin failed'
                 PROVE  shown'[a].stamp = file'[a]
    BY DEF ShowsTheLatest
  <2>2. a \notin removed /\ shown'[a] = shown[a] /\ file'[a] = file[a]
    BY <1>1, <2>1
  <2>3. loading[a] = 0
    BY <1>12, <2>1, <2>2
  <2>4. a \notin imported
    <3>1. a \in wanted
      BY <2>1, <2>2
    <3> QED
      BY <1>3, <1>6, <1>12, <2>1, <3>1
  <2>5. a \notin failed
    BY <1>1, <2>1, <2>2, <2>4
  <2> QED
    BY <1>1, <2>1, <2>2, <2>3, <2>4, <2>5 DEF Inv, ShowsTheLatest
<1>16. MaterialsFollow'
  <2>1. SUFFICES ASSUME NEW a \in sampled
                 PROVE  /\ bound'[a] = shown'[a]
                        /\ shown'[a] # Nothing \/ loading'[a] # 0 \/ a \in failed' \/ a \notin known'
    BY <1>1 DEF MaterialsFollow
  <2>2. a \in Textures /\ a \in Assets
    BY <1>2, AssetLoadingAssumption DEF TypeOK
  <2>3. CASE Refreshes(told)
    <3>1. bound'[a] = shown'[a]
      BY <1>13, <2>2, <2>3
    <3>2. a \in toRefresh(told)
      BY <2>3 DEF toRefresh
    <3> QED
      BY <1>5, <1>6, <1>12, <2>2, <3>1, <3>2
  <2>4. CASE ~Refreshes(told)
    <3>1. a \notin told /\ bound' = bound
      BY <1>13, <2>2, <2>4 DEF Refreshes
    <3>2. /\ shown'[a] = shown[a] /\ (a \in known' <=> a \in known) /\ (a \in failed' <=> a \in failed)
          /\ pending[a] = loading[a]
      BY <1>1, <2>2, <3>1
    <3>3. /\ bound[a] = shown[a]
          /\ shown[a] # Nothing \/ loading[a] # 0 \/ a \in failed \/ a \notin known
      BY <1>1 DEF Inv, MaterialsFollow
    <3> QED
      BY <1>12, <2>2, <3>1, <3>2, <3>3
  <2> QED
    BY <2>3, <2>4
<1> QED
  BY <1>9, <1>10, <1>11, <1>14, <1>15, <1>16 DEF Inv

-----------------------------------------------------------------------------
(* The steps of the workers, and the others of the main thread. *)

\* A step that neither asks for loads nor ends any, nor tells the assets anything, keeps what the
\* invariant says of them.
LEMMA SameLoadsKeeps ==
  ASSUME Inv, loadsAnywhere' = loadsAnywhere,
         UNCHANGED <<source, file, known, news, imports, loading, nextRequest, failed, shown,
                     sampled, bound>>,
         main' = "gone" <=> main = "gone", main' \in Cancelling <=> main \in Cancelling
  PROVE  /\ RequestsAreCounted' /\ AwaitedAreFresh' /\ GoneAwaitsNothing'
         /\ NoLoadIsLost' /\ ShowsTheLatest' /\ MaterialsFollow'
<1>1. RequestsAreCounted' /\ GoneAwaitsNothing'
  BY DEF Inv, RequestsAreCounted, GoneAwaitsNothing
<1>2. AwaitedAreFresh'
  BY DEF Inv, AwaitedAreFresh, Awaited
<1>3. NoLoadIsLost' /\ ShowsTheLatest' /\ MaterialsFollow'
  BY DEF Inv, NoLoadIsLost, ShowsTheLatest, MaterialsFollow, Cancelling
<1> QED
  BY <1>1, <1>2, <1>3

\* A worker takes a job, and refuses one of a source the manager left.
LEMMA beginKeepsInv ==
  ASSUME Inv, NEW w \in Workers, begin(w)
  PROVE  Inv'
<1> DEFINE load == Head(jobs)
<1>1. /\ jobs # <<>> /\ work[w] = Idle /\ jobs' = Tail(jobs)
      /\ UNCHANGED <<source, file, known, news, imports, loading, nextRequest, failed, shown,
                     sampled, bound, main, background, generation, finished, unfinished>>
      /\ \/ load.generation = generation /\ running' = running + 1 /\ work' = [work EXCEPT ![w] = load]
         \/ load.generation # generation /\ running' = running /\ work' = work
  BY DEF begin, disk, manager
<1>2. TypeOK
  BY DEF Inv
<1>3. /\ load \in Loads /\ load \in ToSet(jobs) /\ jobs' \in Seq(Loads)
      /\ ToSet(jobs) = {load} \cup ToSet(jobs')
  BY <1>1, <1>2, ToSetTail DEF TypeOK
<1>4. /\ load.stamp = Unread /\ load.generation <= generation
      /\ load.generation = generation =>
           load.source = source /\ main \in {"free", "waitForLoads", "asleep"}
  BY <1>3 DEF Inv, JobsAreCurrent
<1> HIDE DEF load
<1>5. JobsAreCurrent'
  BY <1>1, <1>3 DEF Inv, JobsAreCurrent
<1>6. EndedAreRead'
  BY <1>1 DEF Inv, EndedAreRead, ended
<1>7. CASE load.generation # generation
  <2>1. work' = work /\ running' = running
    BY <1>1, <1>7
  <2>2. loadsAnywhere' = loadsAnywhere
    BY <1>1, <1>3, <1>7, <2>1 DEF loadsAnywhere
  <2>3. WorkIsCounted' /\ WorkersReadTheirSource'
    BY <1>1, <2>1 DEF Inv, WorkIsCounted, WorkersReadTheirSource, busy
  <2>4. TypeOK'
    BY <1>1, <1>2, <1>3, <2>1 DEF TypeOK
  <2> QED
    BY <1>1, <1>5, <1>6, <2>2, <2>3, <2>4, SameLoadsKeeps DEF Inv
<1>8. CASE load.generation = generation
  <2>1. running' = running + 1 /\ work' = [work EXCEPT ![w] = load] /\ load # Idle
    BY <1>1, <1>3, <1>8, IdleIsNoLoad
  <2>2. \A v \in Workers : work'[v] = IF v = w THEN load ELSE work[v]
    BY <1>2, <2>1 DEF TypeOK
  <2>3. loadsAnywhere' = loadsAnywhere
    <3>1. \A v \in Workers : v # w => work'[v] = work[v]
      BY <2>2
    <3>2. work'[w] = load
      BY <2>2
    <3> QED
      BY <1>1, <1>3, <1>8, <2>1, <3>1, <3>2 DEF loadsAnywhere
  <2>4. busy' = busy \cup {w} /\ w \notin busy
    BY <1>1, <2>1, <2>2 DEF busy
  <2>5. WorkIsCounted'
    <3>1. IsFiniteSet(busy)
      BY AssetLoadingAssumption, FS_Subset DEF busy
    <3>2. Cardinality(busy') = Cardinality(busy) + 1
      BY <2>4, <3>1, FS_AddElement
    <3>3. \A v \in busy' : work'[v].generation <= generation
      BY <1>4, <2>2, <2>4 DEF Inv, WorkIsCounted, busy
    <3> QED
      BY <1>1, <2>1, <3>2, <3>3 DEF Inv, WorkIsCounted
  <2>6. WorkersReadTheirSource'
    BY <1>1, <1>4, <1>8, <2>2 DEF Inv, WorkersReadTheirSource
  <2>7. TypeOK'
    BY <1>1, <1>2, <1>3, <2>1 DEF TypeOK
  <2> QED
    BY <1>1, <1>5, <1>6, <2>3, <2>5, <2>6, <2>7, SameLoadsKeeps DEF Inv
<1> QED
  BY <1>7, <1>8

\* A worker hands over what it read.
LEMMA endKeepsInv ==
  ASSUME Inv, NEW w \in Workers, end(w)
  PROVE  Inv'
<1> DEFINE load == work[w]
<1>1. /\ load # Idle /\ load.stamp # Unread
      /\ work' = [work EXCEPT ![w] = Idle] /\ running' = running - 1 /\ main' = Notified
      /\ finished' = IF load.generation = generation THEN Append(finished, load) ELSE finished
      /\ UNCHANGED <<source, file, known, news, imports, loading, nextRequest, failed, shown,
                     sampled, bound, background, jobs, generation, unfinished>>
  BY DEF end, disk, manager
<1>2. TypeOK /\ load \in Loads
  BY <1>1 DEF Inv, TypeOK
<1>3. /\ main' = "gone" <=> main = "gone"
      /\ main' \in Cancelling <=> main \in Cancelling
      /\ main \in {"free", "waitForLoads", "asleep"} => main' \in {"free", "waitForLoads", "asleep"}
      /\ main' \in {"free", "waitForLoads", "cancelLoads", "asleep", "asleepCancelling", "gone"}
  BY <1>1, <1>2 DEF Notified, Cancelling, TypeOK
<1>4. /\ finished' \in Seq(Loads)
      /\ ToSet(finished') = ToSet(finished) \cup (IF load.generation = generation THEN {load} ELSE {})
  BY <1>1, <1>2, ToSetAppend, AppendProperties DEF TypeOK
<1>5. \A v \in Workers : work'[v] = IF v = w THEN Idle ELSE work[v]
  BY <1>1, <1>2 DEF TypeOK
<1>6. JobsAreCurrent'
  BY <1>1, <1>3 DEF Inv, JobsAreCurrent
<1>7. EndedAreRead'
  BY <1>1, <1>4 DEF Inv, EndedAreRead, ended
<1>8. loadsAnywhere' = loadsAnywhere
  <2>1. \A v \in Workers : v # w => work'[v] = work[v]
    BY <1>5
  <2>2. work'[w] = Idle
    BY <1>5
  <2>3. CASE load.generation = generation
    BY <1>1, <1>4, <2>1, <2>2, <2>3 DEF loadsAnywhere
  <2>4. CASE load.generation # generation
    BY <1>1, <1>4, <2>1, <2>2, <2>4 DEF loadsAnywhere
  <2> QED
    BY <2>3, <2>4
<1>9. WorkIsCounted' /\ running' \in Nat
  <2>1. busy' = busy \ {w} /\ w \in busy
    BY <1>1, <1>5 DEF busy
  <2>2. IsFiniteSet(busy)
    BY AssetLoadingAssumption, FS_Subset DEF busy
  <2>3. Cardinality(busy') = Cardinality(busy) - 1
    BY <2>1, <2>2, FS_RemoveElement
  <2>4. IsFiniteSet(busy') /\ Cardinality(busy') \in Nat
    BY <2>1, <2>2, FS_RemoveElement, FS_CardinalityType
  <2>5. \A v \in busy' : work'[v].generation <= generation
    <3>1. \A v \in busy' : v \in busy /\ work'[v] = work[v]
      BY <1>5, <2>1 DEF busy
    <3> QED
      BY <3>1 DEF Inv, WorkIsCounted
  <2> QED
    BY <1>1, <2>3, <2>4, <2>5 DEF Inv, WorkIsCounted
<1>10. WorkersReadTheirSource'
  BY <1>1, <1>3, <1>5 DEF Inv, WorkersReadTheirSource
<1>11. TypeOK'
  <2>1. work' \in [Workers -> Loads \cup {Idle}]
    BY <1>1, <1>2 DEF TypeOK
  <2> QED
    BY <1>1, <1>2, <1>3, <1>4, <1>9, <2>1 DEF TypeOK
<1> QED
  BY <1>1, <1>3, <1>6, <1>7, <1>8, <1>9, <1>10, <1>11, SameLoadsKeeps DEF Inv

\* A worker reads its asset as it is on the disk.
LEMMA readKeepsInv ==
  ASSUME Inv, NEW w \in Workers, read(w)
  PROVE  Inv'
<1> DEFINE load == work[w]
           version == file[load.id]
           stamp == IF version \in Broken THEN 0 ELSE version
           done == [load EXCEPT !.stamp = stamp]
<1>1. /\ load # Idle /\ load.stamp = Unread /\ work' = [work EXCEPT ![w].stamp = stamp]
      /\ UNCHANGED <<source, file, known, news, imports, loading, nextRequest, failed, shown,
                     sampled, bound, main, background, jobs, generation, running, finished, unfinished>>
  BY DEF read, disk, manager, queue
<1>2. TypeOK /\ load \in Loads
  BY <1>1 DEF Inv, TypeOK
<1>3. stamp \in Nat /\ stamp \in {0, version}
  <2>1. version \in Nat
    BY <1>2 DEF TypeOK, Loads
  <2> QED
    BY <2>1
<1> HIDE DEF stamp
<1>4. /\ done \in Loads /\ done.id = load.id /\ done.request = load.request /\ done.stamp = stamp
      /\ done.generation = load.generation /\ done.source = load.source
  BY <1>2, <1>3 DEF Loads
<1>5. work' = [work EXCEPT ![w] = done]
  BY <1>1, <1>2 DEF TypeOK
<1>6. done # Idle
  BY <1>4, IdleIsNoLoad
<1> HIDE DEF done
<1>7. \A v \in Workers : work'[v] = IF v = w THEN done ELSE work[v]
  BY <1>2, <1>5 DEF TypeOK
<1>8. busy' = busy
  BY <1>1, <1>6, <1>7 DEF busy
<1>9. /\ \A other \in loadsAnywhere' : other \in loadsAnywhere \/ (other = done /\ load \in loadsAnywhere)
      /\ \A other \in loadsAnywhere : other \in loadsAnywhere' \/ (other = load /\ done \in loadsAnywhere')
  <2>1. \A v \in Workers : v # w => work'[v] = work[v]
    BY <1>7
  <2>2. work'[w] = done
    BY <1>7
  <2>3. done.generation = load.generation
    BY <1>4
  <2>4. \A other \in loadsAnywhere' : other \in loadsAnywhere \/ (other = done /\ load \in loadsAnywhere)
    BY <1>1, <1>6, <2>1, <2>2, <2>3 DEF loadsAnywhere
  <2>5. \A other \in loadsAnywhere : other \in loadsAnywhere' \/ (other = load /\ done \in loadsAnywhere')
    BY <1>1, <1>6, <2>1, <2>2, <2>3 DEF loadsAnywhere
  <2> QED
    BY <2>4, <2>5
<1> HIDE DEF load
<1>10. JobsAreCurrent' /\ EndedAreRead' /\ GoneAwaitsNothing' /\ ShowsTheLatest' /\ MaterialsFollow'
  BY <1>1 DEF Inv, JobsAreCurrent, EndedAreRead, ended, GoneAwaitsNothing, ShowsTheLatest, MaterialsFollow
<1>11. WorkIsCounted' /\ WorkersReadTheirSource'
  <2>1. \A v \in Workers : work'[v].generation = work[v].generation /\ work'[v].source = work[v].source
    BY <1>4, <1>7 DEF load
  <2>2. \A v \in Workers : work'[v] # Idle <=> work[v] # Idle
    BY <1>1, <1>6, <1>7 DEF load
  <2>3. \A v \in busy : v \in Workers
    BY DEF busy
  <2>4. WorkIsCounted'
    BY <1>1, <1>8, <2>1, <2>3 DEF Inv, WorkIsCounted
  <2>5. WorkersReadTheirSource'
    BY <1>1, <2>1, <2>2 DEF Inv, WorkersReadTheirSource
  <2> QED
    BY <2>4, <2>5
<1>12. RequestsAreCounted'
  BY <1>1, <1>4, <1>9 DEF Inv, RequestsAreCounted
<1>13. AwaitedAreFresh'
  <2>1. SUFFICES ASSUME NEW other \in loadsAnywhere', loading[other.id] = other.request,
                        other.stamp # Unread, other.id \notin ToSet(news)
                 PROVE  other.stamp \in {0, file[other.id]}
    BY <1>1 DEF AwaitedAreFresh, Awaited
  <2>2. CASE other \in loadsAnywhere
    BY <2>1, <2>2 DEF Inv, AwaitedAreFresh, Awaited
  <2>3. CASE other = done
    BY <1>3, <1>4, <2>3
  <2> QED
    BY <1>9, <2>2, <2>3
<1>14. NoLoadIsLost'
  BY <1>1, <1>4, <1>9 DEF Inv, NoLoadIsLost
<1>15. TypeOK'
  <2>1. work' \in [Workers -> Loads \cup {Idle}]
    BY <1>2, <1>4, <1>5 DEF TypeOK
  <2> QED
    BY <1>1, <1>2, <2>1 DEF TypeOK
<1> QED
  BY <1>10, <1>11, <1>12, <1>13, <1>14, <1>15 DEF Inv

\* An import changes an asset on the disk, and news of it is on the way.
LEMMA importKeepsInv ==
  ASSUME Inv, NEW a \in Assets, import(a)
  PROVE  Inv'
<1>1. /\ file' = [file EXCEPT ![a] = imports'] /\ news' = Append(news, a) /\ imports' = imports + 1
      /\ main # "gone"
      /\ UNCHANGED <<main, source, known, loading, nextRequest, failed, shown, sampled, bound,
                     background, jobs, work, generation, running, finished, unfinished>>
  BY DEF import, manager, queue
<1>2. TypeOK
  BY DEF Inv
<1>3. news' \in Seq(Assets) /\ ToSet(news') = ToSet(news) \cup {a}
  BY <1>1, <1>2, ToSetAppend, AppendProperties DEF TypeOK
<1>4. \A b \in Assets : b # a => file'[b] = file[b]
  BY <1>1, <1>2 DEF TypeOK
<1>5. loadsAnywhere' = loadsAnywhere /\ ended' = ended /\ busy' = busy
  BY <1>1 DEF loadsAnywhere, ended, busy
<1>6. TypeOK'
  BY <1>1, <1>2, <1>3 DEF TypeOK
<1>7. /\ JobsAreCurrent' /\ WorkIsCounted' /\ EndedAreRead' /\ RequestsAreCounted'
      /\ GoneAwaitsNothing' /\ WorkersReadTheirSource' /\ MaterialsFollow'
  BY <1>1, <1>5 DEF Inv, JobsAreCurrent, WorkIsCounted, EndedAreRead, RequestsAreCounted,
                    GoneAwaitsNothing, WorkersReadTheirSource, MaterialsFollow
<1>8. NoLoadIsLost'
  BY <1>1, <1>5 DEF Inv, NoLoadIsLost
<1>9. AwaitedAreFresh'
  <2>1. \A load \in loadsAnywhere : load.id \in Assets
    BY <1>2, LoadsAreLoads DEF Loads
  <2> QED
    BY <1>1, <1>3, <1>4, <1>5, <2>1 DEF Inv, AwaitedAreFresh, Awaited
<1>10. ShowsTheLatest'
  BY <1>1, <1>3, <1>4 DEF Inv, ShowsTheLatest
<1> QED
  BY <1>6, <1>7, <1>8, <1>9, <1>10 DEF Inv

\* A step in which the main thread does nothing but go on.
LEMMA mainKeepsInv ==
  ASSUME Inv, UNCHANGED <<source, file, known, news, imports, loading, nextRequest, failed, shown,
                          sampled, bound, jobs, work, generation, running, finished, unfinished>>,
         background' \in SUBSET Assets,
         \/ main' = main
         \/ main = "free" /\ main' = "waitForLoads"
         \/ main = "waitForLoads" /\ main' = "asleep"
         \/ main = "cancelLoads" /\ main' = "asleepCancelling"
  PROVE  Inv'
<1>1. loadsAnywhere' = loadsAnywhere /\ ended' = ended /\ busy' = busy
  BY DEF loadsAnywhere, ended, busy
<1>2. /\ main' = "gone" <=> main = "gone"
      /\ main' \in Cancelling <=> main \in Cancelling
      /\ main \in {"free", "waitForLoads", "asleep"} => main' \in {"free", "waitForLoads", "asleep"}
  BY DEF Cancelling
<1>3. TypeOK'
  BY DEF Inv, TypeOK
<1>4. JobsAreCurrent' /\ WorkIsCounted' /\ EndedAreRead' /\ WorkersReadTheirSource'
  BY <1>1, <1>2 DEF Inv, JobsAreCurrent, WorkIsCounted, EndedAreRead, WorkersReadTheirSource
<1> QED
  BY <1>1, <1>2, <1>3, <1>4, SameLoadsKeeps DEF Inv

\* A background scene is done when its assets are.
LEMMA updateBackgroundSceneKeepsInv ==
  ASSUME Inv, updateBackgroundScene
  PROVE  Inv'
BY mainKeepsInv DEF updateBackgroundScene, disk, manager, queue

\* finishLoads of a frame is FinishLoads with the budget of a frame.
LEMMA finishLoadsKeepsInv ==
  ASSUME Inv, finishLoads
  PROVE  Inv'
BY FinishLoadsKeepsInv DEF finishLoads

\* waitForLoads is FinishLoads without one, until nothing is loading.
LEMMA waitForLoadsKeepsInv ==
  ASSUME Inv, waitForLoads
  PROVE  Inv'
<1>1. CASE FinishLoads(Unlimited) /\ main = "waitForLoads" /\ main' \in {"free", "waitForLoads"}
  BY <1>1, FinishLoadsKeepsInv
<1>2. CASE /\ UNCHANGED <<disk, manager, background, jobs, work, queue>>
           /\ \/ main = "free" /\ main' = "waitForLoads"
              \/ main = "waitForLoads" /\ main' = "asleep"
  <2>1. background' \in SUBSET Assets
    BY <1>2 DEF Inv, TypeOK
  <2> QED
    BY <1>2, <2>1, mainKeepsInv DEF disk, manager, queue
<1> QED
  BY <1>1, <1>2 DEF waitForLoads

\* Whoever cancels makes every load one of an earlier generation.
LEMMA cancelLoadsKeepsInv ==
  ASSUME Inv, cancelLoads
  PROVE  Inv'
<1>1. CASE /\ main = "cancelLoads" /\ main' = "asleepCancelling"
           /\ UNCHANGED <<disk, manager, background, jobs, work, queue>>
  <2>1. background' \in SUBSET Assets
    BY <1>1 DEF Inv, TypeOK
  <2> QED
    BY <1>1, <2>1, mainKeepsInv DEF disk, manager, queue
<1>2. CASE /\ main = "free" /\ main' = "cancelLoads" /\ generation' = generation + 1
           /\ background' = {}
           /\ UNCHANGED <<disk, manager, jobs, work, running, finished>>
  <2>1. UNCHANGED <<source, file, known, news, imports, loading, nextRequest, failed, shown,
                    sampled, bound, jobs, work, running, finished, unfinished>>
    BY <1>2 DEF disk, manager
  <2>2. TypeOK /\ generation \in Nat
    BY DEF Inv, TypeOK
  <2>3. TypeOK'
    BY <1>2, <2>1, <2>2 DEF TypeOK
  <2>4. \A load \in ToSet(jobs) : load.generation \in Nat /\ load.generation <= generation /\ load.stamp = Unread
    BY <2>2, LoadsAreLoads DEF Inv, JobsAreCurrent, Loads
  <2>5. JobsAreCurrent'
    BY <1>2, <2>1, <2>2, <2>4 DEF JobsAreCurrent
  <2>6. \A w \in busy : work[w].generation \in Nat /\ work[w].generation <= generation
    BY <2>2, LoadsAreLoads DEF Inv, WorkIsCounted, Loads
  <2>7. WorkIsCounted'
    <3>1. busy' = busy
      BY <2>1 DEF busy
    <3> QED
      BY <1>2, <2>1, <2>2, <2>6, <3>1 DEF Inv, WorkIsCounted
  <2>8. loadsAnywhere' \subseteq loadsAnywhere
    <3>1. \A load \in ToSet(jobs) : load.generation # generation'
      BY <1>2, <2>2, <2>4
    <3>2. \A w \in Workers : work[w] # Idle => work[w].generation # generation'
      BY <1>2, <2>2, <2>6 DEF busy
    <3> QED
      BY <2>1, <3>1, <3>2 DEF loadsAnywhere
  <2>9. EndedAreRead' /\ WorkersReadTheirSource' /\ ShowsTheLatest'
    BY <1>2, <2>1 DEF Inv, EndedAreRead, ended, WorkersReadTheirSource, ShowsTheLatest
  <2>10. RequestsAreCounted' /\ AwaitedAreFresh'
    BY <2>1, <2>8 DEF Inv, RequestsAreCounted, AwaitedAreFresh, Awaited
  <2>11. GoneAwaitsNothing' /\ NoLoadIsLost' /\ MaterialsFollow'
    BY <1>2 DEF GoneAwaitsNothing, NoLoadIsLost, MaterialsFollow
  <2> QED
    BY <2>3, <2>5, <2>7, <2>9, <2>10, <2>11 DEF Inv
<1> QED
  BY <1>1, <1>2 DEF cancelLoads

\* Cancelled, the manager has no load left that could be handed over.
LEMMA CancelledKeeps ==
  ASSUME Inv, Cancelled, source' \in Nat
  PROVE  /\ JobsAreCurrent' /\ WorkIsCounted' /\ EndedAreRead' /\ RequestsAreCounted'
         /\ AwaitedAreFresh' /\ GoneAwaitsNothing' /\ NoLoadIsLost' /\ WorkersReadTheirSource'
<1>1. /\ main = "cancelLoads" /\ running = 0
      /\ finished' = <<>> /\ unfinished' = <<>> /\ loading' = [a \in Assets |-> 0]
      /\ UNCHANGED <<nextRequest, background, jobs, work, generation, running>>
  BY DEF Cancelled
<1>2. TypeOK
  BY DEF Inv
<1>3. busy = {}
  <2>1. IsFiniteSet(busy)
    BY AssetLoadingAssumption, FS_Subset DEF busy
  <2>2. Cardinality(busy) = 0
    BY <1>1 DEF Inv, WorkIsCounted
  <2> QED
    BY <2>1, <2>2, FS_EmptySet
<1>4. busy' = {} /\ ended' = {} /\ \A w \in Workers : work'[w] = Idle
  BY <1>1, <1>3 DEF busy, ended, ToSet
<1>5. \A load \in ToSet(jobs) : load.generation # generation
  BY <1>1 DEF Inv, JobsAreCurrent
<1>6. loadsAnywhere' = {}
  BY <1>1, <1>4, <1>5 DEF loadsAnywhere, ended
<1>7. JobsAreCurrent'
  BY <1>1, <1>5 DEF Inv, JobsAreCurrent
<1>8. WorkIsCounted'
  BY <1>1, <1>4, FS_EmptySet DEF WorkIsCounted
<1>9. EndedAreRead' /\ AwaitedAreFresh' /\ WorkersReadTheirSource'
  BY <1>4, <1>6 DEF EndedAreRead, AwaitedAreFresh, WorkersReadTheirSource
<1>10. RequestsAreCounted'
  BY <1>1, <1>2, <1>6 DEF RequestsAreCounted, TypeOK
<1>11. GoneAwaitsNothing' /\ NoLoadIsLost'
  BY <1>1 DEF GoneAwaitsNothing, NoLoadIsLost
<1> QED
  BY <1>7, <1>8, <1>9, <1>10, <1>11

\* A new source begins with nothing, once no worker reads the former one.
LEMMA setSourceKeepsInv ==
  ASSUME Inv, NEW has \in SUBSET Assets, setSource(has)
  PROVE  Inv'
<1>1. /\ Cancelled
      /\ main' = "free" /\ imports' = imports + 1 /\ source' = source + 1
      /\ known' = has /\ news' = <<>>
      /\ file' = [a \in Assets |-> IF a \in has THEN imports' ELSE 0]
      /\ failed' = {} /\ sampled' = {}
      /\ shown' = [a \in Assets |-> Nothing] /\ bound' = [a \in Assets |-> Nothing]
  BY DEF setSource
<1>2. TypeOK
  BY DEF Inv
<1>3. TypeOK'
  BY <1>1, <1>2 DEF TypeOK, Cancelled, Nothing
<1>4. ShowsTheLatest' /\ MaterialsFollow'
  BY <1>1 DEF ShowsTheLatest, MaterialsFollow
<1>5. source' \in Nat
  BY <1>3 DEF TypeOK
<1> QED
  BY <1>1, <1>3, <1>4, <1>5, CancelledKeeps DEF Inv

\* A manager that is gone awaits nothing.
LEMMA destroyedKeepsInv ==
  ASSUME Inv, destroyed
  PROVE  Inv'
<1>1. Cancelled /\ main' = "gone" /\ UNCHANGED <<source, file, known, news, imports, failed, shown, sampled, bound>>
  BY DEF destroyed, disk
<1>2. TypeOK
  BY DEF Inv
<1>3. TypeOK'
  BY <1>1, <1>2 DEF TypeOK, Cancelled
<1>4. ShowsTheLatest' /\ MaterialsFollow'
  BY <1>1 DEF ShowsTheLatest, MaterialsFollow
<1>5. source' \in Nat
  BY <1>3 DEF TypeOK
<1> QED
  BY <1>1, <1>3, <1>4, <1>5, CancelledKeeps DEF Inv

\* Nothing changes.
LEMMA stutterKeepsInv ==
  ASSUME Inv, UNCHANGED vars
  PROVE  Inv'
<1>1. background' \in SUBSET Assets
  BY DEF Inv, TypeOK, vars
<1> QED
  BY <1>1, mainKeepsInv DEF vars

-----------------------------------------------------------------------------
(* The theorems. *)

\* Every step keeps the invariant: one lemma above for each action.
LEMMA NextKeepsInv == Inv /\ [Next]_vars => Inv'
<1> SUFFICES ASSUME Inv, [Next]_vars PROVE Inv'
  OBVIOUS
<1>1. CASE \E a \in Assets : ask(a)
  BY <1>1, askKeepsInv
<1>2. CASE \E a \in Assets : material(a)
  BY <1>2, materialKeepsInv
<1>3. CASE \E a \in Assets : import(a)
  BY <1>3, importKeepsInv
<1>4. CASE \E scene \in Scenes : loadSceneInBackground(scene)
  BY <1>4, loadSceneKeepsInv
<1>5. CASE updateBackgroundScene
  BY <1>5, updateBackgroundSceneKeepsInv
<1>6. CASE \E w \in Workers : Load(w)
  <2>1. PICK w \in Workers : begin(w) \/ read(w) \/ end(w)
    BY <1>6 DEF Load
  <2> QED
    BY <2>1, beginKeepsInv, readKeepsInv, endKeepsInv
<1>7. CASE finishLoads
  BY <1>7, finishLoadsKeepsInv
<1>8. CASE waitForLoads
  BY <1>8, waitForLoadsKeepsInv
<1>9. CASE \E removed \in SUBSET Assets : handleAssetEvents(removed)
  BY <1>9, handleAssetEventsKeepsInv
<1>10. CASE Cancels
  BY <1>10, cancelLoadsKeepsInv, setSourceKeepsInv, destroyedKeepsInv DEF Cancels
<1>11. CASE UNCHANGED vars
  BY <1>11, stutterKeepsInv
<1> QED
  BY <1>1, <1>2, <1>3, <1>4, <1>5, <1>6, <1>7, <1>8, <1>9, <1>10, <1>11 DEF Next

\* The invariant holds whatever the assets, the workers, the sizes, the budget and the imports.
THEOREM Invariant == Spec => []Inv
<1>1. Init => Inv
  BY InitInv
<1>2. Inv /\ [Next]_vars => Inv'
  BY NextKeepsInv
<1> QED
  BY <1>1, <1>2, PTL DEF Spec

\* Every variable keeps its type; running, which the workers count down, is never negative.
THEOREM TypeCorrect == Spec => []TypeOK
<1>1. Inv => TypeOK
  BY DEF Inv
<1> QED
  BY <1>1, Invariant, PTL

\* AssetManager: what an asset awaits is queued, run by a worker, finished or left for a frame,
\* whatever was imported again, removed or left over meanwhile.
THEOREM LoadsAreNotLost == Spec => []NoLoadIsLost
<1>1. Inv => NoLoadIsLost
  BY DEF Inv
<1> QED
  BY <1>1, Invariant, PTL

\* startLoad's job compares its generation before it reads: no worker reads a source that was left.
THEOREM NoStaleSource == Spec => []WorkersReadTheirSource
<1>1. Inv => WorkersReadTheirSource
  BY DEF Inv
<1> QED
  BY <1>1, Invariant, PTL

\* apply() takes the result of the last request only: once the loads of an asset have ended, what
\* is drawn of it is what its last import wrote, in whatever order they finished.
THEOREM LatestIsShown == Spec => []ShowsTheLatest
<1>1. Inv => ShowsTheLatest
  BY DEF Inv
<1> QED
  BY <1>1, Invariant, PTL

\* refreshMaterials() leaves no material with the handle of a texture that was released, nor
\* without a texture that is there.
THEOREM MaterialsAreResolved == Spec => []MaterialsFollow
<1>1. Inv => MaterialsFollow
  BY DEF Inv
<1> QED
  BY <1>1, Invariant, PTL
=============================================================================
