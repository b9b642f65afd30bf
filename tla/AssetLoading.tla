---------------------------- MODULE AssetLoading ----------------------------
(***************************************************************************)
(* runtime::AssetManager: meshes and textures are read and decoded on the   *)
(* workers of the job system, then handed to the renderer by the main       *)
(* thread, a bounded amount per frame.  An import asks for a newer version  *)
(* of what is loaded, a change of source forgets every load, and a scene    *)
(* loaded in the background waits for the assets it shows.                  *)
(*                                                                          *)
(* A version of an asset is the number of the import that wrote its         *)
(* artifact, 0 for none; a handle of the renderer is the request it came    *)
(* from.  What a material draws with, but its textures, is left out, and    *)
(* the copy of a handle to the GPU.                                         *)
(***************************************************************************)
EXTENDS Integers, FiniteSets, Sequences, SequencesExt

CONSTANTS
  Assets,      \* the meshes and textures of the projects
  Textures,    \* those that are textures, which materials sample
  Workers,     \* the workers of the job system
  Size,        \* the bytes of each asset, decoded
  Budget,      \* finishedBytesPerFrame
  Broken,      \* the imports whose artifacts cannot be decoded
  Scenes,      \* the assets of each scene loaded in the background
  MaxImports,
  MaxSources,
  Waits        \* whether a tool or a test calls waitForLoads

ASSUME AssetLoadingAssumption ==
  /\ IsFiniteSet(Assets) /\ Textures \subseteq Assets /\ IsFiniteSet(Workers)
  /\ Size \in [Assets -> Nat \ {0}] /\ Budget \in Nat
  /\ MaxImports \in Nat /\ MaxSources \in Nat /\ Scenes \subseteq SUBSET Assets /\ Waits \in BOOLEAN

VARIABLES
  main,        \* what the main thread is in: free, waitForLoads or cancelLoads, and asleep in it
  source,      \* which source is open
  file,        \* the version of each artifact on the disk
  known,       \* the assets the source finds
  news,        \* the imports that ended, which the next frame tells of
  imports,     \* how many imports wrote artifacts so far
  loading,     \* m_loading: the request awaited for each asset, or 0
  nextRequest, \* m_nextRequest
  failed,      \* m_failed
  shown,       \* m_meshes and m_textures: the handle and version of each asset, or Nothing
  sampled,     \* the textures the loaded materials name
  bound,       \* the handle and version each of them was last resolved to
  background,  \* the assets m_backgroundScene waits for, none without one
  jobs,        \* the loads the job system has not started
  work,        \* the load each worker runs, or Idle
  generation,  \* m_queue->generation
  running,     \* m_queue->running
  finished,    \* m_queue->finished
  unfinished   \* m_finished

disk == <<source, file, known, news, imports>>
manager == <<loading, nextRequest, failed, shown, sampled, bound, unfinished>>
queue == <<generation, running, finished>>
vars == <<main, source, file, known, news, imports, loading, nextRequest, failed, shown, sampled,
          bound, background, jobs, work, generation, running, finished, unfinished>>

Unread == -1
Nothing == [request |-> 0, stamp |-> 0]
Idle == [id |-> "idle"]
Loads == [id : Assets, request : Nat, generation : Nat, source : Nat, stamp : Nat \cup {Unread}]

TypeOK ==
  /\ main \in {"free", "waitForLoads", "cancelLoads", "asleep", "asleepCancelling", "gone"}
  /\ source \in Nat /\ imports \in Nat /\ nextRequest \in Nat
  /\ file \in [Assets -> Nat]
  /\ known \in SUBSET Assets /\ news \in Seq(Assets)
  /\ loading \in [Assets -> Nat]
  /\ failed \in SUBSET Assets
  /\ shown \in [Assets -> [request : Nat, stamp : Nat]]
  /\ sampled \in SUBSET Textures
  /\ bound \in [Assets -> [request : Nat, stamp : Nat]]
  /\ background \in SUBSET Assets
  /\ jobs \in Seq(Loads) /\ work \in [Workers -> Loads \cup {Idle}]
  /\ generation \in Nat /\ running \in Nat
  /\ finished \in Seq(Loads) /\ unfinished \in Seq(Loads)

Init ==
  /\ main = "free"
  /\ source = 1 /\ imports = 1 /\ nextRequest = 0
  /\ known \in SUBSET Assets /\ news = <<>>
  /\ file = [a \in Assets |-> IF a \in known THEN imports ELSE 0]
  /\ loading = [a \in Assets |-> 0]
  /\ failed = {}
  /\ shown = [a \in Assets |-> Nothing]
  /\ sampled = {}
  /\ bound = [a \in Assets |-> Nothing]
  /\ background = {}
  /\ jobs = <<>> /\ work = [w \in Workers |-> Idle]
  /\ generation = 0 /\ running = 0
  /\ finished = <<>> /\ unfinished = <<>>

-----------------------------------------------------------------------------
(* Asking for assets: startLoad(), mesh(), texture(), material(), preload(). *)

\* The loads of ids start, after those of pending.
startLoads(ids, pending) ==
  LET requestOf(a) == nextRequest + CHOOSE k \in DOMAIN ids : ids[k] = a
      loadOf(a) == [id |-> a, request |-> requestOf(a), generation |-> generation,
                    source |-> source, stamp |-> Unread]
  IN  /\ nextRequest' = nextRequest + Len(ids)
      /\ loading' = [a \in Assets |-> IF a \in ToSet(ids) THEN requestOf(a) ELSE pending[a]]
      /\ jobs' = jobs \o [k \in DOMAIN ids |-> loadOf(ids[k])]

\* What mesh() and texture() start of the assets asked for: neither loaded nor loading, and canLoad().
toLoad(asked, pending) ==
  SetToSeq({a \in asked \cap (known' \ failed') : shown'[a] = Nothing /\ pending[a] = 0})

ask(a) ==
  /\ main = "free"
  /\ UNCHANGED <<main, disk, failed, shown, sampled, bound, background, work, queue, unfinished>>
  /\ toLoad({a}, loading) # <<>>
  /\ startLoads(toLoad({a}, loading), loading)

\* A material is read at once and samples what its texture is now.
material(a) ==
  /\ main = "free" /\ a \in Textures \ sampled
  /\ sampled' = sampled \cup {a}
  /\ bound' = [bound EXCEPT ![a] = shown[a]]
  /\ UNCHANGED <<main, disk, failed, shown, background, work, queue, unfinished>>
  /\ startLoads(toLoad({a}, loading), loading)

isReady(a) == shown[a] # Nothing \/ a \notin known \/ a \in failed

\* The frame that asks for the scene looks at it before another hears of imports or hands loads over.
loadSceneInBackground(scene) ==
  /\ main = "free" /\ background = {}
  /\ background' = IF \A a \in scene : isReady(a) THEN {} ELSE scene
  /\ UNCHANGED <<main, disk, failed, shown, sampled, bound, work, queue, unfinished>>
  /\ startLoads(toLoad(scene, loading), loading)

updateBackgroundScene ==
  /\ main = "free" /\ background # {} /\ \A a \in background : isReady(a)
  /\ background' = {}
  /\ UNCHANGED <<main, disk, manager, jobs, work, queue>>

-----------------------------------------------------------------------------
(* What the workers run. *)

\* Mutant: a load that starts is not counted.
begin_Uncounted(w) ==
  LET load == Head(jobs)
  IN  /\ jobs # <<>> /\ work[w] = Idle
      /\ jobs' = Tail(jobs)
      /\ work' = IF load.generation = generation THEN [work EXCEPT ![w] = load] ELSE work
      /\ UNCHANGED <<main, disk, manager, background, queue>>

\* Mutant: a load starts whatever the generation it was asked for in.
begin_Unchecked(w) ==
  LET load == Head(jobs)
  IN  /\ jobs # <<>> /\ work[w] = Idle
      /\ jobs' = Tail(jobs)
      /\ running' = running + 1
      /\ work' = [work EXCEPT ![w] = load]
      /\ UNCHANGED <<main, disk, manager, background, generation, finished>>

\* A load the manager no longer awaits stops without reading its source.
begin(w) ==
  LET load == Head(jobs)
  IN  /\ jobs # <<>> /\ work[w] = Idle
      /\ jobs' = Tail(jobs)
      /\ \/ /\ load.generation = generation
            /\ running' = running + 1
            /\ work' = [work EXCEPT ![w] = load]
         \/ /\ load.generation # generation
            /\ UNCHANGED <<running, work>>
      /\ UNCHANGED <<main, disk, manager, background, generation, finished>>

read(w) ==
  /\ work[w] # Idle /\ work[w].stamp = Unread
  /\ LET version == file[work[w].id]
     IN  work' = [work EXCEPT ![w].stamp = IF version \in Broken THEN 0 ELSE version]
  /\ UNCHANGED <<main, disk, manager, background, jobs, queue>>

\* m_queue->changed.notify_all()
Notified ==
  CASE main = "asleep" -> "waitForLoads"
    [] main = "asleepCancelling" -> "cancelLoads"
    [] OTHER -> main

\* Mutant: a load that failed is not handed back.
end_Drops(w) ==
  /\ work[w] # Idle /\ work[w].stamp # Unread
  /\ work' = [work EXCEPT ![w] = Idle]
  /\ running' = running - 1
  /\ finished' = IF work[w].generation = generation /\ work[w].stamp # 0
                   THEN Append(finished, work[w]) ELSE finished
  /\ main' = Notified
  /\ UNCHANGED <<disk, manager, background, jobs, generation>>

\* Mutant: the main thread is notified of results only, not of a load that ends without one.
end_Silent(w) ==
  /\ work[w] # Idle /\ work[w].stamp # Unread
  /\ work' = [work EXCEPT ![w] = Idle]
  /\ running' = running - 1
  /\ finished' = IF work[w].generation = generation THEN Append(finished, work[w]) ELSE finished
  /\ main' = IF work[w].generation = generation THEN Notified ELSE main
  /\ UNCHANGED <<disk, manager, background, jobs, generation>>

end(w) ==
  /\ work[w] # Idle /\ work[w].stamp # Unread
  /\ work' = [work EXCEPT ![w] = Idle]
  /\ running' = running - 1
  /\ finished' = IF work[w].generation = generation THEN Append(finished, work[w]) ELSE finished
  /\ main' = Notified
  /\ UNCHANGED <<disk, manager, background, jobs, generation>>

-----------------------------------------------------------------------------
(* finishLoads() and apply(). *)

\* A load that failed has no bytes.
bytes(load) == IF load.stamp = 0 THEN 0 ELSE Size[load.id]
spent(loads, k) == FoldLeft(LAMBDA sum, load : sum + bytes(load), 0, SubSeq(loads, 1, k))

\* Mutant: the first load has to fit as well.
Fits_Strictly(loads, k, budget) == spent(loads, k) + bytes(loads[k + 1]) <= budget

\* Whether the load that follows the first k is handed over as well.
Fits(loads, k, budget) ==
  spent(loads, k) = 0 \/ spent(loads, k) + bytes(loads[k + 1]) <= budget

handedOver(loads, budget) ==
  CHOOSE n \in 0 .. Len(loads) :
    /\ \A k \in 0 .. n - 1 : Fits(loads, k, budget)
    /\ n < Len(loads) => ~Fits(loads, n, budget)

\* Mutant: the result of an older request is taken as well.
Awaited_Whichever(load) == loading[load.id] # 0

Awaited(load) == loading[load.id] = load.request

\* Mutant: the materials keep what they sampled.
Refreshes_Never(changed) == FALSE

\* The materials are resolved again when a texture changed, which may start loads.
Refreshes(changed) == changed \cap Textures # {}

refreshMaterials(changed) ==
  bound' = IF Refreshes(changed)
             THEN [a \in Assets |-> IF a \in sampled THEN shown'[a] ELSE bound[a]]
             ELSE bound

toRefresh(changed) == IF Refreshes(changed) THEN sampled ELSE {}

FinishLoads(budget) ==
  LET loads == unfinished \o finished
      n == handedOver(loads, budget)
      applied == {load \in ToSet(SubSeq(loads, 1, n)) : Awaited(load)}
      made == {load \in applied : load.stamp # 0}
      handle(a) == LET load == CHOOSE load \in made : load.id = a
                   IN  [request |-> load.request, stamp |-> load.stamp]
      changed == {load.id : load \in made}
      pending == [a \in Assets |-> IF \E load \in applied : load.id = a THEN 0 ELSE loading[a]]
  IN  /\ finished' = <<>>
      /\ unfinished' = SubSeq(loads, n + 1, Len(loads))
      /\ failed' = failed \cup {load.id : load \in applied \ made}
      /\ shown' = [a \in Assets |-> IF a \in changed THEN handle(a) ELSE shown[a]]
      /\ UNCHANGED <<disk, sampled, background, work, generation, running>>
      /\ refreshMaterials(changed)
      /\ startLoads(toLoad(toRefresh(changed), pending), pending)

finishLoads ==
  /\ main = "free" /\ unfinished \o finished # <<>>
  /\ UNCHANGED main
  /\ FinishLoads(Budget)

\* Everything there is.
Unlimited == spent(unfinished \o finished, Len(unfinished \o finished))

waitForLoads ==
  \/ /\ Waits /\ main = "free"
     /\ main' = "waitForLoads"
     /\ UNCHANGED <<disk, manager, background, jobs, work, queue>>
  \/ /\ main = "waitForLoads" /\ finished = <<>> /\ \E a \in Assets : loading[a] # 0
     /\ main' = "asleep"
     /\ UNCHANGED <<disk, manager, background, jobs, work, queue>>
  \/ /\ main = "waitForLoads" /\ finished # <<>> /\ \E a \in Assets : loading[a] # 0
     /\ UNCHANGED main
     /\ FinishLoads(Unlimited)
  \/ /\ main = "waitForLoads" /\ \A a \in Assets : loading[a] = 0
     /\ main' = "free"
     /\ FinishLoads(Unlimited)

-----------------------------------------------------------------------------
(* The source: imports, handleEvents(), setSource() and the destructor. *)

\* External: an import that ended wrote the artifact; update() will tell of it.
import(a) ==
  /\ main # "gone" /\ imports < MaxImports /\ a \notin ToSet(news)
  /\ imports' = imports + 1
  /\ file' = [file EXCEPT ![a] = imports']
  /\ news' = Append(news, a)
  /\ UNCHANGED <<main, source, known, manager, background, jobs, work, queue>>

\* Those of the imported assets that are in wanted, in the order they are told of.
readAgain(imported, wanted) ==
  LET kept[n \in 0 .. Len(imported)] ==
        IF n = 0 THEN <<>>
        ELSE IF imported[n] \in wanted THEN Append(kept[n - 1], imported[n]) ELSE kept[n - 1]
  IN  kept[Len(imported)]

\* The imports that ended and the assets that are gone, told of in the frame that finds them:
\* what is loaded or loading is read again, and drawn as it was until then.
handleAssetEvents(removed) ==
  LET imported == ToSet(news)
      pending == [a \in Assets |-> IF a \in removed THEN 0 ELSE loading[a]]
      again == readAgain(news, {a \in Assets \ removed : shown[a] # Nothing \/ loading[a] # 0})
  IN  /\ main = "free" /\ removed \subseteq known /\ imported \cup removed # {}
      /\ known' = (known \cup imported) \ removed
      /\ file' = [a \in Assets |-> IF a \in removed THEN 0 ELSE file[a]]
      /\ news' = <<>>
      /\ failed' = failed \ (imported \cup removed)
      /\ shown' = [a \in Assets |-> IF a \in removed THEN Nothing ELSE shown[a]]
      /\ UNCHANGED <<main, source, imports, sampled, background, work, queue, unfinished>>
      /\ refreshMaterials(imported \cup removed)
      /\ startLoads(again \o toLoad(toRefresh(imported \cup removed), pending), pending)

\* cancelLoads(), for a change of source or the destructor; closeProject() drops the scene first.
cancelLoads ==
  \/ /\ main = "free"
     /\ main' = "cancelLoads"
     /\ generation' = generation + 1
     /\ background' = {}
     /\ UNCHANGED <<disk, manager, jobs, work, running, finished>>
  \/ /\ main = "cancelLoads" /\ running # 0
     /\ main' = "asleepCancelling"
     /\ UNCHANGED <<disk, manager, background, jobs, work, queue>>

Cancelled ==
  /\ main = "cancelLoads" /\ running = 0
  /\ finished' = <<>> /\ unfinished' = <<>>
  /\ loading' = [a \in Assets |-> 0]
  /\ UNCHANGED <<nextRequest, background, jobs, work, generation, running>>

\* The new source has some of the assets, or is null and has none.
setSource(has) ==
  /\ Cancelled /\ source < MaxSources /\ imports < MaxImports
  /\ main' = "free"
  /\ imports' = imports + 1
  /\ source' = source + 1
  /\ known' = has /\ news' = <<>>
  /\ file' = [a \in Assets |-> IF a \in has THEN imports' ELSE 0]
  /\ failed' = {} /\ sampled' = {}
  /\ shown' = [a \in Assets |-> Nothing] /\ bound' = [a \in Assets |-> Nothing]

destroyed ==
  /\ Cancelled
  /\ main' = "gone"
  /\ UNCHANGED <<disk, failed, shown, sampled, bound>>

-----------------------------------------------------------------------------

Load(w) == begin(w) \/ read(w) \/ end(w)
Cancels == cancelLoads \/ (\E has \in SUBSET Assets : setSource(has)) \/ destroyed
Next ==
  \/ \E a \in Assets : ask(a) \/ material(a) \/ import(a)
  \/ \E scene \in Scenes : loadSceneInBackground(scene)
  \/ updateBackgroundScene
  \/ \E w \in Workers : Load(w)
  \/ finishLoads \/ waitForLoads
  \/ \E removed \in SUBSET Assets : handleAssetEvents(removed)
  \/ Cancels

Spec == Init /\ [][Next]_vars

(* The workers run, the main thread goes on with what it called, and a frame
   follows another: it hears of the imports, hands loads over and looks at the
   scene loading in the background.  Nothing makes anyone ask for an asset. *)
FairSpec ==
  /\ Spec
  /\ \A w \in Workers : WF_vars(Load(w))
  /\ WF_vars(finishLoads)
  /\ WF_vars(main # "free" /\ waitForLoads)
  /\ WF_vars(main # "free" /\ Cancels)
  /\ WF_vars(news # <<>> /\ handleAssetEvents({}))
  /\ WF_vars(updateBackgroundScene)

-----------------------------------------------------------------------------
(* Properties *)

loadsAnywhere ==
  {load \in ToSet(jobs) \cup {work[w] : w \in Workers} : load # Idle /\ load.generation = generation}
    \cup ToSet(finished) \cup ToSet(unfinished)

\* Whatever was reimported, removed or left over by a frame meanwhile, the result an asset awaits
\* is on its way: its load is queued, run by a worker, finished, or left for another frame.
NoLoadIsLost ==
  main \notin {"cancelLoads", "asleepCancelling"} =>
    \A a \in Assets : loading[a] # 0 =>
      \E load \in loadsAnywhere : load.id = a /\ load.request = loading[a]

\* A worker reads nothing of a source the manager left, nor once the manager is gone.
WorkersReadTheirSource ==
  \A w \in Workers : work[w] # Idle => work[w].source = source /\ main # "gone"

\* Once its imports are told of and its loads have ended, what is drawn of an asset is what is on
\* the disk, whatever the order in which its loads finished; only a failed load keeps it back.
ShowsTheLatest ==
  main # "gone" =>
    \A a \in Assets :
      shown[a] # Nothing /\ loading[a] = 0 /\ a \notin ToSet(news) /\ a \notin failed
        => shown[a].stamp = file[a]

\* A material never samples a handle that was destroyed, and picks up a texture whichever of the
\* two came first: the texture it misses is loading, unless it failed or the source has none.
MaterialsFollow ==
  main \notin {"cancelLoads", "asleepCancelling", "gone"} =>
    \A a \in sampled :
      /\ bound[a] = shown[a]
      /\ shown[a] # Nothing \/ loading[a] # 0 \/ a \in failed \/ a \notin known

\* With frames to hand them over, every load ends, though it is larger than the budget of a frame.
LoadsEnd == \A a \in Assets : loading[a] # 0 ~> loading[a] = 0

\* Closing a project or the manager ends, whatever the workers are in.
CancelEnds == main \in {"cancelLoads", "asleepCancelling"} ~> main \in {"free", "gone"}

\* AssetManager.hpp on waitForLoads: it blocks until every load started is handed over, then returns.
WaitForLoadsReturns == main = "waitForLoads" ~> main = "free"

\* decisions.md: a scene loaded in the background replaces the current one once its assets are
\* ready, and an asset nothing will come of counts as ready.
BackgroundSceneArrives == background # {} ~> background = {}
=============================================================================
