# Devex Engine in TLA+

Specifications of the parts of Devex Engine (a C++23 game engine with an editor, C# and C++ games)
whose behaviour depends on an order nobody chose: threads that share a loop, loads that finish in any
order, players that join and leave while packets are on their way. Each module is translated from the
C++ named beside it; TLC checks small instances of it, and TLAPS proves some of the results for every
instance. Paths below are relative to the root of the repository.

| Module | Models | Lines |
|---|---|---|
| `Session` | `net::Multiplayer`: a session of one host and its clients | `engine/src/net/Multiplayer.cpp` |
| `ParallelLoops` | what `JobSystem::parallelFor` promises | `engine/include/devex/core/JobSystem.hpp` |
| `JobSystem` | `core::JobSystem`: workers, queue, `parallelFor` | `engine/src/core/JobSystem.cpp` |
| `JobSystemProofs` | proofs about `JobSystem` | |
| `AssetLoading` | `runtime::AssetManager`: background loading | `engine/src/runtime/AssetManager.cpp`, and the frame around it in `Application.cpp` |
| `Replication` | `runtime::NetworkReplication`: spawns, values and authority over a session | `engine/src/runtime/NetworkReplication.cpp`, and what it sees of `Multiplayer.cpp` |
| `Lists` | what is left of a list and what it says of order, for `Replication` and its proofs | |
| `ReplicationAgreement` | the invariant of `Replication` from which the players have the same instances | |
| `AssetImports` | `asset::AssetDatabase`: the scan, the import jobs and the cache on the disk | `engine/src/asset/import/AssetDatabase.cpp` |
| `CommandHistory` | `tools::CommandHistory`: undo and redo of one document | `engine/src/tools/CommandHistory.cpp` |
| `OpenDocuments` | what the tabs of the editor promise | `docs/decisions.md`, `engine/src/tools/SceneTabs.hpp` |
| `Documents` | the open scenes of the editor, saving, closing, and the copies of unsaved work | `engine/src/tools/SceneTabs.cpp`, `EditorSession.cpp`, `Autosave.cpp` |
| `SaveGames` | the saves of a game: save, remove, load, the end of the frame, the pictures | `engine/src/runtime/SaveGames.cpp`, `Application.cpp`, `core/File.cpp` |
| `SaveGamesProofs` | proofs about `SaveGames` | |
| `SequenceFacts` | facts about sequences, and induction, for the proofs below | |
| `SessionProofs` | proofs about `Session` | |
| `AssetLoadingProofs` | proofs about `AssetLoading` | |
| `AssetImportsProofs` | proofs about `AssetImports` | |
| `DocumentsProofs` | proofs about `Documents` and `CommandHistory` | |
| `ReplicationProofs` | proofs about `Replication` | |
| `MC*` | small instances of each for TLC | |

## Inventory

### How the parts meet

`runtime::Application` runs a frame on the main thread: it polls the window and the session, tells the
asset manager of the imports that ended, lets it hand finished loads to the renderer, runs the systems of
the game in order, replicates, and draws. Three things run beside it. The workers of the job system import
assets, decode meshes and textures and share loops; they give results back through queues the main thread
empties. The other games of a session run the same loop in other processes and are seen through ENet.
The GPU follows some frames behind.

### Components

- **Multiplayer session** (`net/Multiplayer.cpp`). State: offline, connecting or online; the number of the
  player, the other players, who decides for each entity, the events of the frame, the calls to itself;
  on the host the connections of its clients and the next number to give. Operations: `host`, `join`,
  `leave`, `poll`, `keepAlive`, `send`, `sendRpc`, `loopbackRpc`, `sendReplication`, `setAuthority`, and
  what `service` does with each ENet event. Hard: joins, leaves and authorities interleave with packets on
  their way; a paused game keeps its session alive without running its code. Correct when every client ends
  with the players and authorities of the host, numbers are never shared, and no event is lost or repeated.
- **Network replication** (`runtime/NetworkReplication.cpp`). State: what was spawned, and per entity the
  numbers of the last values sent and received, and who decided then. Driven by the events of the session.
  Hard: values are sent unreliably and authority changes hands while they are on their way. Correct when
  every game ends with the values of whoever decides, and with the same spawned objects.
- **Job system** (`core/JobSystem.cpp`). State: the queue, the number of running jobs, the stop requests;
  per loop the next index and the number of active helpers. Operations: `schedule`, `parallelFor` (called
  by the main thread, by jobs and by the bodies of loops: an import calls it per mesh, and the processing
  of each texture per row), `waitIdle`, the destructor. Hard: everything is concurrent; helpers may start
  after their loop is gone. Correct when each index runs once, within the call, and nobody waits forever.
- **Asset manager** (`runtime/AssetManager.cpp`). State: what is loaded, what is loading and by which
  request, what failed; the queue shared with the workers, and what a frame left over. Operations: `mesh`,
  `texture`, `material`, `preload`, `finishLoads`, `waitForLoads`, `handleEvents`, `setSource`, the
  destructor. Hard: loads finish in any order, while their asset is imported again or its source goes away.
  Correct when what is drawn is the last version, nothing awaited is lost, and no worker reads a dead source.
- **Asset database and import** (`asset/import/AssetDatabase.cpp`). State: the sources and the record of
  each, imports running, a file watcher's flag, artifacts and records on the disk. Hard: files change,
  disappear and come back during their import; a crash between two files. Correct when what the records say
  is on the disk, and every change ends imported.
- **Save games and atomic files** (`runtime/SaveGames.cpp`, `core/File.cpp`). State: on the disk, per slot, a save,
  its backup and its picture; in the game the time played, the scene to restore at the end of the frame, the
  pictures asked for. Operations: `save`, `remove`, `load`, and what the frame does with the last two. Hard:
  a crash or a failure between two files, and what happens later than it was asked for. Correct when a slot
  reads its last save, or the one before when that one is damaged, and time and scene come from one save.
- **Editor documents** (`tools/CommandHistory.cpp`, `tools/SceneTabs.cpp`, `tools/EditorSession.cpp`,
  `tools/Autosave.cpp`). State: the tabs and the one on screen, whose document is not in its tab; undo and
  redo stacks with a capacity; the action that waits for an answer about unsaved changes; the copies of
  unsaved work and their index on the disk. Operations: editing, undo and redo, opening, saving, closing,
  quitting, recovering. Hard: an action is asked, named, saved and asked again over several frames; the
  writes of a copy reach the disk one at a time. Correct when a document said to be saved is what is in its
  file, nothing unsaved goes unasked, and copies survive crashes until they are answered for.
- **Scene graph** (`scene/Scene.cpp`, `core/SlotMap.hpp`). Entities in slots with generations, parents and
  sibling lists. Sequential. Correct when the lists form a forest and stale handles stay stale.
- **Editor play and game code** (`runtime/EditorPlay.cpp`, `GameCodeBuilder.cpp`, `ManagedCodeBuilder.cpp`,
  `GameModule.cpp`, `ManagedGame.cpp`). Child processes, builds, libraries loaded again.
- **Renderer** (`render/vulkan`). Frame graph, uploads, deletion queues; the GPU runs behind.
- **Simulation** (physics, navigation, audio, particles, animation), **interface**, **serialization,
  reflection and formats**, **platform and logging**, **editor panels**, **C# runtime** (`managed/`).
  Mostly sequential, numerical or thin; see PROJECT.json for why each is left out.

PROJECT.json lists the hazards of the code at their lines, with the properties that would catch them.

## Plan

In order, the most important first; what is done is marked.

1. *Done.* `Session`, alone. Its properties are stated between the state of a client plus the packets on its
   way, and the state of the host.
2. *Done.* `JobSystem` and its promise `ParallelLoops`, with proofs.
3. *Done.* `AssetLoading`, with the workers and the imports abstracted.
4. *Done.* `Replication`: spawns, values and authority over the wires of a session; what it takes of the
   session (numbers, order of the reliable packets, who decides) is what `Session` shows.
5. *Done.* `AssetImports`: the asset database with its disk, crashes included.
6. *Done.* `CommandHistory` and `Documents`, with the autosave, the crash, and the refinement to
   `OpenDocuments`. To come: commands that fail, and the documents of the text editor.
7. *Done.* `SaveGames`: a save, its backup and a crash between two of their file operations, with proofs.
8. `SceneGraph`: handles with generations, sibling lists, reparenting and destruction.
9. *Done.* Proofs of every safety property of `Session`, `AssetLoading` and `AssetImports`; and of
   `Documents`, with the refinement `TabsAsPromised`.
10. *Done*, but for `OnlyOldNumbersDivide`. Proofs of the safety properties of `Replication`; what is left is
   under *Proofs*.

Modules to prove about use no recursive operators and declare their assumptions.

## What is modelled

### Session

A game runs one frame at a time. `poll` or `keepAlive` starts one; then ENet gives it what there is, one
event per action (`clientConnected`, `clientLeft`, `relay` on the host; `welcomed`, `peerJoined`, `peerLeft`,
`dataReceived`, `authorityGiven`, `disconnected` on a client), until `serviceEnds` lets its code run, which
reads the events and calls `host`, `join`, `clientLeaves`, `hostLeaves`, `setAuthority`, `send`, `sendRpc`,
`sendReplication`. `phase` says where a game is in this. `giveToNewcomer` is the host's code answering a
`PeerJoined` event, the usual way to give an entity, with an event that may be older than what the session
knows by then.

A link is an attempt to join: a client that joins again has a new one, as ENet's connection. Each link has a
reliable channel, in order, and an unreliable one, which may lose packets; ENet orders neither against the
other, and drops what comes late on the unreliable channel, so that losing is enough. A side may find the
other gone at any time; packets to a side that is gone are lost. The host refuses a client too many or one of
another version. `local`, `peers`, `authorities`, `events`, `loopback`, `clientId` and `nextPeer` are the
fields of the same name; an entity nobody was given to is the host's (`authorityOf`), so that a map to the
host stands for an absent entry. An event carries `given`, how many frames gave it to the code (0, 1 or more):
it is history, which nothing but two properties reads.

Left out: malformed packets (the code drops them), `testInstance` and `keepTestSession`, `remoteSender`, the
contents of messages.

### JobSystem

An action is what the code does under the mutex, or one atomic operation of a loop. `worker` says where a
worker is in `runWorker`; `at[l][t]` where thread `t` is in loop `l`, as its caller or as a helper: a thread
is in several loops when the body of one calls another. `notify_one` is a step of its own, after the queue
changed (`scheduleNotifies`, `spawnNotifies`); it makes one waiting worker ready, if there is one, which looks
at the queue again. `atomic::wait` is two steps, loading the value (`watch`) and sleeping if it is the same
(`check`), and `notify_all` makes the sleeper look again. A stop request wakes whoever waits.

Loops with one index or in a pool without workers run on their caller alone and are left out: `Count` may be
1 only to find an index taken by its caller. A job is a model value that calls a loop or none. Each call of
`parallelFor` is a member of `Loops` and is made once, which bounds them; nothing else is bounded.

`ParallelLoops` is the promise of the header: `body(index)` begins once for each index while the loop is
called, and the loop returns when every call has. The refinement mapping is the identity on `call` and
`visit`, two history variables of `JobSystem` that its other variables never read, except that a body or a job
goes on when the loop it called has returned.

### AssetLoading

The main thread asks for assets (`ask`, `material`, `loadSceneInBackground`), hears of imports and removals
(`handleAssetEvents`), hands loads over (`finishLoads`, `waitForLoads`) and changes source (`cancelLoads`, then
`setSource` or `destroyed`); a worker begins, reads and ends a load. A version of an asset is the number of
the import that wrote its artifact, and a handle of the renderer the request it came from: properties compare
versions to the disk and handles to what materials sample. A load reads the file when it runs, so that it may
find a version newer than the one it was asked for, or one that cannot be decoded (`Broken`).

`import` is external: the asset database writes artifacts on other workers and tells of them in a later
frame. Material assets are their texture only. Left out: the copy to the GPU (`Renderer::isReady` is taken as
true once a handle exists), failures of `createMesh` and `createTexture` (what they do is what a broken
artifact does), loading without a job system, `setTexture`, registered and generated meshes, other caches.

### Replication

Each game is in the middle of a frame (`phase`) or about to poll. A poll finds packets and changes of the
session (`clientConnected`, `clientLeft`, `relay`, `received`, `disconnected`), which become events;
`receive` handles them one at a time (`welcome`, `receiveSpawn`, `receiveDespawn`, `receiveValues`), beginning with
`leftSession` when the session ended; the code of the game runs (`write`, `place`, `destroy`, `setAuthority`,
`leave`), then `send` tells the others: what is new, what is gone, what changed, each parent before what is
inside it. A wire has a reliable and an unreliable part. Unreliable packets may be lost as they are sent, for
any subset of those they go to, or arrive after the reliable ones sent later; the wire keeps at most `MaxLate`.

An entity is inside an instance (`Inside`) and an instance under a spawner (`SpawnerOf`): in the run a hut has
a nest, which is a spawner itself, and a cart has a body with values. `tracked` holds the fields of the same
name; `took` in it, and the variables `untold` and `strays`, are history: who decided the values taken last,
the instances whose news was refused or had nobody to tell it, and those spawned by a handler of a session
that was already over. The code of games changes what it decides for and nothing else, as the documentation
of multiplayer asks of it.

Left out: interpolation and bodies (`smooth`, `followBody`), `sceneChanged`, an update rate other than
nondeterministic choice of the entities looked at (`due`), a host that ends its session, a client that joins
again before its game handled the end of the former session, games that run their code offline, instances
inside instances inside instances. `Forgets` resets what is inside an instance along with it, where the code erases
the entry of the instance alone (`NetworkReplication.cpp:406-411`): an instance is placed once here, so that nothing
reads what is kept of what was in it.

### AssetImports

The disk is `file`, `shared` (a file that every source depends on, as the textures and includes an import
reads) and `option` in the `.dvxmeta`; the cache is `artifact`, which keeps what each cooked file was made of,
and `recordFile`. A stamp is the content of a file, size, time and hash in one. `scan` walks the folder as
`refresh` does: the files are listed, visited one at a time, and the sources not listed removed; files change
between any two steps. An import job is stamped, reads (with a file another program may hold for a moment),
writes its artifacts one at a time and its record last, so that a crash, or a change, may come between any
two; `close` cancels, a job that has begun to write goes on as in the code. `number` in a job only tells two
jobs of one source apart.

Left out: folders, files moved or copied with their `.dvxmeta`, a `.dvxmeta` edited by hand, errors of the
disk, the tables of translations, options of sub-assets, the project file, the time the watcher waits for
changes to settle. `removePath` is a file that disappears and a scan. The database of a process is opened
once (`Application.cpp:163`), so that `initialize` waits for the jobs of the former process to be over.
A crash between the artifacts of an import that a change of options asked for belongs to `back`, below: it is imported
again when the program starts, unless the options were put back.

The code does not see every change. Each kind it misses is a member of `Surprises`, which the run leaves
empty; each of them alone breaks a property, `gone` `AssetsCanBeLoaded` and the others `ArtifactsFollow`:

| Surprise | What happens | Code |
|---|---|---|
| `late` | a dependency changes between its reading and its stamp, which come in that order: the artifact of the older one passes for the newer | `AssetDatabase.cpp:458`; the source itself is "Stamped before reading, so that a change during the import is seen by the next scan" (434) |
| `returns` | a source is removed and comes back while its import runs: two imports write the same files, and either outcome is taken for the other | `AssetDatabase.cpp:1613` |
| `opening` | a file changes after the first scan saw it and before the folder is watched, or while the database is closed and being opened: no scan follows | `AssetDatabase.cpp:543-560` |
| `back` | a file becomes again what the record stamps, while its artifacts were made of another content or with other options: by a crash after the artifacts and before the record, or between stamp and reading | `AssetDatabase.cpp:453-477` |
| `gone` | the program closes while the import of a source that was removed is under way: its record stays in the cache | `AssetDatabase.cpp:477, 1612` |

### Documents

The editor has one thread and a handler is one action. `desk` is `SceneTabs` with the document on screen, which
changes places with a placeholder in its tab; a scene is a number, a new one at each edit, and `files` says
which scene each file holds. `CommandHistory` is the operators of the class on a record; a command is the pair
of scenes it goes between. `pending`, `asking` and `naming` are the action that waits for an answer, the
question on screen, and the dialog that names a scene, which is not modal: editing goes on under it, and its
answer is about the scene then on screen. Saves may fail, except the first of a scene being named
(`SaveAsMay`). Quitting, closing the project and opening another are one action, `leave`.

What a handler writes to `.devex/autosave` is queued in `writes` and reaches the disk in `Write` steps, in
the order of the code; a crash may come between two. The index is emptied, then written, and either may fail
(`IndexFails`): the file is not opened and stays as it was, or is left empty or with a part of the names. The
editor logs this and goes on; `unindexed` is history, which only `CopiesAreFound` reads. `recoverable` is what
the dialog about copies of a crash asks of; the dialog is modal.

Left out: text documents, terrains, playing, prefabs, files moved or removed on the disk, commands that fail,
views and selections, and the folder recovered copies are set aside in, which nothing reads. Removing the
autosave folder is one step, and removing and setting aside succeed (the code does not look at their errors).
A write that fails is one the program is told of. `SaveAsMay` holds what the run leaves out because a property does not
hold then (see *Observations*).

`OpenDocuments` is the promise of the tabs: a map from tabs to documents of which only the shown one is
edited. The refinement mapping reads each document where it is, on screen or in its tab.

### SaveGames

A save is a number; the files of a slot hold one, whole, cut to a start that still reads as a save, or as
nothing that does: `parseSave` checks the head only, and the scene after it when it is put back. The game has
one thread, so that only a crash comes between the file operations of a call, each of which is an action:
`copyBegins`, `copyEnds`, `writeEnds` and the picture for `save`; `removeFile`, `removeBackup` and
`removePicture` for `remove`. `copy_file` empties the backup before it fills it; `writeFileAtomically` renames,
so that the file changes at once. Each may fail: a copy or a picture without consequence, the rest ends the
call. `damage` is a file cut short or overwritten from outside.

`load` sets the time played at once and leaves the scene in `restore` until `updateGameData` puts it in place,
or `restoreFails`. `load` without a scene changes nothing here. Pictures go from `requests` to `captures` at
the end of the frame and are written when the renderer has drawn them, whatever happened to the game.
`written` and `loose` are history: the last two saves written to a slot, and whether its backup was left
behind, by a copy that failed or a removal cut short.

Left out: the textures made of the pictures, the settings of the player, games without a renderer or a folder,
the temporary files a crash leaves, failures of the disk the program is not told of, and a good save that cannot be
opened for a moment (`SaveGames.cpp:105-106` falls back on the backup then as for a damaged one).

## Runs

All runs take a few minutes at most with two workers. Deadlock is checked in `documents` and `saves` only, whose
editor and player always have something to do. In the others games, threads and frames may all stop, when the bounds are spent
or nothing is left to do; what must not stop is a liveness property.

| Run | Bounds | Shows |
|---|---|---|
| `session` | 2 players, 1 entity, 1 method, 2 links, 2 sessions of the host, 1 grant, 1 message | `TypeOK`, `NumbersAreUnique`, `ViewsConverge`, `NewsIsInOrder`, `PassedCallsRun` |
| `session_live` | 2 players, 2 links, 1 grant, a host that may pause before the second link; fair | `JoinEnds`, `EventuallyAgreed`, `NothingLostUnread` |
| `session_pause` | 1 player, 2 links, 1 grant, a host that may pause; without fairness | violates `EventsGivenOnce` |
| `jobs` | 2 workers, a job, 3 loops of 2 indices: two nested ones of the job, one of the main thread; fair | `Inv` (`TypeOK` included), `NoJobIsOverlooked`, `LoopsAsPromised`, `LoopsReturn`, `IdleIsSeen`, `DestructorEnds`, `JobsStart` |
| `loading` | 2 assets, 2 workers, 3 imports of which one is broken, 2 sources | `TypeOK`, `NoLoadIsLost`, `WorkersReadTheirSource`, `ShowsTheLatest`, `MaterialsFollow` |
| `loading_live` | 2 assets, 2 workers, 2 imports, a scene in the background; fair | `LoadsEnd`, `CancelEnds` |
| `loading_wait` | 1 import, a caller of `waitForLoads`; fair | violates `WaitForLoadsReturns` |
| `loading_scene` | as `loading_live` | violates `BackgroundSceneArrives` |
| `replication` | 2 players; six budgets of joins, departures, writes, grants, instances placed and destroyed; wires with 1 late packet | `TypeOK`, `SpawnsAgree`, `OnlyOldNumbersDivide`, `LeavesNothingBehind` |
| `documents` | 2 files; five budgets of up to 3 edits, 3 tabs, 2 crashes, with or without copies, one with an index that may not be written; histories of 1 command | `TypeOK`, `UnmodifiedIsSaved`, `CopiesAreFound`, `UnansweredCopiesStay`, `NothingDroppedUnasked`, `TabsAsPromised` |
| `imports` | 1 or 2 sources of 2 assets, 3 contents of which one cannot be imported, 1 dependency; six budgets of changes, options, failures, closings and crashes; fair | `TypeOK`, `ArtifactsFollow`, `AssetsCanBeLoaded`, `NothingLeftBehind`, `ImportsSettle` |
| `saves` | 2 slots; four budgets: one slot with 4 saves and a fault, 3 and 2, 2 and 3, or two slots with 3 saves and a fault; a fault is an operation that fails, a damaged file or a crash | `ReadsARecentSave`, `ClockFollowsScene`, `SlotsChangeWhenAsked` |

Why the bounds are enough for what they look for. Two links let both players be in the session at once or one
of them join twice; two sessions let numbers start again from 2; one grant is enough because clients apply
grants independently per entity and each grant travels in the same order as joins and leaves; one message is
enough because channels are compared with the state of the host, not with each other. Two workers let two
helpers, or a helper and a job, share the pool while the main thread is a third; with two indices the caller
and a helper share a loop and a second helper is late. A mesh larger than the budget of a frame and a texture that fits let a frame leave a load over
and hand one too large over alone; three imports let an asset be read at three versions, one of which cannot
be decoded.

`replication`, `documents` and `imports` have budgets: a behaviour is given one of them, which says how many
deeds of each kind it has, and together they cover the pairs of deeds that meet. For `replication`: two
spawners one inside the other, with either or both given away while instances appear and disappear in them,
two sessions of one client, values given away among three games, values given to a client that leaves, values
written repeatedly while packets are lost. (Three games of which one leaves with the values, 1.3 million
states, were checked too and are left out of the run for its time.) For `documents`: three tabs are what a neighbour on either side takes, three edits overflow a
history of one command twice around a save, and a crash finds what a former handler left, the second one with
or without an answer about the first. Writes of the index fail in the budget with two crashes: one edit and two tabs
are enough for a second index to fail over a first, or the first with nothing before it. For `imports`: two changes put a file back to what it was,
three change it during each of two imports; an import of two parts can be stopped between them.
For `saves`: a slot has a save, one before it and one before that, which must never be read; several faults let
the second find what the first left; slots share the time, the scene and the pictures of the game.

In `session_live` two players give the host somebody to tell of each who joins or leaves, so that agreeing on who plays
is about `PeerJoined` and `PeerLeft` on their way; the mutant of `EventuallyAgreed` tells of arrivals only. The host
pauses as long and as often as the editor likes while one player has tried to join, and not once a second one does
(`PausesAlone`, an action constraint): what pauses add to the liveness is the events they keep, which are there with one
player. The constraint bars no step that fairness asks for, since a game that is not paused may poll.

`session` uses a view that forgets the events no code of the host may answer; none of its invariants tells such
states apart (`MCSession`). `session_live` uses the same view from the second link on: when nothing is paused each
frame drops the events the last one gave, so that nothing fair, no guard and no property depends on the ones
forgotten, and `NothingLostUnread` is about the states before. Players, entities and workers are symmetric in the runs without liveness.

## Fairness

- `Session`: every application runs frames (`poll` or `keepAlive`, then its end), since the main loop always
  does. A client that keeps serving its link receives what is reliable, and either side of a link whose
  other side is gone is told of it: ENet resends, and times out. A link that works is never dropped by force,
  and nobody is forced to join, leave or send.
- `JobSystem`: each thread that can take a step of its loop or of `runWorker` does, the scheduler of the
  system being fair to threads; the main thread goes through `schedule`, `waitIdle` and the destructor once it
  called them, but need not call them.
- `AssetImports`: the workers run the jobs they have, and `update` runs every frame.
- `AssetLoading`: workers run, frames follow one another, and the main thread goes through what it called.
  Nothing forces anyone to ask for an asset, which is why `BackgroundSceneArrives` fails.

## Findings

- **Events given twice after a pause** (`session_pause`). `keepAlive` keeps `events` whether or not the game has
  read them; the frame before the pause is read again when the game goes on.
- **`waitForLoads` waits for nothing** (`loading_wait`). It waits for the queue of the workers, though the load
  it awaits was left over in `m_finished` by a frame whose budget was spent.
- **A background scene that never arrives** (`loading_scene`). An asset that was not imported when it was
  preloaded, or had failed, stops counting as ready once it is imported again, and nobody asks for it.

### Observations

Disagreements between code and comments met while modelling, which no run reports: the properties name them
as the cases they except, or a constant leaves them out.

- **An entity of someone who left** (`Multiplayer.cpp:657`). `setAuthority` accepts a player that is no longer
  there: `clientLeft` has already given back what that player decided, and nothing does so again. A host that
  answers the `PeerJoined` of a player whose `PeerLeft` is in the same frame (`giveToNewcomer`) leaves an entity
  nobody may decide for until it is given again, where `Multiplayer.hpp:129-130` says that an entity goes back
  to the host when its player leaves. Numbers are not given twice, so that no later player takes it over.
- **Values of the player that decided before** (`NetworkReplication.cpp:534`, the exception of
  `OnlyOldNumbersDivide`). Numbers of two players are not compared on a change of authority, but packets
  carry no player: values of the former one that arrive after it set `lastSequence` to its numbers, and those of
  the new one, below, are dropped until they pass it. `docs/multiplayer.md:48-49` says that the last values
  always arrive. An entity given away and back whose value did not change is not sent again either, and a
  welcome sends what the host received as the host's last number.
- **Instances nobody tells of** (the exception `Disputed` of `SpawnsAgree`). What a client places or destroys
  while the host takes the spawner back is refused, and what has not been told when a spawner changes hands
  never is.
- **Numbers of a host that hosts again** (`NetworkReplication.cpp:397`). `leftSession` runs for clients only, so
  that a host keeps the `lastSequence` of its former session, above the numbers of new clients. Not modelled.
- **Quitting while the scenes wait for the game code** (`ToolsOverlay.cpp:498`, the exception `QuitsUnasked` of
  `UnansweredCopiesStay`). The copies of a crash are only looked for once scenes open; until then `recoverable` is
  empty and closing the window deletes them, where the comment above (497) says that copies not answered for are
  offered again. Without the exception the property fails.
- **An index that was not written** (`Autosave.cpp:109-112`, the exception `unindexed` of `CopiesAreFound`). The write
  of the index may fail, which is logged. The entries are kept all the same, so that the next passes find nothing
  changed and do not write it again until a scene is copied or a copy dropped; a crash before that offers none of the
  copies the index does not name. `updateAutosave` writes the copies every few minutes, but only of what changed.
  What the index does name is there even then, and copies of a crash not answered for stay.
- **Save As onto the file of another tab** (`EditorSession.cpp:1409`). Both tabs then have one file, and the other
  one is shown unmodified over a scene it does not hold; a Save As that cannot be written renames the tab all
  the same. With `SaveAsMay = {"taken"}` or `{"refused"}`, `UnmodifiedIsSaved` fails. `docs/decisions.md:1440-1441`
  says that opening a file already open shows its tab.
- **The index names what is not there** (`Autosave.cpp:108`), for a moment: copies are deleted before the index
  that named them is written. A crash while the index is written, or after the folder was set aside and before
  work is copied again, hides every copy. `CopiesAreFound` and `UnansweredCopiesStay` say what is kept.
- **A damaged save takes its backup with it** (`SaveGames.cpp:233`, the exception of `SlotsChangeWhenAsked`). `save`
  copies the file over the backup without looking whether it reads: when it was damaged, the backup was the
  only good save, and a failure or a crash before the new one is written leaves none. `SaveGames.hpp:59-60`
  says that the previous save is kept for loading to fall back on.
- **Pictures of saves that are gone** (`Application.cpp:2811`). A picture is written frames after it was asked
  for, whatever the slot holds by then: a removed save has its picture come back, and one saved again without a
  picture gets the one of the save before (`SaveGames.hpp:109` says that `remove` takes the picture along).
- **Backups left behind** (`loose`, the exception of `ReadsARecentSave`). The error of `copy_file` is not looked at,
  and a removal that ends after the first file leaves the backup: a later save that is damaged falls back on a
  save older than the one before, or on one the player removed.
- A save whose file was cut short after its head reads as whole, without its scene or with a part of it that
  cannot be put back, and its backup is not asked. A save made between `load` and the end of the frame has the
  time of one game and the scene of the other.
- A save that fails for the tab on screen keeps the action that waited, which the next Save As continues; a
  failed undo or redo drops its command (`CommandHistory.cpp:45`).
- The surprises of `AssetImports`, above. Besides, a failed import stamps no dependency, so that repairing one
  does not import the source again, where `AssetDatabase.cpp:67` says that a dependency appearing later counts
  as a change; and records of sources removed while the program was closed keep their artifacts.

## Proofs

`JobSystemProofs` proves, for every set of jobs and loops, every finite set of workers and every number of
indices above zero (`JobSystemAssumption`, which TLC evaluates in the runs of `MCJobSystem`):

| Theorem | States |
|---|---|
| `Invariant` | `Spec => []Inv` |
| `TypeCorrect` | `Spec => []TypeOK` |
| `RunningIsCounted` | `Spec => []RunningCounted` |
| `ParallelForImplementsLoops` | `Spec => LoopsAsPromised`, that is `Spec => PL!Spec` |
| `LateHelpers` | `Spec => []LateHelpersStayOut` |
| `NothingIsOverlooked` | `Spec => []NoJobIsOverlooked` |

The argument. `TypeOK` is not inductive alone: a helper that leaves takes one from `active`, which stays a
natural number only because `active[l]` is the number of threads between `enter` and `leave` (`HelpersCounted`);
`running` likewise (`RunningCounted`, with `FreeWorkers`: only a busy worker is in loops). That a loop returns
after its last call needs more: whoever is in the body holds an index that has begun (`BodyHoldsIndex`), nobody
else holds it (`IndexHeldOnce`), what has begun and not ended is held (`RunningHeld`), indices are taken in
order, once (`IndicesInOrder`), a caller that watches has left no index (`NoIndexLeft`) and is alone
(`OneCaller`). When it finds no helper counted, then, nobody is in the body, so that every index is done: the
step maps to `Return` of `ParallelLoops`. A late helper counts itself after the caller looked; it finds
`next[l] >= Count[l]`, and never enters. `NobodyBefore` says that helpers of a loop only exist once it was
called. `StepMaps` shows that every step of the threads is a step of `ParallelLoops` or leaves it alone, and
`LateHelpers` follows from the promise: a loop that returned has no call of its body left.

`NothingIsOverlooked` counts: a job comes with a notification to send, a notification makes one more worker
ready or finds none waiting, and a worker that starts takes one job with it. What can be compared must be
finite, and `Loops` need not be, so the proof carries along (`Attended`) that only finitely many loops are
about to notify; `FreeWorkers` says that a worker about to start notifies nobody.

`jobs` checks `Inv` on the small instance as well, of which `TypeOK` and `RunningCounted` are parts;
`LateHelpersStayOut` follows from `LoopsAsPromised`, which it checks.

`SaveGamesProofs` proves, for every set of slots, every bound on saves and every budget of faults
(`NoSlotIsNone`, `LimitsAreBounds`):

| Theorem | States |
|---|---|
| `SlotsInvariant` | `Spec => [](TypeOK /\ SlotsInv)` |
| `TypeCorrect` | `Spec => []TypeOK` |
| `RecentSaves` | `Spec => []ReadsARecentSave` |
| `SlotsChange` | `Spec => SlotsChangeWhenAsked` |
| `ClockAndScene` | `Spec => []ClockFollowsScene` |

That a slot reads one of its last two saves is not inductive: it says nothing of the backup while the file
reads, nor of a call half done. `FileIsLast` says that the file is the last save written; `BackupIsRecent` that
the backup is that one or the one before, and goes no later than the file; `CallIsOnItsWay` what the call under
way has done: when `save` is about to write, the backup is the last save, so that it is the one before
afterwards, and when `remove` comes to the backup the file is gone. A crash between any two steps then leaves
the slot as the invariant has it. `SlotsChange` takes the steps one by one (`StepsOfSlots`): most change no file,
and those that change the backup find a file that reads, or the exception. `ClockAndScene` needs that a scene to restore is
always that of the time played (`ClockInv`), since `load` sets both.

`SessionProofs` proves, for any number of players, finitely many entities and every bound on links, sessions,
grants and sends (`SessionAssumption`):

| Theorem | States |
|---|---|
| `TypeCorrect` | `Spec => []TypeOK` |
| `EventsAreGiven` | `Spec => NothingLostUnread` |
| `Invariant` | `Spec => []Inv` |
| `NumbersStayUnique` | `Spec => []NumbersAreUnique` |
| `ViewsAgree` | `Spec => []ViewsConverge` |
| `NewsComesInOrder` | `Spec => []NewsIsInOrder` |
| `CallsRun` | `Spec => []PassedCallsRun` |

Three of these are one fact. A client in a session has a *view*: its state, its number, the players it knows
and who decides over which entity. `Told(first, packets, last)` says that there is a chain of views from
`first` to `last`, one more for each packet, each of which a client with the view before it may be told
(`Follows`: a welcome first and once, nobody joins twice or leaves unknown, no stranger speaks, nobody calls
what it may not). `ToldTo(p)` says that what is on its way to `p` is told from what it knows, and to what the
host knows as long as the host has `p` as a client. It is a chain and not a fold, since it must be read at both
ends: the host adds a packet at the end, of which only the last view is needed (`ToldAppend`), and
a client takes one at the front, of which only the first is (`ToldHead`). The rest of `Inv`, `Book`, keeps the
accounts: numbers are unique and below `nextPeer`, a link belongs to one player, the host writes only to links
it answered, the players it knows are its clients. Then `ViewsConverge` is that two chains of the same packets
end alike (`ToldIsLearned`), `NewsIsInOrder` and `PassedCallsRun` are `Follows` at each link of the chain. That
there are finitely many entities (a scene has as many) makes the grants of a welcome a sequence.
`EventsAreGiven` needs only that while the code of a game runs it was given every event there is (`ReadInCode`).

`AssetLoadingProofs` proves, for every finite set of assets and of workers, every size and budget and every
number of imports and sources (`AssetLoadingAssumption`):

| Theorem | States |
|---|---|
| `Invariant` | `Spec => []Inv` |
| `TypeCorrect` | `Spec => []TypeOK` |
| `LoadsAreNotLost` | `Spec => []NoLoadIsLost` |
| `NoStaleSource` | `Spec => []WorkersReadTheirSource` |
| `LatestIsShown` | `Spec => []ShowsTheLatest` |
| `MaterialsAreResolved` | `Spec => []MaterialsFollow` |

That a worker reads its own source holds because `cancelLoads` returns only at `running = 0`, with `running`
the number of busy workers (`WorkIsCounted`; workers are finite so that they can be counted), and because the
jobs left in the queue are of an older generation, which `begin` refuses (`JobsAreCurrent`). What is drawn
is the latest because of the loads that end only the awaited one, the last requested, is handed over, and what
it read is on the disk still unless news of a later import is to come (`AwaitedAreFresh`); a request is
answered by its own load and no other since requests are numbered (`RequestsAreCounted`). `EndedAreRead` and
`GoneAwaitsNothing` close the remaining cases.

`AssetImportsProofs` proves, for every set of sources, contents and parts and every budget of edits, crashes
and reopenings (`ImportsAssumption`):

| Theorem | Hypothesis | States |
|---|---|---|
| `Invariant` | `NoneAstray` | `Spec => []Inv` |
| `TypeCorrect` | `NoneAstray` | `Spec => []TypeOK` |
| `OfferedAreThere` | `NoneAstray` | `Spec => []AssetsCanBeLoaded` |
| `CacheIsExact` | `NoneAstray` | `Spec => []NothingLeftBehind` |
| `ArtifactsAreCurrent` | `Surprises = {}` | `Spec => []ArtifactsFollow` |

`NoneAstray` is that neither `returns` nor `gone` is among the surprises; the other three may be, so that the
first four results hold of an editor that misses changes too. The hypothesis of `ArtifactsAreCurrent` is that
of the run, and each of `late`, `returns`, `opening` and `back` alone gives TLC a counterexample: the theorem
is about as strong as the code allows, and the table above says what remains for the code.

`Inv` says of each source how far its import is: it runs once (`Alone`), its flags are those of the import
(`Flagged`), the record in the cache is the one in memory or the one reported (`Recorded`), what a job wrote
stays (`Written`) and nothing else is in the cache (`NothingElse`), the record cites artifacts that are there
(`Whole`, since the record is written after them and deleted before), what is offered is what the record
in memory cites (`Offered`), and a failed import keeps what there was (`Keeps`). The hard case is a source that is removed while its import
runs, which goes on writing: `StaysAway` says that its file does not come back before, which is what `returns`
would break, and then the report finds it gone and deletes what it wrote. `ArtifactsAreCurrent` has an
invariant of its own, `Followed`, in two halves. `Cached` says when the cache would tell the truth to a scan:
a stamp that is still that of the file was taken of what was read (`AsRead`), and a record that passes for the
file as it is while its artifacts are of something else is about to be replaced (`Vouched`, `Shows`,
`Shaped`). `Noticed` says that what is not yet right will be looked at: sources and files agree unless the
watcher told of a change or the scan under way has not come to them (`Seen`), and the record or the import of a
source nobody is told of is of the file as it is (`Settled`).

`DocumentsProofs` proves, for any finite number of scene files, every capacity of the histories and every
bound on sessions, tabs, edits and crashes (`DocumentsAssumption`, `CapacityAssumption`):

| Theorem | Hypothesis | States |
|---|---|---|
| `TypesAlways` | | `Spec => []TypeInvariant` |
| `TypeCorrect` | | `Spec => []TypeOK` |
| `KeepsThePromise` | | `Spec => TabsAsPromised`, that is `Spec => OD!Spec` |
| `UnmodifiedAreSaved` | `SaveAsMay = {}` | `Spec => []UnmodifiedIsSaved` |
| `CopiesCanBeFound` | | `Spec => []CopiesAreFound` |
| `CopiesOutlast` | | `Spec => UnansweredCopiesStay` |
| `NothingIsDroppedUnasked` | | `Spec => NothingDroppedUnasked` |

The hypothesis is that of the run `documents`; without it the code has the counterexamples that *Observations*
tells of.

The tabs are reasoned about as desks. A desk is `Orderly` when tabs have numbers of their own below `nextId`
and the active one is a tab, and `Laid` when there is one. What every operation on tabs does to the documents is one
of few things, whatever it does to their places: `new` *follows* `k` (`Follows`) when every tab they share keeps its
document and tabs that are new have new numbers; *turns* it (`Turned`) when tabs may have been
saved besides;
`Edited` when only the one on screen does, by an edit, an undo or a redo. The lemmas on `activate`, `close`,
`move` and the loops over them show this of places in sequences, once (`ActivatesTab`, `ClosesTab`, `MovesTab`,
`ClosesTabs`, `RecoversScenes`), and `StepMoves` of every step: what comes after no longer sees a sequence. `KeepsThePromise`
is then a case for each of `OpenDocuments`' actions.

That an unmodified tab holds the scene of its file is not inductive: undo may come back to the state that was
saved, of which nothing on screen is left. `StandsFor(L, history, scene)` says that there is a map `L` from
states to scenes that agrees with each command of the history at both its ends, on what is undone as on what is
done, with `L` at the current state the scene on screen; a command that is recorded takes a state no command
had (`RecordStandsFor`), also when the oldest is forgotten and its end becomes the base. `Kept` adds that the saved
state stands for the scene of the file, and `PathsApart` that no two tabs share a file, so that saving one does
not change what another has saved. Both surprises of Save As break it: the file of another tab `PathsApart`,
a refused one the saved state.

`CopiesCanBeFound` must hold between any two writes of the autosave. Its invariant `CopiesKept` therefore speaks
of the folder as it is and of what is left to write: `Carries` says of a file that it holds a scene or will,
`Traced` that the copies of a tab carry the scenes that the states they are stamped with stand for (the map `L`
again, so that a copy is right even of a state that was undone and reached once more), `Spares` that nothing left to
write takes a copy away, `Ordered` that the index is emptied and written after the copies, `Honest` that what it
names is there. `SyncIs` shows what `syncCopies` leaves, the names it makes up among others: the n-th number
nobody uses differs for every n (`FreshApart`). A write then takes one from the front (`WriteAccounts`), and the
next `syncCopies` starts where the last one ended (`SyncAccounts`). A write of the index that fails ends the
handler with the copies all written (`FailureAccounts`): what they hold does not depend on the index, and only that
the index names them is lost, until the next index is written.

`CopiesOutlast` needs that what is written to the folder while copies wait for an answer is nothing
(`CopiesWait`), so that no write can fail then either; `NothingIsDroppedUnasked` that no tab is modified while they do (`Unedited`), since a project
that opens has only just read its scenes.

`ReplicationProofs` proves, for every scene with finitely many entities, any number of clients and every budget
and bound (`ReplicationAssumption`):

| Theorem | States |
|---|---|
| `Invariance` | `Spec => []Inv` |
| `TypeCorrect` | `Spec => []TypeOK` |
| `SessionsLeaveNothing` | `Spec => []LeavesNothingBehind` |
| `SessionKept` | `Spec => []SessionInv` |
| `Agreement` | `Spec => []AgreeInv` |
| `PlayersHaveTheSame` | `Spec => []SpawnsAgree` |

`leftSession` destroys what the game keeps as spawned, so that an instance in the scene it does not know would
stay. `Remembered` says why there is none: the session is put away at the beginning of a frame, after a `send`
that made known whatever the scene had (`SendKnows`), and within a frame only what the game decides for is
unknown, all of which `send` takes. It needs that authority changes hands while a game polls and not between
its code and `send`, and that `leave` gives a client everything to decide. Types need what `With` and
`Latest` make of a wire, and `Only` of a list (`OnlyIs`, by the least counterexample).

`PlayersHaveTheSame` is about the moments when nothing is on its way; its invariant, in `ReplicationAgreement`, is
about all the others. It speaks of one instance `i` at a time, together with the one it is inside
(`Over(i)`), for every `i` that is not disputed (`Clear`: neither it nor what it is in was refused, told nobody or
handled after its session). What a client is to hear of these two, `News`, is what its queue holds and then what the
reliable wire does; `Reports` is what the host is to hear of them from a client. Each conjunct of `Agreed(i)`
closes one way for players to differ:

| Conjunct | Says | Without it |
|---|---|---|
| `Unplaced` | what was not placed is nowhere, nor spoken of | a spawn of an earlier one would pass for its own |
| `Placed` | what its game has not told of is only there, in the frame it was placed | two games would place one thing |
| `Reported` | what the host is yet to hear of is only where it was placed, and told after what it is in | the host would place a bird before its nest |
| `Nested` | where something is, what it is in is | a despawn would leave what was inside |
| `GoneIsDead` | what clients hear is gone the host lost, and will not have again | a late spawn would bring it back |
| `GoneIsLast` | no client hears that something appeared after it is gone | the same, at a client |
| `OuterFirst` | a client has, or hears first of, what something is in | a client could not place it |
| `Missing`, `Retracted` | what a client lost it told the host of, or heard of, and hears no more of | the host and the others would keep it |
| `HeardOnce` | a client hears of something once, or before it decides for anything | the second spawn would follow its own despawn |
| `HostOrder` | the host lists things after what they are in | `welcome` would tell them in the wrong order |
| `ClientsFollow` | what the host has and told of, clients have, will, or are taking away | |
| `HostFollows` | what a client has the host has, will, or is taking away | |

The last two are the property: when nothing is on its way (`Quiet`) the exceptions are all of things on their
way, so that what one of them has the other has. The others are what a step needs to keep these. The hard case is
a client that joins while another destroys what it is being told of: it must hear of the spawn, then of the despawn, and
decide for nothing in between (`HeardOnce`, and `Fresh`: a player the host is yet to welcome was granted nothing and
has said nothing). `SessionInv` is what this takes of the session: numbers, the welcome first, nothing of before a join
read after it (`Unread`), who decides for what, and that only values go by the unreliable part of a wire.

A step does one of few things to `i`, whichever action it is: nothing (`Calm` and the lemmas `Same...`), a game
leaves (`Departs`), places (`Places`) or destroys (`Destroys`), sends what is new and gone (`Sent`), reads from the wire, a
client or the host handles a message (`Listens`, `Attends`), the host welcomes a player (`Greets`). One lemma shows that each of
these keeps `Agreed(i)`, and one per action that it is one of these. `AgreeInv` was found with TLC, on the
instances of `Replication.cfg`, before it was proved: a module that extends `MCReplication` and
`ReplicationAgreement` can name it as an invariant. The run itself checks what
it is for, `SpawnsAgree`.

`SequenceFacts` holds what these proofs share: what `ToSet` and `SetToSeq` of the community modules give; what
`Only` keeps of a list, and what appending, joining or taking the head does to `Never`, `After` and `Leads`, which
say what comes before what in one (`Lists`); and `LeastNat`, from which facts about each length of a sequence follow by the least counterexample, since the
induction theorems of the library take an operator the provers cannot instantiate.

What is only model-checked:

- `JoinEnds`, `EventuallyAgreed`, `LoadsEnd`, `CancelEnds`, `ImportsSettle` and every other liveness property:
  the prover does not handle fairness and `ENABLED`.
- `OnlyOldNumbersDivide`. What agrees in the end are values, which go by the unreliable part of the wires, where they
  are lost, late and out of order; an invariant must say of every packet on its way, for each entity, which of the
  games that decided for it in turn has sent it, and how its numbers compare with those of the others. The model
  also gives each entity away once in a behaviour (`grants` of a budget), and what is checked rests on that: an entity given
  away and back before it changed is not sent again. A theorem for every budget would say less than it seems
  to.

## Running it

    tlc -workers 2 -config Session.cfg MCSession
    tlc -workers 2 -config JobSystem.cfg MCJobSystem
    tlc -workers 2 -config AssetLoading.cfg MCAssetLoading
    tlc -workers 2 -config Replication.cfg MCReplication
    tlc -workers 2 -config Documents.cfg MCDocuments
    tlc -workers 2 -config AssetImports.cfg MCAssetImports
    tlc -workers 2 -config SaveGames.cfg MCSaveGames
    tlapm JobSystemProofs.tla
    tlapm SaveGamesProofs.tla
    tlapm SequenceFacts.tla
    tlapm SessionProofs.tla
    tlapm AssetLoadingProofs.tla
    tlapm AssetImportsProofs.tla
    tlapm DocumentsProofs.tla
    tlapm ReplicationProofs.tla

and likewise for the other configurations, each of which belongs to the MC module its name begins with.
Definitions under a comment that begins with *mutant* are wrong on purpose: each replaces the definition it is
named after and breaks one property, which shows that the property can fail.
