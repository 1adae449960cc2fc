--------------------------- MODULE StrategyLoader ---------------------------
(***************************************************************************)
(* StrategyLoader of src/backend/engine/StrategyLoader.ts: the strategy    *)
(* files on disk, the loader's record of each file, the loaded classes,    *)
(* the file watcher with its debounce, and the loading queue.  Every task  *)
(* that is inside an asynchronous call of the loader has a step that says  *)
(* where it stands; HotReloadManager adds the tasks of its requests.       *)
(* A version stands for the contents of a file; the files of Broken import *)
(* no strategy class (their text passes validation all the same).          *)
(***************************************************************************)
EXTENDS Integers, Sequences, SequencesExt, FiniteSets

CONSTANTS
  Strategies,
  Handlers,      \* bound: calls of handleFileChange at a time
  Requests,      \* reload requests, the tasks of HotReloadManager
  MaxChanges,    \* bound: how often the watched files are written or removed
  Broken,        \* versions whose import fails
  None

ASSUME LoaderAssumption == MaxChanges \in Nat /\ None \notin Strategies

VARIABLES
  disk,          \* the version of each file on disk, None when it was removed
  strategyFiles, \* the version the loader has recorded, None without a record
  loadedStrategies, \* the version that is loaded, None when none is
  changeTimeout, \* the strategy whose change waits for the one debounce timer
  loadingQueue, beingLoaded, loadScheduled,
  step, target,  \* where each task stands, and on which strategy
  reported,      \* strategies a failure was reported for since their last load
  overtaken,     \* strategies whose pending change was dropped by the debounce
  changes

files == <<disk, strategyFiles, loadedStrategies>>
watcher == <<changeTimeout, overtaken, changes>>
loading == <<loadingQueue, beingLoaded, loadScheduled>>
loaderVars == <<files, watcher, loading, step, target, reported>>

Tasks == Handlers \cup Requests
Versions == 0..MaxChanges
NoStrategy == None

LoaderInit ==
  /\ disk = [s \in Strategies |-> 0]
  /\ strategyFiles = disk /\ loadedStrategies = disk
  /\ changeTimeout = NoStrategy /\ overtaken = {} /\ changes = 0
  /\ loadingQueue = <<>> /\ beingLoaded = NoStrategy /\ loadScheduled = FALSE
  /\ step = [t \in Tasks |-> "idle"]
  /\ target = [t \in Tasks |-> NoStrategy]
  /\ reported = {}

Importable(s) == disk[s] # None /\ disk[s] \notin Broken

\* The task goes on at st; a handler that is through forgets its file.
Goto(t, st) ==
  /\ step' = [step EXCEPT ![t] = st]
  /\ target' = IF st = "idle" THEN [target EXCEPT ![t] = NoStrategy] ELSE target

-----------------------------------------------------------------------------
\* Mutant: a failed load is not told to anybody.
LoadFromFile_Silent(s) ==
  /\ loadedStrategies' = IF Importable(s) THEN [loadedStrategies EXCEPT ![s] = disk[s]]
                                          ELSE loadedStrategies
  /\ reported' = IF Importable(s) THEN reported \ {s} ELSE reported

\* loadStrategyFromFile: the class is required from the path, so what is
\* loaded is what is on disk by then, whatever the record says.
LoadFromFile(s) ==
  IF Importable(s)
  THEN /\ loadedStrategies' = [loadedStrategies EXCEPT ![s] = disk[s]]
       /\ reported' = reported \ {s}
  ELSE /\ reported' = reported \cup {s}
       /\ UNCHANGED loadedStrategies

\* unloadStrategy drops the class and the record of its file.
UnloadStrategy(s) ==
  /\ loadedStrategies' = [loadedStrategies EXCEPT ![s] = None]
  /\ strategyFiles' = [strategyFiles EXCEPT ![s] = None]

\* reloadStrategy: without a record there is nothing to reload.
ReloadStrategy(t, failed) ==
  LET s == target[t]
  IN IF strategyFiles[s] = None
     THEN Goto(t, failed) /\ reported' = reported \cup {s}
     ELSE Goto(t, "unloading") /\ UNCHANGED reported

\* forceReload, first part; the record was read before.
Unload(t) ==
  /\ step[t] = "unloading"
  /\ UnloadStrategy(target[t])
  /\ Goto(t, "loading")
  /\ UNCHANGED <<disk, watcher, loading, reported>>

\* forceReload, second part: the import is through.
Load(t, loaded, failed) ==
  /\ step[t] = "loading"
  /\ LoadFromFile(target[t])
  /\ Goto(t, IF Importable(target[t]) THEN loaded ELSE failed)
  /\ UNCHANGED <<disk, strategyFiles, watcher, loading>>

-----------------------------------------------------------------------------
\* The watcher reports a write: all files share one debounce timer.
Write(s) ==
  /\ changes < MaxChanges
  /\ changes' = changes + 1
  /\ disk' = [disk EXCEPT ![s] = changes + 1]
  /\ overtaken' = (overtaken \ {s}) \cup ({changeTimeout} \ {NoStrategy, s})
  /\ changeTimeout' = s
  /\ UNCHANGED <<strategyFiles, loadedStrategies, loading, step, target, reported>>

\* The watcher reports a removal: a file without a record is not noticed.
Unlink(s) ==
  /\ disk[s] # None /\ changes < MaxChanges
  /\ changes' = changes + 1
  /\ disk' = [disk EXCEPT ![s] = None]
  /\ IF strategyFiles[s] # None THEN UnloadStrategy(s)
                                ELSE UNCHANGED <<strategyFiles, loadedStrategies>>
  /\ UNCHANGED <<changeTimeout, overtaken, loading, step, target, reported>>

\* The debounce timer fires and handleFileChange begins to read the file.
HandleFileChange(h) ==
  /\ changeTimeout # NoStrategy /\ step[h] = "idle"
  /\ target' = [target EXCEPT ![h] = changeTimeout]
  /\ step' = [step EXCEPT ![h] = "analyzing"]
  /\ changeTimeout' = NoStrategy
  /\ UNCHANGED <<files, overtaken, changes, loading, reported>>

\* Mutant: only a strategy that is loaded is loaded again.
Analyzed_LoadedOnly(h) ==
  LET s == target[h]
  IN /\ step[h] = "analyzing"
     /\ IF disk[s] # None /\ disk[s] # strategyFiles[s] /\ loadedStrategies[s] # None
        THEN /\ strategyFiles' = [strategyFiles EXCEPT ![s] = disk[s]]
             /\ Goto(h, "unloading")
        ELSE Goto(h, "idle") /\ UNCHANGED strategyFiles
     /\ UNCHANGED <<disk, loadedStrategies, watcher, loading, reported>>

\* The file has been read: a new checksum is recorded, and the strategy is
\* reloaded when it is loaded, or else loaded.
Analyzed(h) ==
  LET s == target[h]
  IN /\ step[h] = "analyzing"
     /\ IF disk[s] # None /\ disk[s] # strategyFiles[s]
        THEN /\ strategyFiles' = [strategyFiles EXCEPT ![s] = disk[s]]
             /\ Goto(h, IF loadedStrategies[s] # None THEN "unloading" ELSE "queueing")
        ELSE Goto(h, "idle") /\ UNCHANGED strategyFiles
     /\ UNCHANGED <<disk, loadedStrategies, watcher, loading, reported>>

\* loadStrategy has read the file once more and queues it (priority 1 always).
QueueLoad(h) ==
  /\ step[h] = "queueing"
  /\ IF disk[target[h]] = None
     THEN Goto(h, "idle") /\ UNCHANGED loading
     ELSE /\ loadingQueue' = Append(loadingQueue, target[h])
          /\ loadScheduled' = (loadScheduled \/ beingLoaded = NoStrategy)
          /\ Goto(h, "waiting")
          /\ UNCHANGED beingLoaded
  /\ UNCHANGED <<files, watcher, reported>>

\* waitForStrategyLoad: some version is loaded, or ten seconds are over.
WaitEnds(h) ==
  /\ step[h] = "waiting"
  /\ reported' = IF loadedStrategies[target[h]] # None THEN reported
                                                       ELSE reported \cup {target[h]}
  /\ Goto(h, "idle")
  /\ UNCHANGED <<files, watcher, loading>>

\* processLoadingQueue takes the first file; when it runs already, it returns.
NextOfQueue ==
  IF loadingQueue # <<>>
  THEN beingLoaded' = Head(loadingQueue) /\ loadingQueue' = Tail(loadingQueue)
  ELSE beingLoaded' = NoStrategy /\ UNCHANGED loadingQueue

ProcessLoadingQueue ==
  /\ loadScheduled
  /\ loadScheduled' = FALSE
  /\ IF beingLoaded = NoStrategy THEN NextOfQueue ELSE UNCHANGED <<beingLoaded, loadingQueue>>
  /\ UNCHANGED <<files, watcher, step, target, reported>>

LoadOfQueue ==
  /\ beingLoaded # NoStrategy
  /\ LoadFromFile(beingLoaded)
  /\ NextOfQueue
  /\ UNCHANGED <<disk, strategyFiles, watcher, loadScheduled, step, target>>

-----------------------------------------------------------------------------
\* reloadStrategy() of a handler ends here whether it succeeds or fails.
HandlerStep(h) ==
  \/ HandleFileChange(h) \/ Analyzed(h) \/ QueueLoad(h) \/ WaitEnds(h)
  \/ Unload(h) \/ Load(h, "idle", "idle")

Environment == \E s \in Strategies : Write(s) \/ Unlink(s)

LoaderNext ==
  \/ Environment
  \/ \E h \in Handlers : HandlerStep(h)
  \/ ProcessLoadingQueue \/ LoadOfQueue
=============================================================================
