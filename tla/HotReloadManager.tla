-------------------------- MODULE HotReloadManager --------------------------
(***************************************************************************)
(* HotReloadManager of src/backend/engine/HotReloadManager.ts on top of    *)
(* the StrategyLoader: the queue of reload requests, the limit of active   *)
(* reloads, and the phases of a reload.  Snapshots hold no state yet in    *)
(* the code, and a rollback always fails (no version carries rollback      *)
(* data): neither changes what is loaded.  preserveState is on, as by      *)
(* default; blue_green and canary are off.  Listeners of 'reload_requested'*)
(* and 'reload_started' may throw; those of the manager's other events,    *)
(* which could at most make a reload fail, and of the loader's do not.     *)
(***************************************************************************)
EXTENDS StrategyLoader

CONSTANTS
  RequestSpec,   \* per request: strategy, priority, graceful, skipValidation
  MaxConcurrentReloads,
  ListenerThrows   \* may a listener of those two events throw?

ASSUME HotReloadAssumption ==
  /\ MaxConcurrentReloads \in Nat \ {0}
  /\ ListenerThrows \in BOOLEAN
  /\ Handlers \cap Requests = {}
  /\ RequestSpec \in [Requests -> [strategy : Strategies, priority : Nat,
                                   graceful : BOOLEAN, skipValidation : BOOLEAN]]

VARIABLES
  reloadQueue,   \* sorted by priority
  scheduled      \* pending setImmediate calls of processReloadQueue

managerVars == <<reloadQueue, scheduled>>
vars == <<loaderVars, managerVars>>

StrategyOf(r) == RequestSpec[r].strategy
Settled == {"completed", "failed", "cancelled", "refused"}
ActiveSteps == {"starting", "validating", "draining", "reloading", "unloading", "loading",
                "restoring", "failing"}
\* The entry of a reload whose 'reload_started' threw stays for ever.
ActiveReloads == {r \in Requests : step[r] \in ActiveSteps \cup {"stranded"}}

Init ==
  /\ LoaderInit
  /\ reloadQueue = <<>>
  /\ scheduled = 0

-----------------------------------------------------------------------------
PriorityOf(r) == RequestSpec[r].priority

\* A stable sort by descending priority puts the new request after its equals.
Enqueue(queue, r) ==
  LET before == {i \in 1..Len(queue) : PriorityOf(queue[i]) >= PriorityOf(r)}
  IN InsertAt(queue, Cardinality(before) + 1, r)

\* requestReload: refused while a reload of the strategy is active; the queue
\* is not looked at. processReloadQueue is synchronous, so it never runs here.
RequestReload(r) ==
  /\ step[r] = "idle"
  /\ target' = [target EXCEPT ![r] = StrategyOf(r)]
  /\ IF \E a \in ActiveReloads : StrategyOf(a) = StrategyOf(r)
     THEN /\ step' = [step EXCEPT ![r] = "refused"]
          /\ UNCHANGED managerVars
     ELSE /\ step' = [step EXCEPT ![r] = "queued"]
          /\ reloadQueue' = Enqueue(reloadQueue, r)
          /\ \/ scheduled' = scheduled + 1
             \/ ListenerThrows /\ UNCHANGED scheduled   \* 'reload_requested'
  /\ UNCHANGED <<files, watcher, loading, reported>>

\* The request is found by its id and spliced out of the queue.
CancelReload(r) ==
  /\ \E i \in 1..Len(reloadQueue) :
       reloadQueue[i] = r /\ reloadQueue' = RemoveAt(reloadQueue, i)
  /\ Goto(r, "cancelled")
  /\ UNCHANGED <<files, watcher, loading, reported, scheduled>>

\* Mutant: the limit is looked at once, not for every request.
StartableCount_LookedAtOnce ==
  IF Cardinality(ActiveReloads) < MaxConcurrentReloads THEN Len(reloadQueue) ELSE 0

\* How many requests the loop of processReloadQueue takes from the queue.
StartableCount ==
  LET room == MaxConcurrentReloads - Cardinality(ActiveReloads)
  IN IF room < Len(reloadQueue) THEN room ELSE Len(reloadQueue)

\* The loop ends with an empty queue or at the limit, so that the condition to
\* schedule another run, which asks for neither, is never met.  A listener of
\* 'reload_started' throws before the try block of executeReload: nothing goes on.
ProcessReloadQueue ==
  /\ scheduled > 0
  /\ scheduled' = scheduled - 1
  /\ LET started == {reloadQueue[i] : i \in 1..StartableCount}
     IN \E stranded \in SUBSET started :
          /\ ListenerThrows \/ stranded = {}
          /\ step' = [t \in Tasks |-> IF t \in stranded THEN "stranded"
                                      ELSE IF t \in started THEN "starting" ELSE step[t]]
  /\ reloadQueue' = SubSeq(reloadQueue, StartableCount + 1, Len(reloadQueue))
  /\ UNCHANGED <<files, watcher, loading, target, reported>>

-----------------------------------------------------------------------------
\* Where a reload goes when its validation is through.
AfterValidation(r) == IF RequestSpec[r].graceful THEN "draining" ELSE "reloading"

\* createSnapshot asks for a loaded strategy and its record, validateReload for
\* the record again before it reads the file.
Prepare(r) ==
  /\ step[r] = "starting"
  /\ LET s == target[r]
     IN Goto(r, IF loadedStrategies[s] = None \/ strategyFiles[s] = None THEN "failing"
                ELSE IF RequestSpec[r].skipValidation THEN AfterValidation(r) ELSE "validating")
  /\ UNCHANGED <<files, watcher, loading, reported, managerVars>>

\* Only a file that cannot be read fails validation: all that the loader's
\* validator finds in a text that matters is of lesser severity than critical.
Validated(r) ==
  /\ step[r] = "validating"
  /\ Goto(r, IF disk[target[r]] = None THEN "failing" ELSE AfterValidation(r))
  /\ UNCHANGED <<files, watcher, loading, reported, managerVars>>

\* waitForGracefulStop is a timer of five seconds.
Drained(r) ==
  /\ step[r] = "draining"
  /\ Goto(r, "reloading")
  /\ UNCHANGED <<files, watcher, loading, reported, managerVars>>

Reload(r) ==
  /\ step[r] = "reloading"
  /\ ReloadStrategy(r, "failing")
  /\ UNCHANGED <<files, watcher, loading, managerVars>>

\* restoreSnapshot fails when the strategy has been unloaded meanwhile.
Restore(r) ==
  /\ step[r] = "restoring"
  /\ Goto(r, IF loadedStrategies[target[r]] # None THEN "completed" ELSE "failing")
  /\ UNCHANGED <<files, watcher, loading, reported, managerVars>>

\* Mutant: a failed reload stays among the active ones.
Fail_StaysActive(r) ==
  /\ step[r] = "failing"
  /\ reported' = reported \cup {target[r]}
  /\ UNCHANGED <<files, watcher, loading, managerVars, step, target>>

\* The rollback has failed as well; the reload leaves the active ones.
Fail(r) ==
  /\ step[r] = "failing"
  /\ reported' = reported \cup {target[r]}
  /\ Goto(r, "failed")
  /\ UNCHANGED <<files, watcher, loading, managerVars>>

ReloadStep(r) ==
  \/ Prepare(r) \/ Validated(r) \/ Drained(r) \/ Reload(r) \/ Restore(r) \/ Fail(r)
  \/ (Unload(r) \/ Load(r, "restoring", "failing")) /\ UNCHANGED managerVars

Next ==
  \/ \E r \in Requests : RequestReload(r) \/ CancelReload(r) \/ ReloadStep(r)
  \/ ProcessReloadQueue
  \/ LoaderNext /\ UNCHANGED managerVars

Spec == Init /\ [][Next]_vars

\* Reads, imports and timers end; requests, cancellations and changes may come.
Fairness ==
  /\ WF_vars(ProcessReloadQueue)
  /\ \A r \in Requests : WF_vars(ReloadStep(r))
  /\ \A h \in Handlers : WF_vars(HandlerStep(h) /\ UNCHANGED managerVars)
  /\ WF_vars((ProcessLoadingQueue \/ LoadOfQueue) /\ UNCHANGED managerVars)

FairSpec == Spec /\ Fairness

-----------------------------------------------------------------------------
Steps == {"idle", "analyzing", "queueing", "waiting", "queued", "stranded"} \cup ActiveSteps \cup Settled

\* Types of the loader's and the manager's state.  The active reloads never
\* exceed maxConcurrentReloads, whatever calls of processReloadQueue overlap, and
\* a request is in the queue, once, exactly while it is pending.
TypeOK ==
  /\ disk \in [Strategies -> Versions \cup {None}]
  /\ strategyFiles \in [Strategies -> Versions \cup {None}]
  /\ loadedStrategies \in [Strategies -> Versions \cup {None}]
  /\ changeTimeout \in Strategies \cup {NoStrategy} /\ overtaken \subseteq Strategies
  /\ changes \in 0..MaxChanges
  /\ loadingQueue \in Seq(Strategies) /\ beingLoaded \in Strategies \cup {NoStrategy}
  /\ loadScheduled \in BOOLEAN
  /\ step \in [Tasks -> Steps] /\ target \in [Tasks -> Strategies \cup {NoStrategy}]
  /\ reported \subseteq Strategies
  /\ reloadQueue \in Seq(Requests) /\ scheduled \in Nat
  /\ Cardinality(ActiveReloads) <= MaxConcurrentReloads
  /\ IsInjective(reloadQueue)
  /\ ToSet(reloadQueue) = {r \in Requests : step[r] = "queued"}

\* Somebody is at work on s: a task of the loader, its queue or the debounce.
UnderWay(s) ==
  \/ \E t \in Tasks : target[t] = s /\ step[t] \in {"analyzing", "queueing", "waiting", "unloading", "loading"}
  \/ s \in ToSet(loadingQueue) \cup {beingLoaded, changeTimeout}

\* No strategy disappears silently: one whose file exists and that is not
\* loaded is being loaded, or a failure was reported, or the debounce timer
\* dropped its change for that of another file.
NoSilentUnload ==
  \A s \in Strategies :
    disk[s] # None /\ loadedStrategies[s] = None => UnderWay(s) \/ s \in reported \cup overtaken

\* Every reload that was started ends, unless a listener of 'reload_started' threw.
StartedReloadsEnd == \A r \in Requests : step[r] \in ActiveSteps ~> step[r] \in Settled

\* The contents of a file that was written are loaded in the end, unless they
\* cannot be imported, or the change was dropped by the shared debounce timer.
LatestVersionLoaded ==
  \A s \in Strategies :
    Importable(s) ~> loadedStrategies[s] = disk[s] \/ ~Importable(s) \/ s \in overtaken

=============================================================================
