---------------------------- MODULE QueryEngine ----------------------------
(***************************************************************************)
(* The life of one query in nes-query-engine: QueryCatalog and its state   *)
(* machine, RunningQueryPlan with its reference-counted nodes and its two  *)
(* callbacks, RunningSource, the tasks, and the worker threads of the      *)
(* ThreadPool that run them.                                               *)
(*                                                                         *)
(* Reference counts are not stored: Held says who holds a strong reference *)
(* to a node, and a node nobody holds has expired (its weak_ptrs do not    *)
(* lock).  A worker that gives up references goes through "drop", where it *)
(* runs the deleters and callbacks that became due before it goes on.      *)
(*                                                                         *)
(* Where the C++ program would have undefined behaviour or fail an         *)
(* INVARIANT, crash is set and the model stops.                            *)
(***************************************************************************)
EXTENDS Integers, Sequences, FiniteSets, QueryLog

CONSTANTS
    Workers,
    NumPipelines,     \* pipelines are 1..NumPipelines, successors have larger numbers
    Succ,             \* Succ[p]: the successor pipelines of p
    Sources,
    SourceSucc,       \* SourceSucc[s]: the pipelines that source s feeds
    AdmissionSize,    \* capacity of the admission queue
    MaxBuffers,       \* bound: buffers per source
    MaxRepeats,       \* bound: tasks that pipelines re-emit to themselves
    MayStop,          \* may the client stop the query?
    MayFail           \* may a pipeline or a source throw?

Pipelines == 1..NumPipelines
None == "none"

ASSUME QueryEngineAssumption ==
    /\ Workers # {} /\ IsFiniteSet(Workers) /\ None \notin Workers
    /\ Sources # {} /\ IsFiniteSet(Sources) /\ None \notin Sources
    /\ NumPipelines \in Nat \ {0}
    /\ Succ \in [Pipelines -> SUBSET Pipelines]
    /\ \A p \in Pipelines : \A q \in Succ[p] : p < q
    /\ SourceSucc \in [Sources -> SUBSET Pipelines]
    /\ \A s \in Sources : SourceSucc[s] # {}
    /\ \A q \in Pipelines : (\E s \in Sources : q \in SourceSucc[s]) \/ (\E p \in Pipelines : q \in Succ[p])
    /\ AdmissionSize \in Nat \ {0} /\ MaxBuffers \in Nat /\ MaxRepeats \in Nat
    /\ MayStop \in BOOLEAN /\ MayFail \in BOOLEAN

(* ref: the task's completion callback keeps its node alive. *)
Work(p, ref) == [kind |-> "Work", id |-> p, ref |-> ref, attempts |-> 0]
StartPipelineTask(p) == [kind |-> "StartPipeline", id |-> p, ref |-> FALSE, attempts |-> 0]
PendingPipelineStop(p, n) == [kind |-> "PendingStop", id |-> p, ref |-> TRUE, attempts |-> n]
StopPipelineTask(p) == [kind |-> "StopPipeline", id |-> p, ref |-> TRUE, attempts |-> 0]
SourceTask(k, s) == [kind |-> k, id |-> s, ref |-> FALSE, attempts |-> 0]
QueryTask(k) == [kind |-> k, id |-> 0, ref |-> FALSE, attempts |-> 0]
NoTask == [kind |-> "None", id |-> 0, ref |-> FALSE, attempts |-> 0]

MaxAttempts == 2    \* attempts only matters below and from 2 on

VARIABLES
    client,               \* the thread that submits and stops the query
    admission, internal,  \* the two task queues
    qstate,               \* AtomicState of the query
    log,                  \* the QueryLog
    plan,                 \* the RunningQueryPlan object
    setupCb, termCb,      \* the Callback objects allPipelinesStarted, allPipelinesExpired
    node, requiresTermination, pendingTasks,   \* RunningQueryPlanNode
    stage,                \* start and stop calls on each pipeline stage
    source,               \* RunningSource objects
    srcpc, srcTodo, srcCount, stopRequested,   \* source threads
    pc, task, after, emitted, target,          \* worker threads; target: the source thread it joins
    stateLock, catalogLock,                    \* mutexes that are held across steps
    repeats,
    expired,              \* history: pipelines one of whose work tasks found them expired
    crash

queues == <<admission, internal>>
callbacks == <<setupCb, termCb>>
nodes == <<node, requiresTermination, pendingTasks, stage>>
sources == <<source, srcpc, srcTodo, srcCount, stopRequested>>
locks == <<stateLock, catalogLock>>
history == <<repeats, expired>>
vars == <<client, queues, qstate, log, plan, callbacks, nodes, sources,
          pc, task, after, emitted, target, locks, history, crash>>

Terminated == {"Failed", "Stopped"}

Init ==
    /\ client = "start"
    /\ admission = <<>> /\ internal = <<>>
    /\ qstate = None /\ log = <<>> /\ plan = None /\ setupCb = None /\ termCb = None
    /\ node = [p \in Pipelines |-> None]
    /\ requiresTermination = [p \in Pipelines |-> FALSE]
    /\ pendingTasks = [p \in Pipelines |-> 0]
    /\ stage = [p \in Pipelines |-> "new"]
    /\ source = [s \in Sources |-> None]
    /\ srcpc = [s \in Sources |-> None]
    /\ srcTodo = [s \in Sources |-> {}]
    /\ srcCount = [s \in Sources |-> 0]
    /\ stopRequested = [s \in Sources |-> FALSE]
    /\ pc = [w \in Workers |-> "idle"]
    /\ task = [w \in Workers |-> NoTask]
    /\ after = [w \in Workers |-> "idle"]
    /\ emitted = [w \in Workers |-> FALSE]
    /\ target = [w \in Workers |-> None]
    /\ stateLock = None /\ catalogLock = None
    /\ repeats = 0 /\ expired = {} /\ crash = None

-----------------------------------------------------------------------------
(* Who keeps a node alive. *)

TasksOf(queue) == {queue[i] : i \in DOMAIN queue}
AllTasks == TasksOf(admission) \cup TasksOf(internal) \cup {task[w] : w \in Workers}

(* The sources, with references to their pipelines, wait in the setup callback to be started. *)
SourcesCaptured == setupCb = "armed" \/ \E w \in Workers : pc[w] = "setup"

(* Mutant: the setup callback does not keep the pipelines. *)
HeldByRunningSource(p) ==
    \E s \in Sources :
        /\ p \in SourceSucc[s]
        /\ \/ source[s] \in {"registered", "orphan", "closing"}
           \/ srcpc[s] \notin {None, "exited"}

HeldBySource(p) ==
    \E s \in Sources :
        /\ p \in SourceSucc[s]
        /\ \/ SourcesCaptured
           \/ source[s] \in {"registered", "orphan", "closing"}
           \/ srcpc[s] \notin {None, "exited"}

HeldByPredecessor(p) == \E q \in Pipelines : p \in Succ[q] /\ node[q] \in {"alive", "stopping"}

HeldByTask(p) == \E t \in AllTasks : t.kind \in {"Work", "PendingStop"} /\ t.ref /\ t.id = p

(* Mutant: a worker does not keep the pipeline it executes. *)
HeldByFailingWorker(p) ==
    \E w \in Workers :
        /\ task[w].kind \in {"Work", "StartPipeline"} /\ task[w].id = p
        /\ pc[w] \in {"onFailure", "failJoin", "logFailed"}

HeldByWorker(p) ==
    \E w \in Workers :
        /\ task[w].kind \in {"Work", "StartPipeline"} /\ task[w].id = p
        /\ pc[w] \in {"exec", "onFailure", "failJoin", "logFailed"}

(* A weak_ptr to the node of p can be locked. *)
Lockable(p) ==
    /\ node[p] = "alive"
    /\ HeldBySource(p) \/ HeldByPredecessor(p) \/ HeldByTask(p) \/ HeldByWorker(p)

(* The last reference is gone and the deleter has not run yet. *)
Expired(p) == node[p] = "alive" /\ ~Lockable(p)

(* A source task has locked its weak_ptr to source s. *)
HoldsSource(w, s) ==
    /\ task[w].kind \in {"StopSource", "FailSource"} /\ task[w].id = s
    /\ pc[w] \in {"unregister", "timeout", "onFailure", "failJoin", "logFailed", "releaseSource"}

(* A worker other than the owner of the sources map holds source s. *)
Shared(s) == \E w \in Workers : HoldsSource(w, s)

(* Mutant: the reference goes when a start task is taken, not when it is done. *)
SetupDueWhenAllTaken ==
    /\ setupCb = "armed"
    /\ \A t \in TasksOf(admission) \cup TasksOf(internal) : t.kind # "StartPipeline"
    /\ \A w \in Workers : pc[w] \notin {"started", "logStarted"}

SetupDue ==
    /\ setupCb = "armed"
    /\ \A t \in AllTasks : t.kind # "StartPipeline"
    /\ \A w \in Workers : pc[w] \notin {"started", "logStarted"}

TerminationDue ==
    /\ termCb = "armed"
    /\ \A p \in Pipelines : node[p] = "dead"
    /\ \A w \in Workers : pc[w] # "stopJoin"

PlanLockFree == \A w \in Workers : pc[w] \notin {"stopJoin", "failJoin"}
-----------------------------------------------------------------------------
(* The client, the queues and the worker loop. *)

Submit ==
    /\ client = "start" /\ Len(admission) < AdmissionSize
    /\ admission' = Append(admission, QueryTask("StartQuery"))
    /\ client' = "mayStop"
    /\ UNCHANGED <<internal, qstate, log, plan, callbacks, nodes, sources, pc, task, after, emitted, target, locks, history, crash>>

RequestStop ==
    /\ MayStop /\ client = "mayStop" /\ Len(admission) < AdmissionSize
    /\ admission' = Append(admission, QueryTask("StopQuery"))
    /\ client' = "done"
    /\ UNCHANGED <<internal, qstate, log, plan, callbacks, nodes, sources, pc, task, after, emitted, target, locks, history, crash>>

Admit(w) ==
    /\ pc[w] = "idle" /\ admission # <<>>
    /\ Len(internal) < 3 * Cardinality(Workers)
    /\ internal' = Append(internal, Head(admission))
    /\ admission' = Tail(admission)
    /\ pc' = [pc EXCEPT ![w] = "take"]
    /\ UNCHANGED <<client, qstate, log, plan, callbacks, nodes, sources, task, after, emitted, target, locks, history, crash>>

Take(w) ==
    /\ pc[w] \in {"idle", "take"} /\ internal # <<>>
    /\ task' = [task EXCEPT ![w] = Head(internal)]
    /\ internal' = Tail(internal)
    /\ pc' = [pc EXCEPT ![w] = "run"]
    /\ UNCHANGED <<client, admission, qstate, log, plan, callbacks, nodes, sources, after, emitted, target, locks, history, crash>>

FindNothing(w) ==
    /\ pc[w] = "take" /\ internal = <<>>
    /\ pc' = [pc EXCEPT ![w] = "idle"]
    /\ UNCHANGED <<client, queues, qstate, log, plan, callbacks, nodes, sources, task, after, emitted, target, locks, history, crash>>

Handles(w, kind) == pc[w] = "run" /\ task[w].kind = kind

(* The worker gives up references and then goes on with next; Finish gives up the task as well. *)
Drop(w, next) ==
    /\ pc' = [pc EXCEPT ![w] = "drop"]
    /\ after' = [after EXCEPT ![w] = next]

Finish(w) == Drop(w, "idle") /\ task' = [task EXCEPT ![w] = NoTask]

Goto(w, label) == pc' = [pc EXCEPT ![w] = label] /\ UNCHANGED <<task, after>>

(* The pipelines of S in the order of a successors vector, which nothing depends on. *)
Ordered(S) == CHOOSE f \in [1..Cardinality(S) -> S] : \A i, j \in DOMAIN f : f[i] = f[j] => i = j
WorkForEach(S, ref) == [i \in DOMAIN Ordered(S) |-> Work(Ordered(S)[i], ref)]
PendingStopForEach(S) == [i \in DOMAIN Ordered(S) |-> PendingPipelineStop(Ordered(S)[i], 0)]
-----------------------------------------------------------------------------
(* StartQueryTask: QueryCatalog::start and RunningQueryPlan::start. *)

startQuery(w) ==
    /\ Handles(w, "StartQuery") /\ catalogLock = None
    /\ catalogLock' = w
    /\ log' = Stamp(log, "Started")
    /\ qstate' = "Reserved" /\ plan' = "alive" /\ setupCb' = "armed" /\ termCb' = "armed"
    /\ node' = [p \in Pipelines |-> "alive"]
    /\ internal' = internal \o [i \in Pipelines |-> StartPipelineTask(NumPipelines + 1 - i)]
    /\ Goto(w, "started")
    /\ UNCHANGED <<client, admission, requiresTermination, pendingTasks, stage, sources, emitted, target, stateLock, history, crash>>

(* What ~RunningQueryPlan does to the nodes that are still there. *)
DisableTermination == [p \in Pipelines |-> requiresTermination[p] /\ ~Lockable(p)]

Cleared(cb) == IF cb = "armed" THEN "cleared" ELSE cb

(* Mutant: the query becomes Starting even if it failed meanwhile. *)
commitStartAlways(w) ==
    /\ pc[w] = "started" /\ stateLock = None
    /\ \/ /\ TRUE
          /\ qstate' = "Starting"
          /\ Goto(w, "logStarted")
          /\ UNCHANGED <<plan, callbacks, requiresTermination>>
       \/ /\ FALSE
          /\ plan' = "dead"
          /\ termCb' = Cleared(termCb) /\ setupCb' = Cleared(setupCb)
          /\ requiresTermination' = DisableTermination
          /\ Finish(w)
          /\ UNCHANGED qstate
    /\ UNCHANGED <<client, queues, log, node, pendingTasks, stage, sources, emitted, target, locks, history, crash>>

commitStart(w) ==
    /\ pc[w] = "started" /\ stateLock = None
    /\ \/ /\ qstate = "Reserved"
          /\ qstate' = "Starting"
          /\ Goto(w, "logStarted")
          /\ UNCHANGED <<plan, callbacks, requiresTermination>>
       \/ /\ qstate # "Reserved"
          /\ plan' = "dead"
          /\ termCb' = Cleared(termCb) /\ setupCb' = Cleared(setupCb)
          /\ requiresTermination' = DisableTermination
          /\ Finish(w)
          /\ UNCHANGED qstate
    /\ UNCHANGED <<client, queues, log, node, pendingTasks, stage, sources, emitted, target, locks, history, crash>>

logStarted(w) ==
    /\ pc[w] = "logStarted"
    /\ log' \in Reports(log, "Started")
    /\ Finish(w)
    /\ UNCHANGED <<client, queues, qstate, plan, callbacks, nodes, sources, emitted, target, locks, history, crash>>

-----------------------------------------------------------------------------
(* WorkTask, StartPipelineTask and StopPipelineTask on a pipeline. *)

(* The handler locks its node, or finds it expired. *)
lockPipeline(w) ==
    /\ pc[w] = "run" /\ task[w].kind \in {"Work", "StartPipeline"}
    /\ \/ /\ Lockable(task[w].id)
          /\ Goto(w, "exec")
          /\ UNCHANGED expired
       \/ /\ ~Lockable(task[w].id)
          /\ expired' = IF task[w].kind = "Work" THEN expired \cup {task[w].id} ELSE expired
          /\ Finish(w)
    /\ emitted' = [emitted EXCEPT ![w] = FALSE]
    /\ UNCHANGED <<client, queues, qstate, log, plan, callbacks, nodes, sources, target, locks, repeats, crash>>

stopPipeline(w) ==
    /\ Handles(w, "StopPipeline")
    /\ Goto(w, "exec")
    /\ emitted' = [emitted EXCEPT ![w] = FALSE]
    /\ UNCHANGED <<client, queues, qstate, log, plan, callbacks, nodes, sources, target, locks, history, crash>>

(* One buffer for all successors; a stopping pipeline adds a reference to the task. *)
emitWork(w) ==
    LET p == task[w].id
    IN  /\ pc[w] = "exec" /\ task[w].kind \in {"Work", "StopPipeline"} /\ ~emitted[w]
        /\ Succ[p] # {}
        /\ emitted' = [emitted EXCEPT ![w] = TRUE]
        /\ pendingTasks' = [q \in Pipelines |-> IF q \in Succ[p] THEN pendingTasks[q] + 1 ELSE pendingTasks[q]]
        /\ internal' = internal \o WorkForEach(Succ[p], task[w].kind = "StopPipeline")
        /\ UNCHANGED <<client, admission, qstate, log, plan, callbacks, node, requiresTermination, stage, sources,
                       pc, task, after, target, locks, history, crash>>

(* ContinuationPolicy::REPEAT *)
repeatWork(w) ==
    LET p == task[w].id
    IN  /\ pc[w] = "exec" /\ task[w].kind = "Work" /\ ~emitted[w] /\ repeats < MaxRepeats
        /\ repeats' = repeats + 1
        /\ emitted' = [emitted EXCEPT ![w] = TRUE]
        /\ pendingTasks' = [pendingTasks EXCEPT ![p] = @ + 1]
        /\ internal' = Append(internal, Work(p, FALSE))
        /\ UNCHANGED <<client, admission, qstate, log, plan, callbacks, node, requiresTermination, stage, sources,
                       pc, task, after, target, locks, expired, crash>>

(* The stage returns or throws; the reference of a work or start task is dropped before the task completes. *)
executed(w) ==
    LET p == task[w].id
        next == {"complete"} \cup (IF MayFail THEN {"failed"} ELSE {})
    IN  /\ pc[w] = "exec"
        /\ \E outcome \in next :
              /\ stage' = CASE task[w].kind = "StartPipeline" /\ outcome = "complete" -> [stage EXCEPT ![p] = "started"]
                            [] task[w].kind = "StopPipeline" /\ outcome = "complete" -> [stage EXCEPT ![p] = "stopped"]
                            [] OTHER -> stage
              /\ Drop(w, outcome)
        /\ UNCHANGED <<client, queues, qstate, log, plan, callbacks, node, requiresTermination, pendingTasks, sources,
                       task, emitted, target, locks, history, crash>>

(* Mutant: a started pipeline is not marked for termination. *)
completeTaskUnmarked(w) ==
    LET p == task[w].id
    IN  /\ pc[w] = "complete"
        /\ \/ /\ task[w].kind = "Work"
              /\ pendingTasks' = IF Lockable(p) THEN [pendingTasks EXCEPT ![p] = @ - 1] ELSE pendingTasks
              /\ UNCHANGED <<internal, node, requiresTermination>>
           \/ /\ task[w].kind = "StartPipeline"
              /\ requiresTermination' = requiresTermination
              /\ UNCHANGED <<internal, node, pendingTasks>>
           \/ /\ task[w].kind = "StopPipeline"
              /\ requiresTermination' = [requiresTermination EXCEPT ![p] = FALSE]
              /\ internal' = internal \o PendingStopForEach(Succ[p])
              /\ node' = [node EXCEPT ![p] = "dead"]
              /\ UNCHANGED pendingTasks
        /\ Finish(w)
        /\ UNCHANGED <<client, admission, qstate, log, plan, callbacks, stage, sources, emitted, target, locks, history, crash>>

completeTask(w) ==
    LET p == task[w].id
    IN  /\ pc[w] = "complete"
        /\ \/ /\ task[w].kind = "Work"
              /\ pendingTasks' = IF Lockable(p) THEN [pendingTasks EXCEPT ![p] = @ - 1] ELSE pendingTasks
              /\ UNCHANGED <<internal, node, requiresTermination>>
           \/ /\ task[w].kind = "StartPipeline"
              /\ requiresTermination' = IF Lockable(p) THEN [requiresTermination EXCEPT ![p] = TRUE] ELSE requiresTermination
              /\ UNCHANGED <<internal, node, pendingTasks>>
           \/ /\ task[w].kind = "StopPipeline"
              /\ requiresTermination' = [requiresTermination EXCEPT ![p] = FALSE]
              /\ internal' = internal \o PendingStopForEach(Succ[p])
              /\ node' = [node EXCEPT ![p] = "dead"]
              /\ UNCHANGED pendingTasks
        /\ Finish(w)
        /\ UNCHANGED <<client, admission, qstate, log, plan, callbacks, stage, sources, emitted, target, locks, history, crash>>

(* Mutant: a failed task stays counted. *)
failTaskUncounted(w) ==
    LET p == task[w].id
    IN  /\ pc[w] = "failed"
        /\ \/ /\ task[w].kind # "StopPipeline" /\ ~Lockable(p)
              /\ Finish(w)
              /\ UNCHANGED <<log, pendingTasks, requiresTermination>>
           \/ /\ task[w].kind # "StopPipeline" /\ Lockable(p)
              /\ pendingTasks' = pendingTasks
              /\ log' = Stamp(log, "Failed")
              /\ Goto(w, "onFailure")
              /\ UNCHANGED requiresTermination
           \/ /\ task[w].kind = "StopPipeline"
              /\ requiresTermination' = [requiresTermination EXCEPT ![p] = FALSE]
              /\ log' = Stamp(log, "Failed")
              /\ Goto(w, "onFailure")
              /\ UNCHANGED pendingTasks
        /\ UNCHANGED <<client, queues, qstate, plan, callbacks, node, stage, sources, emitted, target, locks, history, crash>>

failTask(w) ==
    LET p == task[w].id
    IN  /\ pc[w] = "failed"
        /\ \/ /\ task[w].kind # "StopPipeline" /\ ~Lockable(p)
              /\ Finish(w)
              /\ UNCHANGED <<log, pendingTasks, requiresTermination>>
           \/ /\ task[w].kind # "StopPipeline" /\ Lockable(p)
              /\ pendingTasks' = IF task[w].kind = "Work" THEN [pendingTasks EXCEPT ![p] = @ - 1] ELSE pendingTasks
              /\ log' = Stamp(log, "Failed")
              /\ Goto(w, "onFailure")
              /\ UNCHANGED requiresTermination
           \/ /\ task[w].kind = "StopPipeline"
              /\ requiresTermination' = [requiresTermination EXCEPT ![p] = FALSE]
              /\ log' = Stamp(log, "Failed")
              /\ Goto(w, "onFailure")
              /\ UNCHANGED pendingTasks
        /\ UNCHANGED <<client, queues, qstate, plan, callbacks, node, stage, sources, emitted, target, locks, history, crash>>

(* Mutant: pending tasks are not waited for. *)
pendingPipelineStopAtOnce(w) ==
    LET p == task[w].id
        again == PendingPipelineStop(p, IF task[w].attempts < MaxAttempts THEN task[w].attempts + 1 ELSE MaxAttempts)
        pull == again.attempts >= 2 /\ admission # <<>>
    IN  /\ Handles(w, "PendingStop")
        /\ \/ /\ requiresTermination[p] /\ pendingTasks[p] < 0
              /\ admission' = IF pull THEN Tail(admission) ELSE admission
              /\ internal' = Append(IF pull THEN Append(internal, Head(admission)) ELSE internal, again)
           \/ /\ ~(requiresTermination[p] /\ pendingTasks[p] < 0)
              /\ UNCHANGED queues
        /\ Finish(w)
        /\ UNCHANGED <<client, qstate, log, plan, callbacks, nodes, sources, emitted, target, locks, history, crash>>

pendingPipelineStop(w) ==
    LET p == task[w].id
        again == PendingPipelineStop(p, IF task[w].attempts < MaxAttempts THEN task[w].attempts + 1 ELSE MaxAttempts)
        pull == again.attempts >= 2 /\ admission # <<>>
    IN  /\ Handles(w, "PendingStop")
        /\ \/ /\ requiresTermination[p] /\ pendingTasks[p] > 0
              /\ admission' = IF pull THEN Tail(admission) ELSE admission
              /\ internal' = Append(IF pull THEN Append(internal, Head(admission)) ELSE internal, again)
           \/ /\ ~(requiresTermination[p] /\ pendingTasks[p] > 0)
              /\ UNCHANGED queues
        /\ Finish(w)
        /\ UNCHANGED <<client, qstate, log, plan, callbacks, nodes, sources, emitted, target, locks, history, crash>>

-----------------------------------------------------------------------------
(* Reference drops: node deleters, the two callbacks, and joining the thread of a source. *)

dropNode(w, p) ==
    /\ pc[w] \in {"drop", "stopJoin", "failJoin"} /\ target[w] = None
    /\ Expired(p)
    /\ \/ /\ requiresTermination[p]
          /\ node' = [node EXCEPT ![p] = "stopping"]
          /\ internal' = Append(internal, StopPipelineTask(p))
       \/ /\ ~requiresTermination[p]
          /\ node' = [node EXCEPT ![p] = "dead"]
          /\ UNCHANGED internal
    /\ UNCHANGED <<client, admission, qstate, log, plan, callbacks, requiresTermination, pendingTasks, stage, sources,
                   pc, task, after, emitted, target, locks, history, crash>>

fireSetup(w) ==
    /\ pc[w] = "drop" /\ target[w] = None /\ SetupDue
    /\ setupCb' = "fired"
    /\ pc' = [pc EXCEPT ![w] = "setup"]
    /\ UNCHANGED <<client, queues, qstate, log, plan, termCb, nodes, sources, task, after, emitted, target, locks, history, crash>>

fireTermination(w) ==
    /\ pc[w] = "drop" /\ target[w] = None /\ TerminationDue
    /\ termCb' = "fired"
    /\ log' = Stamp(log, "Stopped")
    /\ pc' = [pc EXCEPT ![w] = "onDestruction"]
    /\ UNCHANGED <<client, queues, qstate, plan, setupCb, nodes, sources, task, after, emitted, target, locks, history, crash>>

(* ~RunningSource: the thread was told to stop; destroying its jthread joins it. *)
joinSource(w) ==
    /\ target[w] # None /\ srcpc[target[w]] = "exited"
    /\ source' = [source EXCEPT ![target[w]] = "gone"]
    /\ target' = [target EXCEPT ![w] = None]
    /\ UNCHANGED <<client, queues, qstate, log, plan, callbacks, nodes, srcpc, srcTodo, srcCount, stopRequested,
                   pc, task, after, emitted, locks, history, crash>>

Settled == \A p \in Pipelines : ~Expired(p)

goOn(w) ==
    /\ pc[w] = "drop" /\ target[w] = None
    /\ Settled /\ ~SetupDue /\ ~TerminationDue
    /\ pc' = [pc EXCEPT ![w] = after[w]]
    /\ after' = [after EXCEPT ![w] = "idle"]
    /\ emitted' = [emitted EXCEPT ![w] = FALSE]
    /\ catalogLock' = IF catalogLock = w THEN None ELSE catalogLock
    /\ UNCHANGED <<client, queues, qstate, log, plan, callbacks, nodes, sources, task, target, stateLock, history, crash>>

-----------------------------------------------------------------------------
(* The callbacks. *)

setup(w) ==
    /\ pc[w] = "setup"
    /\ \/ /\ plan = "dead"
          /\ crash' = "planFreed"
          /\ UNCHANGED <<source, srcpc, pc>>
       \/ /\ plan = "alive" /\ PlanLockFree
          /\ source' = [s \in Sources |-> "registered"]
          /\ srcpc' = [s \in Sources |-> "fill"]
          /\ pc' = [pc EXCEPT ![w] = "stampRunning"]
          /\ UNCHANGED crash
    /\ UNCHANGED <<client, queues, qstate, log, plan, callbacks, nodes, srcTodo, srcCount, stopRequested,
                   task, after, emitted, target, locks, history>>

stampRunning(w) ==
    /\ pc[w] = "stampRunning"
    /\ log' = Stamp(log, "Running")
    /\ pc' = [pc EXCEPT ![w] = "onRunning"]
    /\ UNCHANGED <<client, queues, qstate, plan, callbacks, nodes, sources, task, after, emitted, target, locks, history, crash>>

onRunning(w) ==
    /\ pc[w] = "onRunning" /\ stateLock = None
    /\ qstate' = CASE qstate = "Starting" -> "Running" [] OTHER -> qstate
    /\ pc' = [pc EXCEPT ![w] = "logRunning"]
    /\ UNCHANGED <<client, queues, log, plan, callbacks, nodes, sources, task, after, emitted, target, locks, history, crash>>

(* Every node is dead: no source is registered and there is nothing to join. *)
onDestruction(w) ==
    /\ pc[w] = "onDestruction" /\ stateLock = None
    /\ \/ /\ qstate \in {"Starting", "Running", "Stopping"}
          /\ qstate' = "Stopped" /\ plan' = "dead"
       \/ /\ qstate \notin {"Starting", "Running", "Stopping"}
          /\ UNCHANGED <<qstate, plan>>
    /\ pc' = [pc EXCEPT ![w] = "logStopped"]
    /\ UNCHANGED <<client, queues, log, callbacks, nodes, sources, task, after, emitted, target, locks, history, crash>>

logStatus(w) ==
    /\ \/ pc[w] = "logRunning" /\ log' \in Reports(log, "Running")
       \/ pc[w] = "logStopped" /\ log' \in Reports(log, "Stopped")
    /\ pc' = [pc EXCEPT ![w] = "drop"]
    /\ UNCHANGED <<client, queues, qstate, plan, callbacks, nodes, sources, task, after, emitted, target, locks, history, crash>>

onFailure(w) ==
    /\ pc[w] = "onFailure" /\ stateLock = None
    /\ \/ /\ qstate \in {"Starting", "Running"}
          /\ termCb' = Cleared(termCb)
          /\ requiresTermination' = DisableTermination
          /\ stateLock' = w
          /\ Goto(w, "failJoin")
          /\ UNCHANGED qstate
       \/ /\ qstate \notin {"Starting", "Running"}
          /\ qstate' = "Failed"
          /\ termCb' = IF qstate = "Stopping" THEN Cleared(termCb) ELSE termCb
          /\ Goto(w, "logFailed")
          /\ UNCHANGED <<requiresTermination, stateLock>>
    /\ UNCHANGED <<client, queues, log, plan, setupCb, node, pendingTasks, stage, sources, emitted, target, catalogLock, history, crash>>

(* ~RunningQueryPlan is done: the setup callback is disabled and the plan is freed. *)
failed(w) ==
    /\ pc[w] = "failJoin" /\ target[w] = None /\ Settled
    /\ \A s \in Sources : source[s] # "registered"
    /\ setupCb' = Cleared(setupCb)
    /\ plan' = "dead" /\ qstate' = "Failed" /\ stateLock' = None
    /\ Goto(w, "logFailed")
    /\ UNCHANGED <<client, queues, log, termCb, nodes, sources, emitted, target, catalogLock, history, crash>>

logFailed(w) ==
    /\ pc[w] = "logFailed"
    /\ log' \in Reports(log, "Failed")
    /\ IF task[w].kind = "FailSource" THEN Goto(w, "releaseSource") ELSE Finish(w)
    /\ node' = IF task[w].kind = "StopPipeline" THEN [node EXCEPT ![task[w].id] = "dead"] ELSE node
    /\ UNCHANGED <<client, queues, qstate, plan, callbacks, requiresTermination, pendingTasks, stage, sources, emitted, target, locks, history, crash>>

-----------------------------------------------------------------------------
(* StopQueryTask: QueryCatalog::stopQuery and RunningQueryPlan::stop. *)

stopQuery(w) ==
    /\ Handles(w, "StopQuery") /\ catalogLock = None /\ stateLock = None
    /\ \/ /\ qstate \notin {"Starting", "Running"}
          /\ Finish(w)
          /\ UNCHANGED <<setupCb, locks, crash>>
       \/ /\ qstate \in {"Starting", "Running"} /\ termCb = "fired"
          /\ crash' = "callbackExpired"
          /\ UNCHANGED <<pc, task, after, setupCb, locks>>
       \/ /\ qstate \in {"Starting", "Running"} /\ termCb # "fired"
          /\ setupCb' = Cleared(setupCb)
          /\ stateLock' = w /\ catalogLock' = w
          /\ Goto(w, "stopJoin")
          /\ UNCHANGED crash
    /\ UNCHANGED <<client, queues, qstate, log, plan, termCb, nodes, sources, emitted, target, history>>

(* sources.clear(), one source after the other. *)
clearSource(w, s) ==
    /\ pc[w] \in {"stopJoin", "failJoin"} /\ target[w] = None /\ Settled
    /\ source[s] = "registered"
    /\ \/ /\ Shared(s)
          /\ source' = [source EXCEPT ![s] = "orphan"]
          /\ UNCHANGED <<stopRequested, target>>
       \/ /\ ~Shared(s)
          /\ source' = [source EXCEPT ![s] = "closing"]
          /\ stopRequested' = [stopRequested EXCEPT ![s] = TRUE]
          /\ target' = [target EXCEPT ![w] = s]
    /\ UNCHANGED <<client, queues, qstate, log, plan, callbacks, nodes, srcpc, srcTodo, srcCount,
                   pc, task, after, emitted, locks, history, crash>>

stopped(w) ==
    /\ pc[w] = "stopJoin" /\ target[w] = None /\ Settled
    /\ \A s \in Sources : source[s] # "registered"
    /\ plan' = "dead" /\ qstate' = "Stopping"
    /\ stateLock' = None /\ catalogLock' = None
    /\ Finish(w)
    /\ UNCHANGED <<client, queues, log, callbacks, nodes, sources, emitted, target, history, crash>>

-----------------------------------------------------------------------------
(* StopSourceTask and FailSourceTask. *)

lockSource(w) ==
    LET s == task[w].id
    IN  /\ pc[w] = "run" /\ task[w].kind \in {"StopSource", "FailSource"}
        /\ \/ /\ source[s] # "registered"
              /\ Finish(w)
              /\ UNCHANGED log
           \/ /\ source[s] = "registered" /\ task[w].kind = "StopSource"
              /\ Goto(w, "unregister")
              /\ UNCHANGED log
           \/ /\ source[s] = "registered" /\ task[w].kind = "FailSource"
              /\ log' = Stamp(log, "Failed")
              /\ Goto(w, "onFailure")
        /\ UNCHANGED <<client, queues, qstate, plan, callbacks, nodes, sources, emitted, target, locks, history, crash>>

(* tryUnregister locks the plan through a raw pointer. *)
tryUnregister(w) ==
    LET s == task[w].id
    IN  /\ pc[w] = "unregister"
        /\ \/ /\ plan = "dead"
              /\ crash' = "planFreed"
              /\ UNCHANGED <<internal, source, stopRequested, pc, task, after>>
           \/ /\ plan = "alive" /\ PlanLockFree /\ srcpc[s] # "exited"
              /\ stopRequested' = [stopRequested EXCEPT ![s] = TRUE]
              /\ Goto(w, "timeout")
              /\ UNCHANGED <<internal, source, crash>>
           \/ /\ plan = "alive" /\ PlanLockFree /\ srcpc[s] = "exited"
              /\ stopRequested' = [stopRequested EXCEPT ![s] = TRUE]
              /\ internal' = internal \o PendingStopForEach(SourceSucc[s])
              /\ source' = [source EXCEPT ![s] = "gone"]
              /\ Finish(w)
              /\ UNCHANGED crash
        /\ UNCHANGED <<client, admission, qstate, log, plan, callbacks, nodes, srcpc, srcTodo, srcCount, emitted, target, locks, history>>

(* Mutant: a source that could not stop at once is not tried again. *)
reattemptForgotten(w) ==
    /\ pc[w] = "timeout"
    /\ Goto(w, "releaseSource")
    /\ UNCHANGED <<client, queues, qstate, log, plan, callbacks, nodes, sources, emitted, target, locks, history, crash>>

reattempt(w) ==
    /\ pc[w] = "timeout"
    /\ internal' = Append(internal, task[w])
    /\ Goto(w, "releaseSource")
    /\ UNCHANGED <<client, admission, qstate, log, plan, callbacks, nodes, sources, emitted, target, locks, history, crash>>

(* Mutant: the last reference to a source does not destroy it. *)
releaseSourceOnly(w) ==
    LET s == task[w].id
    IN  /\ pc[w] = "releaseSource"
        /\ \/ /\ source[s] = "orphan" /\ \A v \in Workers \ {w} : ~HoldsSource(v, s)
              /\ source' = source
              /\ stopRequested' = [stopRequested EXCEPT ![s] = TRUE]
              /\ target' = target
           \/ /\ source[s] # "orphan" \/ \E v \in Workers \ {w} : HoldsSource(v, s)
              /\ UNCHANGED <<source, stopRequested, target>>
        /\ Finish(w)
        /\ UNCHANGED <<client, queues, qstate, log, plan, callbacks, nodes, srcpc, srcTodo, srcCount, emitted, locks, history, crash>>

(* The task may hold the last reference to the source. *)
releaseSource(w) ==
    LET s == task[w].id
    IN  /\ pc[w] = "releaseSource"
        /\ \/ /\ source[s] = "orphan" /\ \A v \in Workers \ {w} : ~HoldsSource(v, s)
              /\ source' = [source EXCEPT ![s] = "closing"]
              /\ stopRequested' = [stopRequested EXCEPT ![s] = TRUE]
              /\ target' = [target EXCEPT ![w] = s]
           \/ /\ source[s] # "orphan" \/ \E v \in Workers \ {w} : HoldsSource(v, s)
              /\ UNCHANGED <<source, stopRequested, target>>
        /\ Finish(w)
        /\ UNCHANGED <<client, queues, qstate, log, plan, callbacks, nodes, srcpc, srcTodo, srcCount, emitted, locks, history, crash>>

-----------------------------------------------------------------------------
(* Source threads: dataSourceThread with the emit function of RunningSource. *)

NextSuccessor(s) == CHOOSE p \in srcTodo[s] : \A q \in srcTodo[s] : p <= q

fillTupleBuffer(s) ==
    /\ srcpc[s] = "fill"
    /\ \/ /\ srcCount[s] < MaxBuffers
          /\ srcCount' = [srcCount EXCEPT ![s] = @ + 1]
          /\ srcTodo' = [srcTodo EXCEPT ![s] = SourceSucc[s]]
          /\ srcpc' = [srcpc EXCEPT ![s] = "emit"]
       \/ /\ srcpc' = [srcpc EXCEPT ![s] = IF stopRequested[s] THEN "exiting" ELSE "eos"]
          /\ UNCHANGED <<srcCount, srcTodo>>
       \/ /\ MayFail
          /\ srcpc' = [srcpc EXCEPT ![s] = "error"]
          /\ UNCHANGED <<srcCount, srcTodo>>
    /\ UNCHANGED <<client, queues, qstate, log, plan, callbacks, nodes, source, stopRequested,
                   pc, task, after, emitted, target, locks, history, crash>>

(* emitWork counts the task before it waits for room in the admission queue. *)
sourceEmit(s) ==
    /\ srcpc[s] = "emit"
    /\ pendingTasks' = [pendingTasks EXCEPT ![NextSuccessor(s)] = @ + 1]
    /\ srcpc' = [srcpc EXCEPT ![s] = "write"]
    /\ UNCHANGED <<client, queues, qstate, log, plan, callbacks, node, requiresTermination, stage, source, srcTodo, srcCount, stopRequested,
                   pc, task, after, emitted, target, locks, history, crash>>

blockingWrite(s) ==
    /\ srcpc[s] = "write" /\ Len(admission) < AdmissionSize
    /\ admission' = Append(admission, Work(NextSuccessor(s), FALSE))
    /\ srcTodo' = [srcTodo EXCEPT ![s] = @ \ {NextSuccessor(s)}]
    /\ srcpc' = [srcpc EXCEPT ![s] = IF srcTodo'[s] # {} THEN "emit" ELSE IF stopRequested[s] THEN "exiting" ELSE "fill"]
    /\ UNCHANGED <<client, internal, qstate, log, plan, callbacks, nodes, source, srcCount, stopRequested,
                   pc, task, after, emitted, target, locks, history, crash>>

(* initializeSourceStop and initializeSourceFailure *)
sourceEnds(s) ==
    /\ srcpc[s] \in {"eos", "error"} /\ Len(admission) < AdmissionSize
    /\ admission' = Append(admission, SourceTask(IF srcpc[s] = "eos" THEN "StopSource" ELSE "FailSource", s))
    /\ srcpc' = [srcpc EXCEPT ![s] = "exiting"]
    /\ UNCHANGED <<client, internal, qstate, log, plan, callbacks, nodes, source, srcTodo, srcCount, stopRequested,
                   pc, task, after, emitted, target, locks, history, crash>>

(* The emit function is destroyed and the termination promise fulfilled. *)
threadExit(s) ==
    /\ srcpc[s] = "exiting"
    /\ srcpc' = [srcpc EXCEPT ![s] = "exited"]
    /\ UNCHANGED <<client, queues, qstate, log, plan, callbacks, nodes, source, srcTodo, srcCount, stopRequested,
                   pc, task, after, emitted, target, locks, history, crash>>

-----------------------------------------------------------------------------
Worker(w) ==
    \/ Admit(w) \/ Take(w) \/ FindNothing(w)
    \/ startQuery(w) \/ commitStart(w) \/ logStarted(w)
    \/ lockPipeline(w) \/ stopPipeline(w) \/ emitWork(w) \/ repeatWork(w)
    \/ executed(w) \/ completeTask(w) \/ failTask(w) \/ pendingPipelineStop(w)
    \/ \E p \in Pipelines : dropNode(w, p)
    \/ fireSetup(w) \/ fireTermination(w) \/ joinSource(w) \/ goOn(w)
    \/ setup(w) \/ stampRunning(w) \/ onRunning(w) \/ onDestruction(w) \/ logStatus(w)
    \/ onFailure(w) \/ failed(w) \/ logFailed(w)
    \/ stopQuery(w) \/ stopped(w)
    \/ \E s \in Sources : clearSource(w, s)
    \/ lockSource(w) \/ tryUnregister(w) \/ reattempt(w) \/ releaseSource(w)

SourceThread(s) == fillTupleBuffer(s) \/ sourceEmit(s) \/ blockingWrite(s) \/ sourceEnds(s) \/ threadExit(s)

Quiet ==
    /\ admission = <<>> /\ internal = <<>> /\ client # "start"
    /\ \A w \in Workers : pc[w] = "idle"
    /\ \A s \in Sources : srcpc[s] \in {None, "exited"}

(* The engine waits for the next query, or the process has crashed. *)
Rest == (Quiet \/ crash # None) /\ UNCHANGED vars

Next ==
    \/ /\ crash = None
       /\ \/ Submit \/ RequestStop
          \/ \E w \in Workers : Worker(w)
          \/ \E s \in Sources : SourceThread(s)
    \/ Rest

Spec == Init /\ [][Next]_vars

(* Threads are scheduled; a client need not ever stop its query. *)
FairSpec ==
    /\ Spec
    /\ WF_vars(crash = None /\ Submit)
    /\ \A w \in Workers : WF_vars(crash = None /\ Worker(w))
    /\ \A s \in Sources : WF_vars(crash = None /\ SourceThread(s))
-----------------------------------------------------------------------------
(* Properties *)

Queued(queue, p) == Cardinality({i \in DOMAIN queue : queue[i].kind = "Work" /\ queue[i].id = p})

(* The work tasks for p that were counted and not taken off the count again. *)
Outstanding(p) ==
    LET inHand == {w \in Workers : /\ task[w].kind = "Work" /\ task[w].id = p
                                   /\ pc[w] \in {"run", "exec", "drop", "complete", "failed"}}
        blocked == {s \in Sources : srcpc[s] = "write" /\ NextSuccessor(s) = p}
    IN  Queued(admission, p) + Queued(internal, p) + Cardinality(inHand) + Cardinality(blocked)

(* While somebody holds a node, pendingTasks is the number of its work tasks that are blocked in a source, queued or in
   the hands of a worker: every path through emitWork, completion and failure counts up and down once. *)
PendingTasksExact == \A p \in Pipelines : Lockable(p) => pendingTasks[p] = Outstanding(p)

PipelineTask(w) == task[w].kind \in {"Work", "StartPipeline", "StopPipeline"}

(* A stage executes a buffer only after its start has returned, although the pipelines of a query are started
   concurrently and nothing orders the start of a pipeline before work that its predecessor emits. *)
ExecutesOnlyStarted ==
    \A w \in Workers : pc[w] = "exec" /\ task[w].kind = "Work" => stage[task[w].id] = "started"

(* stop is called on a stage that was started, while no other worker is inside that stage: the deleter turns the
   last reference into the StopPipelineTask, so nobody can be executing the pipeline any more. *)
StopIsExclusive ==
    \A w \in Workers : pc[w] = "exec" /\ task[w].kind = "StopPipeline" =>
        /\ stage[task[w].id] = "started"
        /\ \A v \in Workers \ {w} : ~(pc[v] = "exec" /\ PipelineTask(v) /\ task[v].id = task[w].id)

(* At the end of a stream a pipeline is stopped only when no work for it is left anywhere: PendingPipelineStop
   waits for pendingTasks to reach 0 and no task can find its pipeline expired. *)
EndOfStreamDrains ==
    /\ expired = {}
    /\ \A p \in Pipelines : node[p] \in {"stopping", "dead"} => Outstanding(p) = 0

(* A query that ended stays as it ended; onFailure, which accepts every state, never overwrites Stopped, because a
   failing task keeps a node, and with it the termination callback, alive. *)
TerminationIsFinal == [][(qstate \in Terminated) => qstate' = qstate]_vars

(* When the engine has come to rest after a query, however it ended, no node and no source of it is left, and the
   summary of the log is the way it ended although reports of different workers overtake each other. *)
EndsAsReported ==
    Quiet /\ crash = None /\ qstate \in Terminated =>
        /\ plan = "dead"
        /\ \A p \in Pipelines : node[p] = "dead"
        /\ \A s \in Sources : source[s] \in {None, "gone"}
        /\ getQuerySummary(log) = qstate

(* A submitted query whose sources end terminates, with every stage that it started stopped. *)
Terminates == <>(qstate \in Terminated /\ \A p \in Pipelines : stage[p] # "started")

(* No part of a query is freed while another thread still uses it, and no INVARIANT fails. *)
NoCrash == crash = None

=============================================================================
