--------------------------- MODULE MeosExecution ---------------------------
(***************************************************************************)
(* Worker threads evaluate spatio-temporal functions: the execute methods  *)
(* of nes-physical-operators/src/Functions/Meos and the parts of           *)
(* nes-plugins/MEOS/MEOSWrapper.cpp they use.  The workers share the flag  *)
(* and the exit handlers of MEOSWrapper, MEOS itself, and the one struct   *)
(* tm that std::localtime returns a pointer to; nothing is locked.  Each   *)
(* worker evaluates one function; then the process ends.                   *)
(* MEOS and the C library are external: a text is readable or not, and a   *)
(* call answers.                                                           *)
(***************************************************************************)
EXTENDS MeosLogicalFunctions, MeosPhysicalFunctions

CONSTANTS
  Workers,
  Assignments   \* what the workers evaluate: functions from Workers to Invocations

(* The functions the planner lets through, with the argument types it       *)
(* checked.                                                                 *)
Invocations ==
  UNION {{[class |-> class, layout |-> layout] : layout \in class.layouts} :
           class \in {c \in MeosLogicalFunctions : \E p \in MeosCalls : p.key = c.name}}

VARIABLES
  evaluates,         \* the invocation of each worker
  pc,
  call,              \* the call record it was dispatched to
  stamps,            \* for the objects of a call made from seconds: whose seconds their text has
  objects,           \* the MEOS objects it made: "live", "null" or "freed"
  result,
  meos_initialized,  \* the flag
  initializations,   \* how many meos_initialize have returned
  handlers,          \* how many cleanupMeos std::atexit will run
  finalizations,
  tm                 \* whose seconds the shared struct tm holds

shared == <<meos_initialized, initializations, handlers, finalizations, tm>>
own == <<pc, call, stamps, objects, result>>
vars == <<evaluates, own, shared>>

Error == "-1"

Init ==
  /\ evaluates \in Assignments
  /\ pc = [w \in Workers |-> "execute"]
  /\ call = [w \in Workers |-> <<>>]
  /\ stamps = [w \in Workers |-> <<>>]
  /\ objects = [w \in Workers |-> <<>>]
  /\ result = [w \in Workers |-> "none"]
  /\ meos_initialized = FALSE /\ initializations = 0
  /\ handlers = 0 /\ finalizations = 0
  /\ tm = <<>>

Goto(w, label) == pc' = [pc EXCEPT ![w] = label]
Return(w, value) == Goto(w, "returned") /\ result' = [result EXCEPT ![w] = value]

----------------------------------------------------------------------------
(* The registrars choose by the number of parameters; with four, EContains  *)
(* looks at what the first one holds.                                       *)
Dispatch(invocation) ==
  {c \in MeosCalls :
     /\ c.key = invocation.class.name
     /\ Len(c.casts) = Len(invocation.layout)
     /\ c.key = "TemporalEContainsGeometry" /\ Len(c.casts) = 4
          => (c.casts[1] = Text <=> invocation.layout[1] = VARSIZED)}

(* VarVal::cast converts between numbers, and a text only to itself.  A     *)
(* parameter the planner does not check is taken to hold what is expected.  *)
Castable(kind, type) == kind = "any" \/ (kind = VARSIZED <=> type = Text)

Execute(w) ==
  /\ pc[w] = "execute"
  /\ LET found == Dispatch(evaluates[w])
         castable(c) == \A i \in DOMAIN c.casts : Castable(evaluates[w].layout[i], c.casts[i])
     IN  /\ call' = [call EXCEPT ![w] = IF found = {} THEN @ ELSE CHOOSE c \in found : TRUE]
         /\ Goto(w, IF found # {} /\ castable(call'[w]) THEN "ensureMeosInitialized" ELSE "threw")
  /\ UNCHANGED <<evaluates, stamps, objects, result, shared>>

(* ensureMeosInitialized: read the flag, initialize, set the flag, leave a  *)
(* handler.  (The constructors of the wrapper classes call it again, when   *)
(* the flag is already set.  Setting the time zone of the process, before   *)
(* the library is initialized, is left out.)                                *)
CheckFlag(w) ==
  /\ pc[w] = "ensureMeosInitialized"
  /\ Goto(w, IF meos_initialized THEN "make" ELSE "meos_initialize")
  /\ UNCHANGED <<evaluates, call, stamps, objects, result, shared>>

(* Mutant: the flag is set before the library is ready.                     *)
FlagFirst(w) ==
  \/ /\ pc[w] = "meos_initialize" /\ Goto(w, "set flag")
     /\ meos_initialized' = TRUE
     /\ UNCHANGED initializations
  \/ /\ pc[w] = "set flag" /\ Goto(w, "atexit")
     /\ initializations' = initializations + 1
     /\ UNCHANGED meos_initialized

Initialize(w) ==
  \/ /\ pc[w] = "meos_initialize" /\ Goto(w, "set flag")
     /\ initializations' = initializations + 1
     /\ UNCHANGED meos_initialized
  \/ /\ pc[w] = "set flag" /\ Goto(w, "atexit")
     /\ meos_initialized' = TRUE
     /\ UNCHANGED initializations

InitializeMeos(w) ==
  Initialize(w) /\ UNCHANGED <<evaluates, call, stamps, objects, result, handlers, finalizations, tm>>

AtExit(w) ==
  /\ pc[w] = "atexit" /\ Goto(w, "make")
  /\ handlers' = handlers + 1
  /\ UNCHANGED <<evaluates, call, stamps, objects, result, meos_initialized, initializations, finalizations, tm>>

----------------------------------------------------------------------------
(* Objects made from seconds need their text first: the functions on two    *)
(* geometries convert all seconds before they make an object, those on      *)
(* instants in the constructor of each.                                     *)
FromSeconds(c, i) == c.objects[i].in \in {"TemporalGeometry", "TemporalInstant"}
Unconverted(w) == {i \in DOMAIN call[w].objects : FromSeconds(call[w], i) /\ i \notin DOMAIN stamps[w]}
ToConvert(w) ==
  {i \in Unconverted(w) : /\ \A j \in Unconverted(w) : i <= j
                          /\ call[w].objects[i].in = "TemporalInstant" => i = Len(objects[w]) + 1}

(* convertSecondsToTimestamp: std::localtime fills the shared struct tm,    *)
(* then it is copied.                                                       *)
LocalTime(w) ==
  /\ pc[w] = "make"
  /\ \E i \in ToConvert(w) : tm' = <<w, i>>
  /\ Goto(w, "copy tm")
  /\ UNCHANGED <<evaluates, call, stamps, objects, result, meos_initialized, initializations, handlers, finalizations>>

CopyTime(w) ==
  /\ pc[w] = "copy tm" /\ Goto(w, "make")
  /\ \E i \in ToConvert(w) :
       stamps' = [stamps EXCEPT ![w] = [j \in DOMAIN @ \cup {i} |-> IF j = i THEN tm ELSE @[j]]]
  /\ UNCHANGED <<evaluates, call, objects, result, shared>>

(* The text of a static geometry is empty once its quotes are gone.         *)
EmptyText(w) ==
  /\ pc[w] = "make" /\ ToConvert(w) = {} /\ objects[w] = <<>>
  /\ \E i \in DOMAIN call[w].objects : call[w].objects[i].in = "StaticGeometry"
  /\ Return(w, Error)
  /\ UNCHANGED <<evaluates, call, stamps, objects, shared>>

Freed(objs) == [i \in DOMAIN objs |-> IF objs[i] = "live" THEN "freed" ELSE objs[i]]

(* A text is read into an object, or it cannot be: the wrapper classes keep *)
(* a null pointer, the generated functions return.                          *)
ReadText(w) ==
  /\ pc[w] = "make" /\ ToConvert(w) = {} /\ Len(objects[w]) < Len(call[w].objects)
  /\ \/ /\ objects' = [objects EXCEPT ![w] = Append(@, "live")]
        /\ UNCHANGED <<pc, result>>
     \/ /\ call[w].unread = "passed"
        /\ objects' = [objects EXCEPT ![w] = Append(@, "null")]
        /\ UNCHANGED <<pc, result>>
     \/ /\ call[w].unread = "freed"
        /\ objects' = [objects EXCEPT ![w] = Freed(@)]
        /\ Return(w, Error)
     \/ /\ call[w].unread = "leaked"
        /\ UNCHANGED objects
        /\ Return(w, Error)
  /\ UNCHANGED <<evaluates, call, stamps, shared>>

CallMeos(w) ==
  /\ pc[w] = "make" /\ ToConvert(w) = {} /\ Len(objects[w]) = Len(call[w].objects)
  /\ Goto(w, "free")
  /\ UNCHANGED <<evaluates, call, stamps, objects, result, shared>>

FreeObjects(w) == objects' = [objects EXCEPT ![w] = Freed(@)]

Answer(w) ==
  /\ pc[w] = "free" /\ FreeObjects(w)
  /\ Return(w, call[w].yields)
  /\ UNCHANGED <<evaluates, call, stamps, shared>>

----------------------------------------------------------------------------
Exiting == \A w \in Workers : pc[w] \in {"returned", "threw"}

(* Mutant: the flag is left set.                                            *)
cleanupWithoutReset ==
  /\ finalizations' = IF meos_initialized THEN finalizations + 1 ELSE finalizations
  /\ UNCHANGED meos_initialized
cleanupMeos ==
  /\ finalizations' = IF meos_initialized THEN finalizations + 1 ELSE finalizations
  /\ meos_initialized' = FALSE

RunHandler ==
  /\ Exiting /\ handlers > 0
  /\ handlers' = handlers - 1
  /\ cleanupMeos
  /\ UNCHANGED <<evaluates, own, initializations, tm>>

Exited == Exiting /\ handlers = 0 /\ UNCHANGED vars

Next ==
  \/ \E w \in Workers :
       \/ Execute(w) \/ CheckFlag(w) \/ InitializeMeos(w) \/ AtExit(w)
       \/ LocalTime(w) \/ CopyTime(w) \/ EmptyText(w) \/ ReadText(w) \/ CallMeos(w) \/ Answer(w)
  \/ RunHandler
  \/ Exited

Spec == Init /\ [][Next]_vars

----------------------------------------------------------------------------
(* No thread enters MEOS before meos_initialize has returned in some        *)
(* thread, or after meos_finalize, although the flag is neither locked nor  *)
(* atomic and several threads may initialize at once.                       *)
MeosReady ==
  \A w \in Workers :
    pc[w] \in {"make", "copy tm", "free"} => initializations > 0 /\ finalizations = 0

(* Threads that raced to initialize leave several cleanupMeos behind; MEOS  *)
(* is finalized by exactly one of them.                                     *)
FinalizedOnce ==
  /\ finalizations <= 1
  /\ Exiting /\ handlers = 0 => finalizations = (IF initializations > 0 THEN 1 ELSE 0)

(* What the planner lets through fits: a call is found for it, no cast      *)
(* throws, and the value has the type the planner told the operators above. *)
CallsFitPlan ==
  \A w \in Workers :
    /\ pc[w] # "threw"
    /\ result[w] \in {"none", Error, evaluates[w].class.made}

==============================================================================
