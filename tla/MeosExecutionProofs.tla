------------------------- MODULE MeosExecutionProofs -------------------------
(***************************************************************************)
(* MEOS is entered only between its initialization and its finalization,   *)
(* and is finalized once, for any number of workers and whatever they      *)
(* evaluate.  The two properties follow from one inductive invariant that  *)
(* relates the flag, the library and the exit handlers:                    *)
(*  - the flag says that MEOS is ready, and a worker past its own call of  *)
(*    meos_initialize knows that too;                                      *)
(*  - as long as MEOS is initialized and not finalized, the flag is set or *)
(*    a worker is about to set it;                                         *)
(*  - as long as the flag is set, a handler is registered or a worker is   *)
(*    about to register one.                                               *)
(***************************************************************************)
EXTENDS MeosExecution, TLAPS

Labels == {"execute", "ensureMeosInitialized", "meos_initialize", "set flag", "atexit",
           "make", "copy tm", "free", "returned", "threw"}

TypeOK ==
  /\ pc \in [Workers -> Labels]
  /\ meos_initialized \in BOOLEAN
  /\ initializations \in Nat
  /\ handlers \in Nat
  /\ finalizations \in Nat

AfterInitialize == {"set flag", "atexit", "make", "copy tm", "free"}

\* A worker that has passed meos_initialize, and the flag, tell the truth.
FlagIsTrue ==
  /\ meos_initialized => initializations > 0 /\ finalizations = 0
  /\ \A w \in Workers : pc[w] \in AfterInitialize => initializations > 0

\* Handlers run when all workers are done, and the first one resets the flag.
FinalizedAtExit ==
  /\ finalizations <= 1
  /\ finalizations > 0 => Exiting /\ initializations > 0

\* Whoever initialized MEOS sets the flag, and whoever sets it leaves a handler.
HandlerPending ==
  /\ initializations > 0 /\ finalizations = 0 =>
       meos_initialized \/ \E w \in Workers : pc[w] = "set flag"
  /\ meos_initialized => handlers > 0 \/ \E w \in Workers : pc[w] = "atexit"

IInv == TypeOK /\ FlagIsTrue /\ FinalizedAtExit /\ HandlerPending

\* A step of worker w that leaves MEOS, the flag and the handlers alone.
Moves(w, from, to) == pc[w] = from /\ pc' = [pc EXCEPT ![w] = to]
QuietStep(w) ==
  /\ UNCHANGED <<meos_initialized, initializations, handlers, finalizations>>
  /\ \/ UNCHANGED pc /\ pc[w] = "make"
     \/ Moves(w, "execute", "ensureMeosInitialized")
     \/ Moves(w, "execute", "threw")
     \/ Moves(w, "ensureMeosInitialized", "make") /\ meos_initialized
     \/ Moves(w, "ensureMeosInitialized", "meos_initialize")
     \/ Moves(w, "make", "copy tm")
     \/ Moves(w, "copy tm", "make")
     \/ Moves(w, "make", "returned")
     \/ Moves(w, "make", "free")
     \/ Moves(w, "free", "returned")

\* The evaluation of a function, whatever its class, its arguments and the
\* answer of MEOS are, takes quiet steps only (execute of the physical functions).
LEMMA QuietActions ==
  ASSUME NEW w \in Workers, pc \in [Workers -> Labels],
         Execute(w) \/ CheckFlag(w) \/ LocalTime(w) \/ CopyTime(w)
           \/ EmptyText(w) \/ ReadText(w) \/ CallMeos(w) \/ Answer(w)
  PROVE  QuietStep(w)
  <1>1. CASE Execute(w)
    <2>1. UNCHANGED <<meos_initialized, initializations, handlers, finalizations>>
      BY <1>1 DEF Execute, shared
    <2>2. PICK l \in {"ensureMeosInitialized", "threw"} : Moves(w, "execute", l)
      <3>1. PICK c : pc' = [pc EXCEPT ![w] = IF c THEN "ensureMeosInitialized" ELSE "threw"]
        BY <1>1, Zenon DEF Execute, Goto
      <3>2. CASE c
        BY <1>1, <3>1, <3>2 DEF Execute, Moves
      <3>3. CASE ~c
        BY <1>1, <3>1, <3>3 DEF Execute, Moves
      <3>4. QED  BY <3>2, <3>3
    <2>3. QED  BY <2>1, <2>2 DEF QuietStep
  <1>2. CASE CheckFlag(w)
    BY <1>2 DEF CheckFlag, Goto, shared, QuietStep, Moves
  <1>3. CASE LocalTime(w)
    BY <1>3 DEF LocalTime, Goto, QuietStep, Moves
  <1>4. CASE CopyTime(w)
    BY <1>4 DEF CopyTime, Goto, shared, QuietStep, Moves
  <1>5. CASE EmptyText(w)
    BY <1>5 DEF EmptyText, Return, Goto, shared, QuietStep, Moves
  <1>6. CASE ReadText(w)
    <2>1. pc[w] = "make" /\ UNCHANGED <<meos_initialized, initializations, handlers, finalizations>>
      BY <1>6 DEF ReadText, shared
    <2>2. UNCHANGED pc \/ pc' = [pc EXCEPT ![w] = "returned"]
      BY <1>6, Zenon DEF ReadText, Return, Goto
    <2>3. QED  BY <2>1, <2>2 DEF QuietStep, Moves
  <1>7. CASE CallMeos(w)
    BY <1>7 DEF CallMeos, Goto, shared, QuietStep, Moves
  <1>8. CASE Answer(w)
    BY <1>8 DEF Answer, Return, Goto, shared, QuietStep, Moves
  <1>9. QED  BY <1>1, <1>2, <1>3, <1>4, <1>5, <1>6, <1>7, <1>8

\* A worker that takes a step is not done, so no handler has run yet.
LEMMA NotFinalized ==
  ASSUME IInv, NEW w \in Workers, pc[w] \notin {"returned", "threw"}
  PROVE  finalizations = 0
  BY DEF IInv, TypeOK, FinalizedAtExit, Exiting

LEMMA InitInv == Init => IInv
  <1> SUFFICES ASSUME Init PROVE IInv
    OBVIOUS
  <1>1. initializations = 0 /\ finalizations = 0 /\ handlers = 0 /\ meos_initialized = FALSE
    BY DEF Init
  <1>2. TypeOK
    BY DEF Init, TypeOK, Labels
  <1>3. FlagIsTrue
    BY DEF Init, FlagIsTrue, AfterInitialize
  <1>4. FinalizedAtExit /\ HandlerPending
    BY <1>1 DEF FinalizedAtExit, HandlerPending
  <1>5. QED  BY <1>2, <1>3, <1>4 DEF IInv

LEMMA QuietInv ==
  ASSUME IInv, NEW w \in Workers, QuietStep(w)
  PROVE  IInv'
  <1>1. finalizations = 0
    BY NotFinalized DEF QuietStep, Moves
  <1>2. TypeOK'
    BY DEF IInv, TypeOK, QuietStep, Moves, Labels
  <1>3. FlagIsTrue'
    BY <1>1 DEF IInv, TypeOK, FlagIsTrue, AfterInitialize, QuietStep, Moves
  <1>4. FinalizedAtExit'
    <2>1. finalizations' = 0
      BY <1>1 DEF QuietStep
    <2>2. QED  BY <2>1 DEF FinalizedAtExit
  <1>5. HandlerPending'
    <2>1. \A v \in Workers : pc[v] \in {"set flag", "atexit"} => pc'[v] = pc[v]
      BY DEF IInv, TypeOK, QuietStep, Moves
    <2>2. QED  BY <2>1 DEF IInv, HandlerPending, QuietStep
  <1>6. QED  BY <1>2, <1>3, <1>4, <1>5 DEF IInv

LEMMA InitializeInv ==
  ASSUME IInv, NEW w \in Workers, InitializeMeos(w)
  PROVE  IInv'
  <1>1. finalizations = 0 /\ finalizations' = 0
    BY NotFinalized DEF InitializeMeos, Initialize
  <1>2. CASE pc[w] = "meos_initialize"
    <2>1. /\ pc' = [pc EXCEPT ![w] = "set flag"]
          /\ initializations' = initializations + 1
          /\ UNCHANGED <<meos_initialized, handlers>>
      BY <1>2 DEF InitializeMeos, Initialize, Goto
    <2> initializations' \in Nat /\ initializations' > 0
      <3>1. initializations \in Nat
        BY DEF IInv, TypeOK
      <3>2. initializations' = initializations + 1
        BY <2>1
      <3>3. QED  BY <3>1, <3>2
    <2>2. TypeOK'
      BY <1>1, <2>1 DEF IInv, TypeOK, Labels
    <2>3. FlagIsTrue' /\ FinalizedAtExit'
      <3>1. FlagIsTrue'
        BY <1>1 DEF FlagIsTrue
      <3>2. QED  BY <1>1, <3>1 DEF FinalizedAtExit
    <2>4. HandlerPending'
      <3>1. pc'[w] = "set flag"
        BY <2>1 DEF IInv, TypeOK
      <3>2. \A v \in Workers : pc[v] = "atexit" => pc'[v] = "atexit"
        BY <1>2, <2>1 DEF IInv, TypeOK
      <3>3. QED  BY <2>1, <3>1, <3>2 DEF IInv, HandlerPending
    <2>5. QED  BY <2>2, <2>3, <2>4 DEF IInv
  <1>3. CASE pc[w] = "set flag"
    <2>1. /\ pc' = [pc EXCEPT ![w] = "atexit"]
          /\ meos_initialized' = TRUE
          /\ UNCHANGED <<initializations, handlers>>
      BY <1>3 DEF InitializeMeos, Initialize, Goto
    <2>2. TypeOK'
      BY <1>1, <2>1 DEF IInv, TypeOK, Labels
    <2>3. FlagIsTrue' /\ FinalizedAtExit'
      <3>1. initializations' > 0
        BY <1>3, <2>1 DEF IInv, FlagIsTrue, AfterInitialize
      <3>2. FlagIsTrue'
        BY <1>1, <3>1 DEF FlagIsTrue
      <3>3. QED  BY <1>1, <3>2 DEF FinalizedAtExit
    <2>4. HandlerPending'
      <3>1. pc'[w] = "atexit"
        BY <2>1 DEF IInv, TypeOK
      <3>2. QED  BY <2>1, <3>1 DEF HandlerPending
    <2>5. QED  BY <2>2, <2>3, <2>4 DEF IInv
  <1>4. QED  BY <1>2, <1>3 DEF InitializeMeos, Initialize

LEMMA AtExitInv ==
  ASSUME IInv, NEW w \in Workers, AtExit(w)
  PROVE  IInv'
  <1>1. finalizations = 0 /\ finalizations' = 0
    BY NotFinalized DEF AtExit
  <1>2. /\ pc[w] = "atexit" /\ pc' = [pc EXCEPT ![w] = "make"]
        /\ handlers' = handlers + 1
        /\ UNCHANGED <<meos_initialized, initializations>>
    BY DEF AtExit, Goto
  <1>3. TypeOK'
    <2>1. handlers' \in Nat
      BY <1>2 DEF IInv, TypeOK
    <2>2. QED  BY <1>1, <1>2, <2>1 DEF IInv, TypeOK, Labels
  <1>4. FlagIsTrue' /\ FinalizedAtExit'
    <2>1. initializations' > 0
      BY <1>2 DEF IInv, FlagIsTrue, AfterInitialize
    <2>2. FlagIsTrue'
      BY <1>1, <2>1 DEF FlagIsTrue
    <2>3. QED  BY <1>1, <2>2 DEF FinalizedAtExit
  <1>5. HandlerPending'
    <2>1. \A v \in Workers : pc[v] = "set flag" => pc'[v] = "set flag"
      BY <1>2 DEF IInv, TypeOK
    <2>2. handlers' > 0
      BY <1>2 DEF IInv, TypeOK
    <2>3. QED  BY <1>1, <1>2, <2>1, <2>2 DEF IInv, HandlerPending
  <1>6. QED  BY <1>3, <1>4, <1>5 DEF IInv

LEMMA HandlerInv ==
  ASSUME IInv, RunHandler
  PROVE  IInv'
  <1>1. /\ Exiting /\ handlers > 0 /\ handlers' = handlers - 1
        /\ finalizations' = IF meos_initialized THEN finalizations + 1 ELSE finalizations
        /\ meos_initialized' = FALSE
        /\ UNCHANGED <<pc, initializations>>
    BY DEF RunHandler, cleanupMeos, own
  <1>2. TypeOK'
    <2>1. handlers' \in Nat /\ finalizations' \in Nat
      BY <1>1 DEF IInv, TypeOK
    <2>2. QED  BY <1>1, <2>1 DEF IInv, TypeOK
  <1>3. FlagIsTrue'
    BY <1>1 DEF IInv, FlagIsTrue
  <1>4. FinalizedAtExit'
    BY <1>1 DEF IInv, TypeOK, FlagIsTrue, FinalizedAtExit, Exiting
  <1>5. HandlerPending'
    <2>1. \A w \in Workers : pc[w] # "set flag"
      BY <1>1 DEF Exiting
    <2>2. CASE meos_initialized
      BY <1>1, <2>2 DEF IInv, FlagIsTrue, HandlerPending
    <2>3. CASE ~meos_initialized
      BY <1>1, <2>1, <2>3 DEF IInv, HandlerPending
    <2>4. QED  BY <2>2, <2>3
  <1>6. QED  BY <1>2, <1>3, <1>4, <1>5 DEF IInv

LEMMA NextInv == IInv /\ [Next]_vars => IInv'
  <1> SUFFICES ASSUME IInv, [Next]_vars PROVE IInv'
    OBVIOUS
  <1>1. ASSUME NEW w \in Workers,
               Execute(w) \/ CheckFlag(w) \/ LocalTime(w) \/ CopyTime(w)
                 \/ EmptyText(w) \/ ReadText(w) \/ CallMeos(w) \/ Answer(w)
        PROVE  IInv'
    BY <1>1, QuietActions, QuietInv DEF IInv, TypeOK
  <1>2. ASSUME NEW w \in Workers, InitializeMeos(w) PROVE IInv'
    BY <1>2, InitializeInv
  <1>3. ASSUME NEW w \in Workers, AtExit(w) PROVE IInv'
    BY <1>3, AtExitInv
  <1>4. CASE RunHandler
    BY <1>4, HandlerInv
  <1>5. CASE UNCHANGED vars
    BY <1>5 DEF vars, own, shared, IInv, TypeOK, FlagIsTrue, FinalizedAtExit, HandlerPending, Exiting
  <1>6. QED  BY <1>1, <1>2, <1>3, <1>4, <1>5 DEF Next, Exited

LEMMA Invariant == Spec => []IInv
  BY InitInv, NextInv, PTL DEF Spec

\* For any number of workers, no thread is inside MEOS before some
\* meos_initialize has returned or after meos_finalize, although
\* ensureMeosInitialized takes no lock.
THEOREM ReadyWhenUsed == Spec => []MeosReady
  <1>1. IInv => MeosReady
    BY NotFinalized DEF IInv, FlagIsTrue, AfterInitialize, MeosReady
  <1>2. QED  BY <1>1, Invariant, PTL

\* For any number of workers that raced to initialize, and so any number of
\* registered cleanupMeos, MEOS is finalized exactly once if it was initialized.
THEOREM OneFinalization == Spec => []FinalizedOnce
  <1>1. ASSUME IInv PROVE FinalizedOnce
    <2>1. finalizations \in Nat /\ initializations \in Nat /\ finalizations <= 1
      BY <1>1 DEF IInv, TypeOK, FinalizedAtExit
    <2>2. ASSUME Exiting, handlers = 0
          PROVE  finalizations = (IF initializations > 0 THEN 1 ELSE 0)
      <3>1. CASE finalizations > 0
        BY <1>1, <2>1, <3>1 DEF IInv, FinalizedAtExit
      <3>2. CASE ~(finalizations > 0)
        <4>1. \A w \in Workers : pc[w] \notin {"set flag", "atexit"}
          BY <2>2 DEF Exiting
        <4>2. ~(handlers > 0)
          BY <2>2
        <4>3. ~meos_initialized
          BY <1>1, <4>1, <4>2, Zenon DEF IInv, HandlerPending
        <4>4. finalizations = 0
          BY <2>1, <3>2
        <4>5. ~(initializations > 0)
          BY <1>1, <4>1, <4>3, <4>4, Zenon DEF IInv, HandlerPending
        <4>6. QED  BY <4>4, <4>5
      <3>3. QED  BY <3>1, <3>2
    <2>3. QED  BY <2>1, <2>2 DEF FinalizedOnce
  <1>2. QED  BY <1>1, Invariant, PTL

===============================================================================
