------------------------ MODULE ChunkPipelineProofs ------------------------
(***************************************************************************)
(* Proofs about the emit operator within ChunkPipeline, for any number of  *)
(* workers, any number of input chunks per sequence number and any number  *)
(* of full buffers per chunk.                                              *)
(***************************************************************************)
EXTENDS ChunkPipeline, FiniteSetTheorems, TLAPS

(* Where an input chunk is before it has been counted, and where a worker   *)
(* is once it was told to clean up.                                         *)
Uncounted == {"open", "emitFull", "isLast"}
CleaningUp == {"removeOutput", "removeInput", "emitLast"}
Numbered == {"emitFull", "isLast", "emit"} \cup CleaningUp

EmitTypeOK ==
    /\ outputChunkNumber \in [SequenceNumbers -> Nat]
    /\ lastChunkNumber \in [SequenceNumbers -> Nat]
    /\ seenChunks \in [SequenceNumbers -> Nat]
    /\ epc \in [Workers -> {"idle", "open"} \cup Numbered]
    /\ input \in [Workers -> Inputs \cup {NoInput}]
    /\ number \in [Workers -> Nat]
    /\ full \in [Workers -> Nat]
    /\ pending \subseteq Inputs
    /\ emitted \subseteq [seq : SequenceNumbers, chunk : Nat \ {0}, last : BOOLEAN]

(* An input chunk is pending, or one worker has it, or it is done with.     *)
OneWorker ==
    /\ \A w \in Workers : epc[w] = "idle" <=> input[w] = NoInput
    /\ \A w \in Workers : epc[w] # "idle" => input[w] \in Inputs \ pending
    /\ \A v, w \in Workers : epc[v] # "idle" /\ input[v] = input[w] => v = w

InputAt(s, c) == [seq |-> s, chunk |-> c, last |-> (c = InputChunks[s])]
IsProcessed(i) ==
    /\ i \notin pending
    /\ \A w \in Workers : epc[w] \in Uncounted => input[w] # i
Processed(s) == {c \in 1..InputChunks[s] : IsProcessed(InputAt(s, c))}

LastEmitted(s) == \E b \in emitted : b.seq = s /\ b.last
Cleaner(s, labels) == \E w \in Workers : epc[w] \in labels /\ input[w].seq = s

(* One worker cleans up for a sequence number, when all its chunks have been*)
(* counted, and emits the last buffer.                                      *)
OneCleaner ==
    /\ \A s \in SequenceNumbers :
          Processed(s) = 1..InputChunks[s] <=> LastEmitted(s) \/ Cleaner(s, CleaningUp)
    /\ \A w \in Workers : epc[w] \in CleaningUp => ~LastEmitted(input[w].seq)
    /\ \A v, w \in Workers :
          epc[v] \in CleaningUp /\ epc[w] \in CleaningUp /\ input[v].seq = input[w].seq => v = w
    /\ \A a, b \in emitted : a.seq = b.seq /\ a.last /\ b.last => a = b

(* What the maps hold, until they are erased.                               *)
CountsExact ==
    \A s \in SequenceNumbers :
        IF LastEmitted(s) \/ Cleaner(s, {"emitLast"})
        THEN seenChunks[s] = 0 /\ lastChunkNumber[s] = 0
        ELSE /\ seenChunks[s] = Cardinality(Processed(s))
             /\ lastChunkNumber[s] = IF InputChunks[s] \in Processed(s) THEN InputChunks[s] ELSE 0

(* The chunk numbers given out for a sequence number are 1..n, each once.   *)
GivenOut(s) ==
    {b.chunk : b \in EmittedOf(s)}
      \cup {number[w] : w \in {v \in Workers : input[v].seq = s /\ epc[v] \in Numbered}}
NumbersExact ==
    /\ \A s \in SequenceNumbers :
          \E n \in Nat :
             /\ GivenOut(s) = 1..n
             /\ outputChunkNumber[s] =
                  IF LastEmitted(s) \/ Cleaner(s, {"removeInput", "emitLast"}) THEN 0 ELSE n
    /\ \A a, b \in emitted : a.seq = b.seq /\ a.chunk = b.chunk => a = b
    /\ \A w \in Workers, b \in emitted :
          epc[w] \in Numbered /\ input[w].seq = b.seq => number[w] # b.chunk
    /\ \A v, w \in Workers :
          epc[v] \in Numbered /\ epc[w] \in Numbered /\ input[v].seq = input[w].seq
            /\ number[v] = number[w] => v = w

EmitInv ==
    /\ EmitTypeOK /\ OneWorker /\ OneCleaner /\ CountsExact /\ NumbersExact

-----------------------------------------------------------------------------
(* An input chunk is identified by its sequence number and chunk number.    *)
LEMMA InputFacts ==
    /\ \A s \in SequenceNumbers : s \in Nat \ {0} /\ InputChunks[s] \in Nat \ {0}
    /\ \A i \in Inputs : /\ i.seq \in SequenceNumbers /\ i.chunk \in 1..InputChunks[i.seq]
                         /\ i = InputAt(i.seq, i.chunk)
                         /\ i.last <=> (i.chunk = InputChunks[i.seq])
    /\ \A s \in SequenceNumbers : \A c \in 1..InputChunks[s] :
          InputAt(s, c) \in Inputs /\ InputAt(s, c).seq = s /\ InputAt(s, c).chunk = c
    /\ NoInput \notin Inputs /\ NoInput.seq \notin SequenceNumbers
  <1>1. \A s \in SequenceNumbers : s \in Nat \ {0} /\ InputChunks[s] \in Nat \ {0}
    BY EmitOperatorAssumption DEF SequenceNumbers
  <1>2. \A s \in SequenceNumbers : \A c \in 1..InputChunks[s] :
          InputAt(s, c) \in Inputs /\ InputAt(s, c).seq = s /\ InputAt(s, c).chunk = c
    BY DEF Inputs, InputAt
  <1>3. ASSUME NEW i \in Inputs
        PROVE  /\ i.seq \in SequenceNumbers /\ i.chunk \in 1..InputChunks[i.seq]
               /\ i = InputAt(i.seq, i.chunk)
               /\ i.last <=> (i.chunk = InputChunks[i.seq])
    <2>1. PICK s \in SequenceNumbers : \E c \in 1..InputChunks[s] : i = InputAt(s, c)
      BY DEF Inputs, InputAt
    <2>2. PICK c \in 1..InputChunks[s] : i = InputAt(s, c)
      BY <2>1, Zenon
    <2>3. i.seq = s /\ i.chunk = c /\ i.last = (c = InputChunks[s])
      BY <2>2, Zenon DEF InputAt
    <2>4. QED
      BY <2>2, <2>3, Zenon
  <1>4. NoInput.seq \notin SequenceNumbers
    BY <1>1, Zenon DEF NoInput
  <1>5. QED
    BY <1>1, <1>2, <1>3, <1>4, Zenon

(* How many chunks of a sequence number have been processed.                *)
LEMMA CardFacts ==
    ASSUME NEW n \in Nat, NEW P \in SUBSET (1..n)
    PROVE  /\ IsFiniteSet(P) /\ Cardinality(P) \in Nat /\ Cardinality(P) <= n
           /\ Cardinality(P) = n <=> P = 1..n
           /\ \A c \in (1..n) \ P : Cardinality(P \cup {c}) = Cardinality(P) + 1
  <1>1. IsFiniteSet(1..n) /\ Cardinality(1..n) = n
    BY FS_Interval
  <1>2. IsFiniteSet(P) /\ Cardinality(P) <= n /\ (Cardinality(P) = n => P = 1..n)
    BY <1>1, FS_Subset, ZenonT(30)
  <1>3. QED
    BY <1>1, <1>2, FS_CardinalityType, FS_AddElement, Zenon

(* Nothing was processed, given out or emitted in the beginning.            *)
LEMMA EmitInitInv == EmitInit => EmitInv
  <1>1. SUFFICES ASSUME EmitInit PROVE EmitInv
    BY Zenon
  <1> USE DEF EmitInit
  <1>2. EmitTypeOK
    BY <1>1, InputFacts, Zenon DEF EmitTypeOK
  <1>3. OneWorker
    BY <1>1, InputFacts, Zenon DEF OneWorker
  <1>4. \A s \in SequenceNumbers : Processed(s) = {} /\ ~LastEmitted(s) /\ GivenOut(s) = {}
    BY <1>1, InputFacts DEF Processed, IsProcessed, LastEmitted, GivenOut, EmittedOf, Numbered, CleaningUp
  <1>5. \A s, L : ~Cleaner(s, L \cap CleaningUp)
    BY <1>1, Zenon DEF Cleaner, CleaningUp
  <1>6. \A s : ~Cleaner(s, CleaningUp) /\ ~Cleaner(s, {"emitLast"}) /\ ~Cleaner(s, {"removeInput", "emitLast"})
    BY <1>1, Zenon DEF Cleaner, CleaningUp
  <1>7. OneCleaner
    <2>1. \A s \in SequenceNumbers : 1 \in 1..InputChunks[s]
      BY InputFacts
    <2>2. \A s \in SequenceNumbers : Processed(s) # 1..InputChunks[s]
      BY <1>4, <2>1, Zenon
    <2>3. emitted = {} /\ \A v \in Workers : epc[v] \notin CleaningUp
      BY <1>1, Zenon DEF CleaningUp
    <2>4. QED
      BY <1>4, <1>6, <2>2, <2>3, Zenon DEF OneCleaner
  <1>8. CountsExact
    BY <1>1, <1>4, <1>6, FS_EmptySet, Zenon DEF CountsExact
  <1>9. NumbersExact
    <2>1. \A s \in SequenceNumbers : GivenOut(s) = 1..0 /\ outputChunkNumber[s] = 0
      BY <1>1, <1>4
    <2>2. QED
      BY <1>1, <2>1, <1>6, <1>4, Zenon DEF NumbersExact, Numbered, CleaningUp
  <1>10. QED
    BY <1>2, <1>3, <1>7, <1>8, <1>9, Zenon DEF EmitInv

(* A step that leaves the workers' places in the clean-up, what has been    *)
(* processed and what was given out as they are.                            *)
LEMMA KeepsCleaner ==
    ASSUME EmitInv,
           \A s \in SequenceNumbers : Processed(s)' = Processed(s) /\ (LastEmitted(s)' <=> LastEmitted(s)),
           \A v \in Workers : /\ epc'[v] = epc[v] \/ (epc[v] \notin CleaningUp /\ epc'[v] \notin CleaningUp)
                              /\ epc[v] \in CleaningUp => input'[v] = input[v],
           \A a \in emitted' \ emitted : ~a.last, emitted \subseteq emitted',
           UNCHANGED state
    PROVE  /\ OneCleaner' /\ CountsExact'
           /\ \A s : /\ Cleaner(s, CleaningUp)' <=> Cleaner(s, CleaningUp)
                     /\ Cleaner(s, {"emitLast"})' <=> Cleaner(s, {"emitLast"})
                     /\ Cleaner(s, {"removeInput", "emitLast"})' <=> Cleaner(s, {"removeInput", "emitLast"})
  <1>1. \A s : /\ Cleaner(s, CleaningUp)' <=> Cleaner(s, CleaningUp)
               /\ Cleaner(s, {"emitLast"})' <=> Cleaner(s, {"emitLast"})
               /\ Cleaner(s, {"removeInput", "emitLast"})' <=> Cleaner(s, {"removeInput", "emitLast"})
    BY Zenon DEF Cleaner, CleaningUp
  <1>2. CountsExact'
    BY <1>1, Zenon DEF EmitInv, CountsExact, state
  <1>3. \A v \in Workers : epc'[v] \in CleaningUp => epc[v] \in CleaningUp /\ input'[v] = input[v]
    BY Zenon
  <1>4. \A v \in Workers : epc'[v] \in CleaningUp => ~LastEmitted(input[v].seq)'
    <2>1. \A v \in Workers : epc[v] \in CleaningUp => input[v].seq \in SequenceNumbers
      BY InputFacts, Zenon DEF EmitInv, OneWorker, CleaningUp
    <2>2. QED
      BY <1>3, <2>1, Zenon DEF EmitInv, OneCleaner
  <1>5. OneCleaner'
    BY <1>1, <1>3, <1>4, Zenon DEF EmitInv, OneCleaner
  <1>6. QED
    BY <1>1, <1>2, <1>5, Zenon
(* Taking an input chunk preserves the invariant (open).                    *)
LEMMA OpenInv ==
    ASSUME EmitInv, NEW w \in Workers, NEW i \in pending, open(w, i)
    PROVE  EmitInv'
  <1>1. /\ epc[w] = "idle" /\ epc' = [epc EXCEPT ![w] = "open"]
        /\ pending' = pending \ {i}
        /\ input' = [input EXCEPT ![w] = i]
        /\ UNCHANGED <<outputChunkNumber, state, number, full, emitted>>
    BY Zenon DEF open, Goto
  <1>2. i \in Inputs /\ pending \subseteq Inputs
    BY Zenon DEF EmitInv, EmitTypeOK
  <1>3. /\ epc' \in [Workers -> {"idle", "open"} \cup Numbered]
        /\ input' \in [Workers -> Inputs \cup {NoInput}]
        /\ epc'[w] = "open" /\ input'[w] = i
        /\ \A v \in Workers : v # w => epc'[v] = epc[v] /\ input'[v] = input[v]
    BY <1>1, <1>2, Zenon DEF EmitInv, EmitTypeOK
  <1>4. EmitTypeOK'
    BY <1>1, <1>3, Zenon DEF EmitInv, EmitTypeOK, state
  <1>5. OneWorker'
    BY <1>1, <1>2, <1>3, InputFacts DEF EmitInv, OneWorker
  <1>6. ASSUME NEW j \in Inputs PROVE IsProcessed(j)' <=> IsProcessed(j)
    BY <1>1, <1>3, Zenon DEF IsProcessed, Uncounted
  <1>7. \A s \in SequenceNumbers : Processed(s)' = Processed(s)
    BY <1>6, InputFacts, ZenonT(30) DEF Processed, InputAt
  <1>8. \A s \in SequenceNumbers : LastEmitted(s)' <=> LastEmitted(s)
    BY <1>1, Zenon DEF LastEmitted
  <1>9. /\ OneCleaner' /\ CountsExact'
        /\ \A s : Cleaner(s, {"removeInput", "emitLast"})' <=> Cleaner(s, {"removeInput", "emitLast"})
    BY <1>1, <1>3, <1>7, <1>8, KeepsCleaner, Zenon DEF CleaningUp
  <1>10. \A v \in Workers : epc'[v] \in Numbered <=> epc[v] \in Numbered
    BY <1>1, <1>3, Zenon DEF Numbered, CleaningUp
  <1>11. \A v \in Workers : epc[v] \in Numbered => input'[v] = input[v]
    BY <1>1, <1>3, Zenon DEF Numbered, CleaningUp
  <1>12. \A s : GivenOut(s)' = GivenOut(s)
    BY <1>1, <1>10, <1>11, ZenonT(30) DEF GivenOut, EmittedOf
  <1>13. NumbersExact'
    BY <1>1, <1>8, <1>9, <1>10, <1>11, <1>12 DEF EmitInv, NumbersExact
  <1>14. QED
    BY <1>4, <1>5, <1>9, <1>13, Zenon DEF EmitInv

(* As long as a worker has a chunk that is not counted, nobody cleans up.   *)
LEMMA NotYetCleaned ==
    ASSUME EmitInv, NEW w \in Workers, epc[w] \in Uncounted
    PROVE  /\ input[w] \in Inputs /\ input[w].seq \in SequenceNumbers
           /\ input[w].chunk \in 1..InputChunks[input[w].seq]
           /\ input[w].chunk \notin Processed(input[w].seq)
           /\ ~LastEmitted(input[w].seq) /\ ~Cleaner(input[w].seq, CleaningUp)
           /\ ~Cleaner(input[w].seq, {"emitLast"}) /\ ~Cleaner(input[w].seq, {"removeInput", "emitLast"})
  <1>1. input[w] \in Inputs
    BY Zenon DEF EmitInv, OneWorker, Uncounted
  <1>2. /\ input[w].seq \in SequenceNumbers /\ input[w].chunk \in 1..InputChunks[input[w].seq]
        /\ input[w] = InputAt(input[w].seq, input[w].chunk)
    BY <1>1, InputFacts, Zenon
  <1>3. input[w].chunk \notin Processed(input[w].seq)
    BY <1>2, Zenon DEF Processed, IsProcessed
  <1>4. ~LastEmitted(input[w].seq) /\ ~Cleaner(input[w].seq, CleaningUp)
    BY <1>2, <1>3, Zenon DEF EmitInv, OneCleaner
  <1>5. ~Cleaner(input[w].seq, {"emitLast"}) /\ ~Cleaner(input[w].seq, {"removeInput", "emitLast"})
    BY <1>4, Zenon DEF Cleaner, CleaningUp
  <1>6. QED
    BY <1>1, <1>2, <1>3, <1>4, <1>5, Zenon

(* Taking a chunk number for a buffer preserves the invariant (execute and  *)
(* close).                                                                  *)
LEMMA NumberInv ==
    ASSUME EmitInv, NEW w \in Workers, execute(w) \/ close(w)
    PROVE  EmitInv'
  <1>a. PICK s0 : s0 = input[w].seq
    BY Zenon
  <1>b. PICK n0 : n0 = outputChunkNumber[s0] + 1
    BY Zenon
  <1>1. /\ epc[w] = "open" /\ \E l \in {"emitFull", "isLast"} : epc' = [epc EXCEPT ![w] = l]
        /\ number' = [number EXCEPT ![w] = n0]
        /\ outputChunkNumber' = [outputChunkNumber EXCEPT ![s0] = n0]
        /\ UNCHANGED <<state, input, pending, emitted>>
        /\ full' = full \/ full' = [full EXCEPT ![w] = @ + 1]
    BY <1>a, <1>b, Zenon DEF execute, close, Goto, getNextChunkNumber
  <1>2. /\ input[w] \in Inputs /\ s0 \in SequenceNumbers /\ ~LastEmitted(s0)
        /\ ~Cleaner(s0, {"removeInput", "emitLast"})
    BY <1>1, <1>a, NotYetCleaned, Zenon DEF Uncounted
  <1>3. n0 \in Nat \ {0}
    BY <1>b, <1>2 DEF EmitInv, EmitTypeOK
  <1>4. /\ epc' \in [Workers -> {"idle", "open"} \cup Numbered]
        /\ number' \in [Workers -> Nat]
        /\ outputChunkNumber' \in [SequenceNumbers -> Nat]
        /\ full' \in [Workers -> Nat]
        /\ epc'[w] \in {"emitFull", "isLast"} /\ number'[w] = n0
        /\ outputChunkNumber'[s0] = n0
        /\ \A v \in Workers : v # w => epc'[v] = epc[v] /\ number'[v] = number[v]
        /\ \A s \in SequenceNumbers : s # s0 => outputChunkNumber'[s] = outputChunkNumber[s]
    BY <1>1, <1>2, <1>3 DEF EmitInv, EmitTypeOK, Numbered
  <1>5. EmitTypeOK'
    BY <1>1, <1>4, Zenon DEF EmitInv, EmitTypeOK, state
  <1>6. OneWorker'
    BY <1>1, <1>4 DEF EmitInv, OneWorker
  <1>7. \A j : IsProcessed(j)' <=> IsProcessed(j)
    BY <1>1, <1>4, Zenon DEF IsProcessed, Uncounted
  <1>8. \A s \in SequenceNumbers : Processed(s)' = Processed(s)
    BY <1>7, Zenon DEF Processed, InputAt
  <1>9. \A s \in SequenceNumbers : LastEmitted(s)' <=> LastEmitted(s)
    BY <1>1, Zenon DEF LastEmitted
  <1>10. /\ OneCleaner' /\ CountsExact'
         /\ \A s : Cleaner(s, {"removeInput", "emitLast"})' <=> Cleaner(s, {"removeInput", "emitLast"})
    BY <1>1, <1>4, <1>8, <1>9, KeepsCleaner, Zenon DEF CleaningUp
  <1>11. \A v \in Workers : epc'[v] \in Numbered <=> v = w \/ epc[v] \in Numbered
    BY <1>4, Zenon DEF Numbered, CleaningUp
  <1>12. epc[w] \notin Numbered
    BY <1>1, Zenon DEF Numbered, CleaningUp
  <1>13. \A s \in SequenceNumbers : s # s0 => GivenOut(s)' = GivenOut(s)
    BY <1>a, <1>1, <1>4, <1>11, <1>12 DEF GivenOut, EmittedOf
  <1>14. GivenOut(s0)' = GivenOut(s0) \cup {n0}
    BY <1>a, <1>1, <1>4, <1>11, <1>12 DEF GivenOut, EmittedOf
  <1>15. GivenOut(s0) = 1..(n0 - 1)
    BY <1>b, <1>2, <1>3 DEF EmitInv, NumbersExact
  <1>16. n0 \notin GivenOut(s0) /\ GivenOut(s0)' = 1..n0
    BY <1>3, <1>14, <1>15
  <1>17. NumbersExact'
    <2>1. ASSUME NEW s \in SequenceNumbers
          PROVE  \E n \in Nat :
             /\ GivenOut(s)' = 1..n
             /\ outputChunkNumber'[s] =
                  IF LastEmitted(s)' \/ Cleaner(s, {"removeInput", "emitLast"})' THEN 0 ELSE n
      <3>1. CASE s = s0
        BY <1>2, <1>3, <1>4, <1>9, <1>10, <1>16, <3>1, Zenon
      <3>2. CASE s # s0
        BY <1>4, <1>9, <1>10, <1>13, <3>2 DEF EmitInv, NumbersExact
      <3>3. QED
        BY <3>1, <3>2, Zenon
    <2>2. \A v \in Workers, b \in emitted :
            epc'[v] \in Numbered /\ input[v].seq = b.seq => number'[v] # b.chunk
      <3>1. \A b \in emitted : b.seq = s0 => b.chunk # n0
        BY <1>16, Zenon DEF GivenOut, EmittedOf
      <3>2. QED
        BY <1>a, <1>4, <1>11, <3>1 DEF EmitInv, NumbersExact
    <2>3. \A u, v \in Workers :
            epc'[u] \in Numbered /\ epc'[v] \in Numbered /\ input[u].seq = input[v].seq
              /\ number'[u] = number'[v] => u = v
      <3>1. \A v \in Workers : epc[v] \in Numbered /\ input[v].seq = s0 => number[v] # n0
        BY <1>16, Zenon DEF GivenOut
      <3>2. \A u, v \in Workers :
              epc[u] \in Numbered /\ epc[v] \in Numbered /\ input[u].seq = input[v].seq
                /\ number[u] = number[v] => u = v
        BY Zenon DEF EmitInv, NumbersExact
      <3>3. SUFFICES ASSUME NEW u \in Workers, NEW v \in Workers, u # v,
                            epc'[u] \in Numbered, epc'[v] \in Numbered,
                            input[u].seq = input[v].seq, number'[u] = number'[v]
                     PROVE  FALSE
        BY Zenon
      <3>4. CASE u # w /\ v # w
        BY <1>4, <1>11, <3>2, <3>3, <3>4, ZenonT(30)
      <3>5. CASE u = w
        BY <1>a, <1>4, <1>11, <3>1, <3>3, <3>5, ZenonT(30)
      <3>6. CASE v = w
        BY <1>a, <1>4, <1>11, <3>1, <3>3, <3>6, ZenonT(30)
      <3>7. QED
        BY <3>4, <3>5, <3>6, Zenon
    <2>4. QED
      BY <1>1, <2>1, <2>2, <2>3, Zenon DEF EmitInv, NumbersExact
  <1>18. QED
    BY <1>5, <1>6, <1>10, <1>17, Zenon DEF EmitInv
(* Counting an input chunk preserves the invariant; the one that was still  *)
(* missing sends its worker to clean up (processChunkNumber).               *)
LEMMA ProcessInv ==
    ASSUME EmitInv, NEW w \in Workers, processChunkNumber(w)
    PROVE  EmitInv'
  <1>a. PICK i : i = input[w]
    BY Zenon
  <1>b. PICK s0 : s0 = i.seq
    BY Zenon
  <1>1. PICK last, seen :
          /\ last = IF i.last THEN i.chunk ELSE lastChunkNumber[s0]
          /\ seen = seenChunks[s0] + 1
          /\ epc[w] = "isLast"
          /\ lastChunkNumber' = [lastChunkNumber EXCEPT ![s0] = last]
          /\ seenChunks' = [seenChunks EXCEPT ![s0] = seen]
          /\ epc' = [epc EXCEPT ![w] = IF seen = last THEN "removeOutput" ELSE "emit"]
          /\ UNCHANGED <<outputChunkNumber, input, number, full, pending, emitted>>
    BY <1>a, <1>b, Zenon DEF processChunkNumber, Goto
  <1>2. /\ i \in Inputs /\ s0 \in SequenceNumbers /\ i.chunk \in 1..InputChunks[s0]
        /\ i = InputAt(s0, i.chunk) /\ (i.last <=> i.chunk = InputChunks[s0])
        /\ i.chunk \notin Processed(s0)
        /\ ~LastEmitted(s0) /\ ~Cleaner(s0, CleaningUp)
        /\ ~Cleaner(s0, {"emitLast"}) /\ ~Cleaner(s0, {"removeInput", "emitLast"})
        /\ InputChunks[s0] \in Nat \ {0}
    BY <1>a, <1>b, <1>1, NotYetCleaned, InputFacts, Zenon DEF Uncounted
  <1>3. /\ seenChunks[s0] = Cardinality(Processed(s0))
        /\ lastChunkNumber[s0] = IF InputChunks[s0] \in Processed(s0) THEN InputChunks[s0] ELSE 0
    BY <1>2, Zenon DEF EmitInv, CountsExact
  <1>4. Processed(s0) \in SUBSET (1..InputChunks[s0])
    BY Zenon DEF Processed
  <1>5. /\ Cardinality(Processed(s0)) \in Nat
        /\ Cardinality(Processed(s0) \cup {i.chunk}) = Cardinality(Processed(s0)) + 1
        /\ Cardinality(Processed(s0) \cup {i.chunk}) = InputChunks[s0]
             <=> Processed(s0) \cup {i.chunk} = 1..InputChunks[s0]
    <2>1. Processed(s0) \cup {i.chunk} \in SUBSET (1..InputChunks[s0])
      BY <1>2, <1>4, Zenon
    <2>2. InputChunks[s0] \in Nat /\ i.chunk \in (1..InputChunks[s0]) \ Processed(s0)
      BY <1>2, Zenon
    <2>3. /\ Cardinality(Processed(s0)) \in Nat
          /\ Cardinality(Processed(s0) \cup {i.chunk}) = Cardinality(Processed(s0)) + 1
      BY <1>4, <2>2, CardFacts
    <2>4. Cardinality(Processed(s0) \cup {i.chunk}) = InputChunks[s0]
            <=> Processed(s0) \cup {i.chunk} = 1..InputChunks[s0]
      BY <2>1, <2>2, CardFacts, Zenon
    <2>5. QED
      BY <2>3, <2>4, Zenon
  <1>6. /\ seen \in Nat \ {0} /\ last \in Nat
        /\ seen = Cardinality(Processed(s0) \cup {i.chunk})
        /\ last = IF InputChunks[s0] \in Processed(s0) \cup {i.chunk} THEN InputChunks[s0] ELSE 0
    BY <1>1, <1>2, <1>3, <1>5
  <1>7. seen = last <=> Processed(s0) \cup {i.chunk} = 1..InputChunks[s0]
    <2>1. InputChunks[s0] \in 1..InputChunks[s0]
      BY <1>2
    <2>2. QED
      BY <1>2, <1>5, <1>6, <2>1, Zenon
  <1>8. /\ epc'[w] = (IF seen = last THEN "removeOutput" ELSE "emit")
        /\ \A v \in Workers : v # w => epc'[v] = epc[v]
        /\ lastChunkNumber'[s0] = last /\ seenChunks'[s0] = seen
        /\ \A s \in SequenceNumbers : s # s0 =>
             lastChunkNumber'[s] = lastChunkNumber[s] /\ seenChunks'[s] = seenChunks[s]
        /\ lastChunkNumber' \in [SequenceNumbers -> Nat]
        /\ seenChunks' \in [SequenceNumbers -> Nat]
        /\ epc' \in [Workers -> {"idle", "open"} \cup Numbered]
    <2>1. /\ lastChunkNumber \in [SequenceNumbers -> Nat] /\ seenChunks \in [SequenceNumbers -> Nat]
          /\ epc \in [Workers -> {"idle", "open"} \cup Numbered]
      BY Zenon DEF EmitInv, EmitTypeOK
    <2>2. "removeOutput" \in Numbered /\ "emit" \in Numbered
      BY Zenon DEF Numbered, CleaningUp
    <2>3. QED
      BY <1>1, <1>2, <1>6, <2>1, <2>2, Zenon
  <1>9. EmitTypeOK'
    BY <1>1, <1>8, Zenon DEF EmitInv, EmitTypeOK
  <1>10. OneWorker'
    BY <1>1, <1>8, ZenonT(30) DEF EmitInv, OneWorker
  <1>11. ASSUME NEW j PROVE IsProcessed(j)' <=> IsProcessed(j) \/ j = i
    <2>1. i \notin pending
      BY <1>a, <1>1, Zenon DEF EmitInv, OneWorker
    <2>2. \A v \in Workers : v # w => input[v] # i
      BY <1>a, <1>1, Zenon DEF EmitInv, OneWorker
    <2>3. \A v \in Workers : epc'[v] \in Uncounted <=> v # w /\ epc[v] \in Uncounted
      BY <1>8, Zenon DEF Uncounted
    <2>4. QED
      BY <1>a, <1>1, <2>1, <2>2, <2>3, Zenon DEF IsProcessed
  <1>12. \A s \in SequenceNumbers : s # s0 => Processed(s)' = Processed(s)
    BY <1>2, <1>11, InputFacts DEF Processed, InputAt
  <1>13. Processed(s0)' = Processed(s0) \cup {i.chunk}
    <2>1. \A c \in 1..InputChunks[s0] : InputAt(s0, c) = i <=> c = i.chunk
      BY <1>2, InputFacts
    <2>2. QED
      BY <1>2, <1>11, <2>1, Zenon DEF Processed, InputAt
  <1>14. \A s \in SequenceNumbers : LastEmitted(s)' <=> LastEmitted(s)
    BY <1>1, Zenon DEF LastEmitted
  <1>15. \A s : /\ Cleaner(s, CleaningUp)' <=> Cleaner(s, CleaningUp) \/ (s = s0 /\ seen = last)
                /\ Cleaner(s, {"emitLast"})' <=> Cleaner(s, {"emitLast"})
                /\ Cleaner(s, {"removeInput", "emitLast"})' <=> Cleaner(s, {"removeInput", "emitLast"})
    BY <1>a, <1>b, <1>1, <1>8 DEF Cleaner, CleaningUp
  <1>16. OneCleaner'
    <2>1. \A s \in SequenceNumbers :
            Processed(s)' = 1..InputChunks[s] <=> LastEmitted(s)' \/ Cleaner(s, CleaningUp)'
      BY <1>2, <1>7, <1>12, <1>13, <1>14, <1>15, Zenon DEF EmitInv, OneCleaner
    <2>2. \A v \in Workers : v # w /\ epc'[v] \in CleaningUp => epc[v] \in CleaningUp /\ input[v].seq # s0
      BY <1>2, <1>8, Zenon DEF Cleaner
    <2>3. \A v \in Workers : epc'[v] \in CleaningUp => ~LastEmitted(input[v].seq)'
      BY <1>a, <1>b, <1>1, <1>2, <1>8, <2>2 DEF EmitInv, OneCleaner, LastEmitted
    <2>4. \A u, v \in Workers :
            epc'[u] \in CleaningUp /\ epc'[v] \in CleaningUp /\ input[u].seq = input[v].seq => u = v
      BY <1>a, <1>b, <2>2, Zenon DEF EmitInv, OneCleaner
    <2>5. QED
      BY <1>1, <2>1, <2>3, <2>4, Zenon DEF EmitInv, OneCleaner
  <1>17. CountsExact'
    BY <1>2, <1>6, <1>8, <1>12, <1>13, <1>14, <1>15, ZenonT(30) DEF EmitInv, CountsExact
  <1>18. \A v \in Workers : epc'[v] \in Numbered <=> epc[v] \in Numbered
    BY <1>1, <1>8, Zenon DEF Numbered, CleaningUp
  <1>19. \A s : GivenOut(s)' = GivenOut(s)
    BY <1>1, <1>18, Zenon DEF GivenOut, EmittedOf
  <1>20. NumbersExact'
    BY <1>1, <1>14, <1>15, <1>18, <1>19, ZenonT(30) DEF EmitInv, NumbersExact
  <1>21. QED
    BY <1>9, <1>10, <1>16, <1>17, <1>20, Zenon DEF EmitInv
(* A worker that cleans up has the sequence number for itself.              *)
LEMMA CleanerFacts ==
    ASSUME EmitInv, NEW w \in Workers, epc[w] \in CleaningUp
    PROVE  /\ input[w] \in Inputs /\ input[w].seq \in SequenceNumbers
           /\ Processed(input[w].seq) = 1..InputChunks[input[w].seq]
           /\ ~LastEmitted(input[w].seq)
           /\ \A v \in Workers : epc[v] \in CleaningUp /\ input[v].seq = input[w].seq => v = w
  <1>1. input[w] \in Inputs /\ input[w].seq \in SequenceNumbers
    BY InputFacts, Zenon DEF EmitInv, OneWorker, CleaningUp
  <1>2. Cleaner(input[w].seq, CleaningUp)
    BY Zenon DEF Cleaner
  <1>3. QED
    BY <1>1, <1>2, Zenon DEF EmitInv, OneCleaner

(* Erasing the entries of the two maps preserves the invariant              *)
(* (removeOutputState, removeInputState).                                   *)
LEMMA RemoveInv ==
    ASSUME EmitInv, NEW w \in Workers, removeOutputState(w) \/ removeInputState(w)
    PROVE  EmitInv'
  <1>a. PICK s0 : s0 = input[w].seq
    BY Zenon
  <1>1. /\ UNCHANGED <<input, number, full, pending, emitted>>
        /\ \/ /\ epc[w] = "removeOutput" /\ epc' = [epc EXCEPT ![w] = "removeInput"]
              /\ outputChunkNumber' = [outputChunkNumber EXCEPT ![s0] = 0]
              /\ UNCHANGED <<lastChunkNumber, seenChunks>>
           \/ /\ epc[w] = "removeInput" /\ epc' = [epc EXCEPT ![w] = "emitLast"]
              /\ lastChunkNumber' = [lastChunkNumber EXCEPT ![s0] = 0]
              /\ seenChunks' = [seenChunks EXCEPT ![s0] = 0]
              /\ UNCHANGED outputChunkNumber
    BY <1>a, Zenon DEF removeOutputState, removeInputState, Goto, state
  <1>2. epc[w] \in CleaningUp
    BY <1>1, Zenon DEF CleaningUp
  <1>3. /\ s0 \in SequenceNumbers /\ ~LastEmitted(s0)
        /\ \A v \in Workers : epc[v] \in CleaningUp /\ input[v].seq = s0 => v = w
    BY <1>a, <1>2, CleanerFacts, Zenon
  <1>4. /\ epc' \in [Workers -> {"idle", "open"} \cup Numbered]
        /\ lastChunkNumber' \in [SequenceNumbers -> Nat] /\ seenChunks' \in [SequenceNumbers -> Nat]
        /\ outputChunkNumber' \in [SequenceNumbers -> Nat]
        /\ \A v \in Workers : v # w => epc'[v] = epc[v]
        /\ \A s \in SequenceNumbers : s # s0 =>
             /\ lastChunkNumber'[s] = lastChunkNumber[s] /\ seenChunks'[s] = seenChunks[s]
             /\ outputChunkNumber'[s] = outputChunkNumber[s]
        /\ \/ epc[w] = "removeOutput" /\ epc'[w] = "removeInput"
           \/ epc[w] = "removeInput" /\ epc'[w] = "emitLast"
    <2>1. /\ epc \in [Workers -> {"idle", "open"} \cup Numbered]
          /\ lastChunkNumber \in [SequenceNumbers -> Nat] /\ seenChunks \in [SequenceNumbers -> Nat]
          /\ outputChunkNumber \in [SequenceNumbers -> Nat]
      BY Zenon DEF EmitInv, EmitTypeOK
    <2>2. "removeInput" \in Numbered /\ "emitLast" \in Numbered
      BY Zenon DEF Numbered, CleaningUp
    <2>3. CASE epc[w] = "removeOutput"
      <3>1. /\ epc' = [epc EXCEPT ![w] = "removeInput"]
            /\ outputChunkNumber' = [outputChunkNumber EXCEPT ![s0] = 0]
            /\ UNCHANGED <<lastChunkNumber, seenChunks>>
        BY <1>1, <2>3, Zenon
      <3>2. /\ epc' \in [Workers -> {"idle", "open"} \cup Numbered]
            /\ epc'[w] = "removeInput" /\ \A v \in Workers : v # w => epc'[v] = epc[v]
        BY <2>1, <2>2, <3>1, Zenon
      <3>3. /\ outputChunkNumber' \in [SequenceNumbers -> Nat]
            /\ \A s \in SequenceNumbers : s # s0 => outputChunkNumber'[s] = outputChunkNumber[s]
        BY <1>3, <2>1, <3>1, Zenon
      <3>4. QED
        BY <2>1, <2>3, <3>1, <3>2, <3>3, Zenon
    <2>4. CASE epc[w] = "removeInput"
      <3>1. /\ epc' = [epc EXCEPT ![w] = "emitLast"]
            /\ lastChunkNumber' = [lastChunkNumber EXCEPT ![s0] = 0]
            /\ seenChunks' = [seenChunks EXCEPT ![s0] = 0]
            /\ UNCHANGED outputChunkNumber
        BY <1>1, <2>4, Zenon
      <3>2. QED
        BY <1>3, <2>1, <2>2, <2>4, <3>1, Zenon
    <2>5. QED
      BY <1>1, <2>3, <2>4, Zenon
  <1>5. EmitTypeOK'
    BY <1>1, <1>4, Zenon DEF EmitInv, EmitTypeOK
  <1>6. OneWorker'
    BY <1>1, <1>4 DEF EmitInv, OneWorker
  <1>7. \A j : IsProcessed(j)' <=> IsProcessed(j)
    BY <1>1, <1>4, Zenon DEF IsProcessed, Uncounted
  <1>8. \A s \in SequenceNumbers : Processed(s)' = Processed(s)
    BY <1>7, Zenon DEF Processed, InputAt
  <1>9. \A s : LastEmitted(s)' <=> LastEmitted(s)
    BY <1>1, Zenon DEF LastEmitted
  <1>10. \A v \in Workers : /\ epc'[v] \in CleaningUp <=> epc[v] \in CleaningUp
                            /\ epc'[v] \in Numbered <=> epc[v] \in Numbered
    BY <1>4, Zenon DEF CleaningUp, Numbered
  <1>11. \A s : Cleaner(s, CleaningUp)' <=> Cleaner(s, CleaningUp)
    BY <1>1, <1>10, Zenon DEF Cleaner
  <1>12. \A s : s # s0 => /\ Cleaner(s, {"emitLast"})' <=> Cleaner(s, {"emitLast"})
                          /\ Cleaner(s, {"removeInput", "emitLast"})' <=> Cleaner(s, {"removeInput", "emitLast"})
    BY <1>a, <1>1, <1>4, Zenon DEF Cleaner
  <1>13. /\ Cleaner(s0, {"removeInput", "emitLast"})' /\ (Cleaner(s0, {"emitLast"})' <=> epc'[w] = "emitLast")
         /\ (Cleaner(s0, {"removeInput", "emitLast"}) <=> epc[w] = "removeInput") /\ ~Cleaner(s0, {"emitLast"})
    BY <1>a, <1>1, <1>3, <1>4, ZenonT(30) DEF Cleaner, CleaningUp
  <1>14. OneCleaner'
    BY <1>1, <1>8, <1>9, <1>10, <1>11, Zenon DEF EmitInv, OneCleaner
  <1>15. CountsExact'
    <2>1. ASSUME NEW s \in SequenceNumbers, s # s0
          PROVE  IF LastEmitted(s)' \/ Cleaner(s, {"emitLast"})'
                 THEN seenChunks'[s] = 0 /\ lastChunkNumber'[s] = 0
                 ELSE /\ seenChunks'[s] = Cardinality(Processed(s)')
                      /\ lastChunkNumber'[s] = IF InputChunks[s] \in Processed(s)' THEN InputChunks[s] ELSE 0
      BY <1>4, <1>8, <1>9, <1>12, <2>1, Zenon DEF EmitInv, CountsExact
    <2>2. IF LastEmitted(s0)' \/ Cleaner(s0, {"emitLast"})'
          THEN seenChunks'[s0] = 0 /\ lastChunkNumber'[s0] = 0
          ELSE /\ seenChunks'[s0] = Cardinality(Processed(s0)')
               /\ lastChunkNumber'[s0] = IF InputChunks[s0] \in Processed(s0)' THEN InputChunks[s0] ELSE 0
      <3>1. CASE epc[w] = "removeOutput"
        BY <1>1, <1>3, <1>4, <1>8, <1>9, <1>13, <3>1, ZenonT(30) DEF EmitInv, CountsExact
      <3>2. CASE epc[w] = "removeInput"
        BY <1>1, <1>3, <1>4, <1>13, <3>2, Zenon DEF EmitInv, EmitTypeOK
      <3>3. QED
        BY <1>4, <3>1, <3>2, Zenon
    <2>3. QED
      BY <2>1, <2>2, Zenon DEF CountsExact
  <1>16. \A s : GivenOut(s)' = GivenOut(s)
    BY <1>1, <1>10, Zenon DEF GivenOut, EmittedOf
  <1>17. NumbersExact'
    <2>1. ASSUME NEW s \in SequenceNumbers
          PROVE  \E n \in Nat :
             /\ GivenOut(s)' = 1..n
             /\ outputChunkNumber'[s] =
                  IF LastEmitted(s)' \/ Cleaner(s, {"removeInput", "emitLast"})' THEN 0 ELSE n
      <3>1. PICK n \in Nat : /\ GivenOut(s) = 1..n
                             /\ outputChunkNumber[s] =
                                  IF LastEmitted(s) \/ Cleaner(s, {"removeInput", "emitLast"}) THEN 0 ELSE n
        BY Zenon DEF EmitInv, NumbersExact
      <3>2. CASE s = s0
        <4>1. outputChunkNumber'[s0] = 0
          BY <1>1, <1>3, <1>4, <1>13, <3>1, <3>2, Zenon DEF EmitInv, EmitTypeOK
        <4>2. QED
          BY <1>13, <1>16, <3>1, <3>2, <4>1, Zenon
      <3>3. CASE s # s0
        BY <1>4, <1>9, <1>12, <1>16, <3>1, <3>3, ZenonT(30)
      <3>4. QED
        BY <3>2, <3>3, Zenon
    <2>2. QED
      BY <1>1, <1>10, <2>1, Zenon DEF EmitInv, NumbersExact
  <1>18. QED
    BY <1>5, <1>6, <1>14, <1>15, <1>17, Zenon DEF EmitInv

(* Handing a buffer to the next pipeline preserves the invariant            *)
(* (emitBuffer).                                                            *)
LEMMA EmitBufferInv ==
    ASSUME EmitInv, NEW w \in Workers, emitBuffer(w)
    PROVE  EmitInv'
  <1>a. PICK s0, n0 : s0 = input[w].seq /\ n0 = number[w]
    BY Zenon
  <1>b. PICK b0 : b0 = [seq |-> s0, chunk |-> n0, last |-> (epc[w] = "emitLast")]
    BY Zenon
  <1>1. /\ epc[w] \in {"emitFull", "emit", "emitLast"}
        /\ emitted' = emitted \cup {b0}
        /\ number' = [number EXCEPT ![w] = 0]
        /\ \/ epc[w] = "emitFull" /\ epc' = [epc EXCEPT ![w] = "open"] /\ UNCHANGED <<input, full>>
           \/ /\ epc[w] # "emitFull" /\ epc' = [epc EXCEPT ![w] = "idle"]
              /\ input' = [input EXCEPT ![w] = NoInput] /\ full' = [full EXCEPT ![w] = 0]
        /\ UNCHANGED <<outputChunkNumber, lastChunkNumber, seenChunks, pending>>
    BY <1>a, <1>b, Zenon DEF emitBuffer, Goto, state
  <1>2. epc[w] \in Numbered /\ input[w] \in Inputs /\ s0 \in SequenceNumbers
    BY <1>a, <1>1, InputFacts, Zenon DEF EmitInv, OneWorker, Numbered, CleaningUp
  <1>3. n0 \in Nat \ {0}
    <2>1. n0 \in GivenOut(s0)
      BY <1>a, <1>2, Zenon DEF GivenOut
    <2>2. \E n \in Nat : GivenOut(s0) = 1..n
      BY <1>2, Zenon DEF EmitInv, NumbersExact
    <2>3. QED
      BY <2>1, <2>2
  <1>4. /\ b0.seq = s0 /\ b0.chunk = n0 /\ b0.last = (epc[w] = "emitLast")
        /\ b0 \in [seq : SequenceNumbers, chunk : Nat \ {0}, last : BOOLEAN]
    BY <1>b, <1>2, <1>3, Zenon
  <1>5. /\ epc' \in [Workers -> {"idle", "open"} \cup Numbered]
        /\ input' \in [Workers -> Inputs \cup {NoInput}]
        /\ number' \in [Workers -> Nat] /\ full' \in [Workers -> Nat]
        /\ \A v \in Workers : v # w => epc'[v] = epc[v] /\ input'[v] = input[v] /\ number'[v] = number[v]
        /\ \/ epc[w] = "emitFull" /\ epc'[w] = "open" /\ input'[w] = input[w]
           \/ epc[w] \in {"emit", "emitLast"} /\ epc'[w] = "idle" /\ input'[w] = NoInput
    BY <1>1 DEF EmitInv, EmitTypeOK
  <1>6. EmitTypeOK'
    BY <1>1, <1>4, <1>5, Zenon DEF EmitInv, EmitTypeOK
  <1>7. OneWorker'
    BY <1>1, <1>2, <1>5, InputFacts DEF EmitInv, OneWorker
  <1>8. ASSUME NEW j PROVE IsProcessed(j)' <=> IsProcessed(j)
    BY <1>1, <1>5, Zenon DEF IsProcessed, Uncounted
  <1>9. \A s \in SequenceNumbers : Processed(s)' = Processed(s)
    BY <1>8, Zenon DEF Processed, InputAt
  <1>10. \A s : LastEmitted(s)' <=> LastEmitted(s) \/ (s = s0 /\ epc[w] = "emitLast")
    BY <1>1, <1>4, Zenon DEF LastEmitted
  <1>11. \A v \in Workers : epc'[v] \in CleaningUp <=> v # w /\ epc[v] \in CleaningUp
    BY <1>1, <1>5, Zenon DEF CleaningUp
  <1>12. \A v \in Workers : epc'[v] \in Numbered <=> v # w /\ epc[v] \in Numbered
    BY <1>1, <1>5, Zenon DEF Numbered, CleaningUp
  <1>13. ASSUME epc[w] = "emitLast"
         PROVE  /\ Processed(s0) = 1..InputChunks[s0] /\ ~LastEmitted(s0)
                /\ \A v \in Workers : epc[v] \in CleaningUp /\ input[v].seq = s0 => v = w
    BY <1>a, <1>13, CleanerFacts, Zenon DEF CleaningUp
  <1>14. \A s : s # s0 \/ epc[w] # "emitLast" =>
            /\ Cleaner(s, CleaningUp)' <=> Cleaner(s, CleaningUp)
            /\ Cleaner(s, {"emitLast"})' <=> Cleaner(s, {"emitLast"})
            /\ Cleaner(s, {"removeInput", "emitLast"})' <=> Cleaner(s, {"removeInput", "emitLast"})
    BY <1>a, <1>1, <1>5, ZenonT(30) DEF Cleaner, CleaningUp
  <1>15. epc[w] = "emitLast" => Cleaner(s0, {"emitLast"}) /\ Cleaner(s0, {"removeInput", "emitLast"})
    BY <1>a, Zenon DEF Cleaner
  <1>16. OneCleaner'
    <2>1. \A s \in SequenceNumbers :
            Processed(s)' = 1..InputChunks[s] <=> LastEmitted(s)' \/ Cleaner(s, CleaningUp)'
      BY <1>2, <1>9, <1>10, <1>13, <1>14, Zenon DEF EmitInv, OneCleaner
    <2>2. \A v \in Workers : epc'[v] \in CleaningUp => ~LastEmitted(input[v].seq)'
      <3>1. SUFFICES ASSUME NEW v \in Workers, epc'[v] \in CleaningUp PROVE ~LastEmitted(input[v].seq)'
        BY Zenon
      <3>2. v # w /\ epc[v] \in CleaningUp /\ input'[v] = input[v]
        BY <1>5, <1>11, <3>1, Zenon
      <3>3. ~LastEmitted(input[v].seq)
        BY <3>2, Zenon DEF EmitInv, OneCleaner
      <3>4. ~(input[v].seq = s0 /\ epc[w] = "emitLast")
        BY <1>13, <3>2, Zenon
      <3>5. \A b \in emitted' : ~(b.seq = input[v].seq /\ b.last)
        BY <1>1, <1>4, <3>3, <3>4, Zenon DEF LastEmitted
      <3>6. QED
        BY <3>2, <3>5, Zenon DEF LastEmitted
    <2>3. \A u, v \in Workers :
            epc'[u] \in CleaningUp /\ epc'[v] \in CleaningUp /\ input'[u].seq = input'[v].seq => u = v
      BY <1>5, <1>11, Zenon DEF EmitInv, OneCleaner
    <2>4. \A a, b \in emitted' : a.seq = b.seq /\ a.last /\ b.last => a = b
      <3>1. \A a \in emitted : ~(a.seq = s0 /\ a.last /\ b0.last)
        BY <1>4, <1>13, Zenon DEF LastEmitted
      <3>2. QED
        BY <1>1, <1>4, <3>1, ZenonT(30) DEF EmitInv, OneCleaner
    <2>5. QED
      BY <2>1, <2>2, <2>3, <2>4, Zenon DEF OneCleaner
  <1>17. CountsExact'
    <2>1. SUFFICES ASSUME NEW s \in SequenceNumbers
                   PROVE  (LastEmitted(s)' \/ Cleaner(s, {"emitLast"})') <=> (LastEmitted(s) \/ Cleaner(s, {"emitLast"}))
      BY <1>1, <1>9, Zenon DEF EmitInv, CountsExact
    <2>2. QED
      BY <1>10, <1>14, <1>15, Zenon
  <1>18. \A s \in SequenceNumbers : GivenOut(s)' = GivenOut(s)
    <2>1. \A s : {v \in Workers : input'[v].seq = s /\ epc'[v] \in Numbered}
                   = {v \in Workers : input[v].seq = s /\ epc[v] \in Numbered} \ {w}
      BY <1>5, <1>12, Zenon
    <2>2. \A s : EmittedOf(s)' = IF s = s0 THEN EmittedOf(s) \cup {b0} ELSE EmittedOf(s)
      BY <1>1, <1>4, Zenon DEF EmittedOf
    <2>3. QED
      BY <1>a, <1>2, <1>4, <1>5, <2>1, <2>2, SMTT(30) DEF GivenOut
  <1>19. NumbersExact'
    <2>1. ASSUME NEW s \in SequenceNumbers
          PROVE  (LastEmitted(s)' \/ Cleaner(s, {"removeInput", "emitLast"})')
                   <=> (LastEmitted(s) \/ Cleaner(s, {"removeInput", "emitLast"}))
      BY <1>10, <1>14, <1>15, Zenon
    <2>2. \A b \in emitted : b.seq = s0 => b.chunk # n0
      BY <1>a, <1>2, Zenon DEF EmitInv, NumbersExact
    <2>3. \A a, b \in emitted' : a.seq = b.seq /\ a.chunk = b.chunk => a = b
      BY <1>1, <1>4, <2>2, ZenonT(30) DEF EmitInv, NumbersExact
    <2>4. \A v \in Workers, b \in emitted' :
            epc'[v] \in Numbered /\ input'[v].seq = b.seq => number'[v] # b.chunk
      <3>1. \A v \in Workers : v # w /\ epc[v] \in Numbered /\ input[v].seq = s0 => number[v] # n0
        BY <1>a, <1>2, Zenon DEF EmitInv, NumbersExact
      <3>2. QED
        BY <1>1, <1>4, <1>5, <1>12, <3>1 DEF EmitInv, NumbersExact
    <2>5. \A u, v \in Workers :
            epc'[u] \in Numbered /\ epc'[v] \in Numbered /\ input'[u].seq = input'[v].seq
              /\ number'[u] = number'[v] => u = v
      BY <1>5, <1>12, ZenonT(30) DEF EmitInv, NumbersExact
    <2>6. \A s \in SequenceNumbers :
          \E n \in Nat :
             /\ GivenOut(s)' = 1..n
             /\ outputChunkNumber'[s] =
                  IF LastEmitted(s)' \/ Cleaner(s, {"removeInput", "emitLast"})' THEN 0 ELSE n
      BY <1>1, <1>18, <2>1, Zenon DEF EmitInv, NumbersExact
    <2>7. QED
      BY <2>3, <2>4, <2>5, <2>6, Zenon DEF NumbersExact
  <1>20. QED
    BY <1>6, <1>7, <1>16, <1>17, <1>19, Zenon DEF EmitInv
(* Every step of the pipeline preserves the invariant: a worker of the emit *)
(* operator takes one, or the collector does.                               *)
LEMMA EmitNextInv == EmitInv /\ [PipelineNext]_pipelineVars => EmitInv'
  <1>1. SUFFICES ASSUME EmitInv, [PipelineNext]_pipelineVars PROVE EmitInv'
    BY Zenon
  <1>2. CASE UNCHANGED emitVars
    <2>1. UNCHANGED <<outputChunkNumber, lastChunkNumber, seenChunks, epc, input, number, full, pending, emitted>>
      BY <1>2, Zenon DEF emitVars, state
    <2>2. /\ \A s : Processed(s)' = Processed(s)
          /\ \A s : LastEmitted(s)' <=> LastEmitted(s)
          /\ \A s, L : Cleaner(s, L)' <=> Cleaner(s, L)
          /\ \A s : GivenOut(s)' = GivenOut(s)
      BY <2>1, Zenon DEF Processed, IsProcessed, InputAt, LastEmitted, Cleaner, GivenOut, EmittedOf
    <2>3. EmitTypeOK' /\ OneWorker'
      BY <1>1, <2>1, Zenon DEF EmitInv, EmitTypeOK, OneWorker
    <2>4. OneCleaner'
      BY <1>1, <2>1 DEF EmitInv, OneCleaner, Processed, IsProcessed, InputAt, LastEmitted, Cleaner
    <2>5. CountsExact'
      BY <1>1, <2>1, <2>2, Zenon DEF EmitInv, CountsExact
    <2>6. NumbersExact'
      BY <1>1, <2>1, <2>2, Zenon DEF EmitInv, NumbersExact
    <2>7. QED
      BY <2>3, <2>4, <2>5, <2>6, Zenon DEF EmitInv
  <1>3. CASE \E w \in Workers : EmitStep(w)
    BY <1>1, <1>3, OpenInv, NumberInv, ProcessInv, RemoveInv, EmitBufferInv, Zenon DEF EmitStep
  <1>4. QED
    BY <1>1, <1>2, <1>3, Zenon DEF PipelineNext, Upstream, Downstream, pipelineVars

-----------------------------------------------------------------------------
(* The invariant of the emit operator holds in every reachable state of the *)
(* two pipelines.                                                           *)
THEOREM EmitInvariance == PipelineSpec => []EmitInv
  <1>1. PipelineInit => EmitInv
    BY EmitInitInv, Zenon DEF PipelineInit
  <1>2. QED
    BY <1>1, EmitNextInv, PTL DEF PipelineSpec

(* Once no worker is busy and no input is left, every chunk of a sequence   *)
(* number was counted, and somebody emitted its last buffer.                *)
LEMMA FinishedFacts ==
    ASSUME EmitInv, EmitFinished
    PROVE  \A s \in SequenceNumbers :
              LastEmitted(s) /\ GivenOut(s) = {b.chunk : b \in EmittedOf(s)}
  <1>1. \A v \in Workers : epc[v] \notin Uncounted /\ epc[v] \notin CleaningUp /\ epc[v] \notin Numbered
    BY Zenon DEF EmitFinished, Uncounted, CleaningUp, Numbered
  <1>2. \A s \in SequenceNumbers : Processed(s) = 1..InputChunks[s]
    BY <1>1, Zenon DEF Processed, IsProcessed, EmitFinished
  <1>3. \A s : ~Cleaner(s, CleaningUp)
    BY <1>1, Zenon DEF Cleaner
  <1>4. \A s \in SequenceNumbers : LastEmitted(s)
    BY <1>2, <1>3, Zenon DEF EmitInv, OneCleaner
  <1>5. \A s : {v \in Workers : input[v].seq = s /\ epc[v] \in Numbered} = {}
    BY <1>1, Zenon
  <1>6. QED
    BY <1>4, <1>5, Zenon DEF GivenOut

(* The buffers of a sequence number are as many as their chunk numbers.     *)
LEMMA EmittedCount ==
    ASSUME EmitInv, NEW s \in SequenceNumbers, NEW n \in Nat,
           {b.chunk : b \in EmittedOf(s)} = 1..n
    PROVE  Cardinality(EmittedOf(s)) = n
  <1>1. PICK E : E = EmittedOf(s)
    BY Zenon
  <1> DEFINE f == [b \in E |-> b.chunk]
  <1>2. \A a, b \in E : a.chunk = b.chunk => a = b
    BY <1>1 DEF EmitInv, NumbersExact, EmittedOf
  <1>a. \A b \in E : b.chunk \in 1..n
    BY <1>1, Zenon
  <1>b. f \in [E -> 1..n] /\ \A b \in E : f[b] = b.chunk
    BY <1>a, Zenon
  <1>3. f \in Injection(E, 1..n)
    BY <1>2, <1>b, Zenon DEF Injection, IsInjective
  <1>4. f \in Surjection(E, 1..n)
    BY <1>1, <1>b, Zenon DEF Surjection
  <1>5. IsFiniteSet(1..n) /\ Cardinality(1..n) = n
    BY FS_Interval
  <1>6. QED
    BY <1>1, <1>3, <1>4, <1>5, FS_Injection, Zenon

(* However the workers interleave, no chunk number is given out twice, and  *)
(* when they are done the output of every sequence number is numbered       *)
(* without a gap and has exactly one last buffer.                           *)
THEOREM EmittedComplete == PipelineSpec => []ChunksComplete
  <1>1. ASSUME EmitInv PROVE ChunksComplete
    <2>1. \A a, b \in emitted : a.seq = b.seq /\ (a.chunk = b.chunk \/ (a.last /\ b.last)) => a = b
      BY <1>1, Zenon DEF EmitInv, NumbersExact, OneCleaner
    <2>2. ASSUME EmitFinished, NEW s \in SequenceNumbers
          PROVE  /\ {b.chunk : b \in EmittedOf(s)} = 1..Cardinality(EmittedOf(s))
                 /\ \E b \in EmittedOf(s) : b.last
      <3>1. PICK n \in Nat : GivenOut(s) = 1..n
        BY <1>1, Zenon DEF EmitInv, NumbersExact
      <3>2. LastEmitted(s) /\ GivenOut(s) = {b.chunk : b \in EmittedOf(s)}
        BY <1>1, <2>2, FinishedFacts, Zenon
      <3>3. Cardinality(EmittedOf(s)) = n
        BY <1>1, <3>1, <3>2, EmittedCount, Zenon
      <3>4. \E b \in EmittedOf(s) : b.last
        BY <3>2, Zenon DEF LastEmitted, EmittedOf
      <3>5. QED
        BY <3>1, <3>2, <3>3, <3>4, Zenon
    <2>3. QED
      BY <2>1, <2>2, Zenon DEF ChunksComplete
  <1>2. QED
    BY <1>1, EmitInvariance, PTL

(* Whoever is told to clean up the state of a sequence number is the last   *)
(* to need it, and no state is left behind when the workers are done.       *)
THEOREM CleanupSafe == PipelineSpec => []CleanupIsLast
  <1>1. ASSUME EmitInv PROVE CleanupIsLast
    <2>1. ASSUME NEW w \in Workers, epc[w] \in CleaningUp
          PROVE  /\ \A i \in pending : i.seq # input[w].seq
                 /\ \A v \in Workers \ {w} : input[v].seq = input[w].seq => epc[v] = "emit"
      <3>1. PICK s : s = input[w].seq
        BY Zenon
      <3>2. /\ s \in SequenceNumbers /\ Processed(s) = 1..InputChunks[s]
            /\ \A v \in Workers : epc[v] \in CleaningUp /\ input[v].seq = s => v = w
        BY <1>1, <2>1, <3>1, CleanerFacts, Zenon
      <3>3. \A i \in Inputs : i.seq = s => IsProcessed(i)
        <4>1. \A c \in 1..InputChunks[s] : IsProcessed(InputAt(s, c))
          BY <3>2, Zenon DEF Processed
        <4>2. QED
          BY <4>1, InputFacts
      <3>4. \A i \in pending : i.seq # s
        BY <1>1, <3>3, Zenon DEF EmitInv, EmitTypeOK, IsProcessed
      <3>5. ASSUME NEW v \in Workers, v # w, input[v].seq = s PROVE epc[v] = "emit"
        <4>1. input[v] \in Inputs /\ epc[v] # "idle"
          BY <1>1, <3>2, <3>5, InputFacts, Zenon DEF EmitInv, EmitTypeOK, OneWorker
        <4>2. epc[v] \notin Uncounted
          BY <3>3, <3>5, <4>1, Zenon DEF IsProcessed
        <4>3. epc[v] \in {"idle", "open"} \cup Numbered
          BY <1>1, Zenon DEF EmitInv, EmitTypeOK
        <4>4. QED
          BY <3>2, <3>5, <4>1, <4>2, <4>3, Zenon DEF Numbered, Uncounted
      <3>6. QED
        BY <3>1, <3>4, <3>5, Zenon
    <2>2. ASSUME EmitFinished, NEW s \in SequenceNumbers
          PROVE  outputChunkNumber[s] = 0 /\ lastChunkNumber[s] = 0 /\ seenChunks[s] = 0
      BY <1>1, <2>2, FinishedFacts, Zenon DEF EmitInv, CountsExact, NumbersExact
    <2>3. QED
      BY <2>1, <2>2, Zenon DEF CleanupIsLast, CleaningUp
  <1>2. QED
    BY <1>1, EmitInvariance, PTL
=============================================================================
