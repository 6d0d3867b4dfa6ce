------------------------- MODULE RadioRxQueueProofs -------------------------
(***************************************************************************)
(* Proofs about the receive queue, for every size of the ring and however  *)
(* the two threads interleave: type correctness, that no packet is left    *)
(* without a token, and that packets come whole and in order until the     *)
(* ring overflows.                                                         *)
(***************************************************************************)
EXTENDS RadioRxQueue, TLAPS

(***************************************************************************)
(* The ring between two positions w and c.                                 *)
(***************************************************************************)
Filled(w, c) == IF w < c THEN w + (QueueSize - c) ELSE w - c

\* How far slot s is behind position c.
Distance(c, s) == IF s >= c THEN s - c ELSE s - c + QueueSize

LEMMA Positions ==
  ASSUME NEW s \in Slot
  PROVE  /\ After(s) \in Slot
         /\ \A t \in Slot : After(s) = After(t) => s = t
BY QueueAssumption DEF Slot, After

LEMMA Filling ==
  ASSUME NEW w \in Slot, NEW c \in Slot
  PROVE  /\ Filled(w, c) \in Nat
         /\ Filled(w, c) = 0 <=> w = c
         /\ Distance(c, w) = Filled(w, c)
         /\ After(w) # c => Filled(After(w), c) = Filled(w, c) + 1
         /\ After(w) = c => Filled(After(w), After(c)) = Filled(w, c)
         /\ c # w => Filled(w, After(c)) = Filled(w, c) - 1
         /\ c # w /\ After(c) = w => Filled(w, c) = 1
BY QueueAssumption DEF Slot, After, Filled, Distance

LEMMA Distances ==
  ASSUME NEW w \in Slot, NEW c \in Slot, NEW s \in Slot
  PROVE  /\ Distance(c, s) \in Nat
         /\ Distance(c, c) = 0
         /\ \A t \in Slot : Distance(c, s) = Distance(c, t) => s = t
         /\ Distance(After(c), s) < Filled(w, c) - 1 =>
              s # c /\ Distance(c, s) = Distance(After(c), s) + 1
         /\ After(w) = c /\ Distance(After(c), s) < Filled(w, c) /\ s # w =>
              Distance(c, s) < Filled(w, c)
BY QueueAssumption DEF Slot, After, Filled, Distance

LEMMA CountIsFilled == Count = Filled(write, consume)
BY DEF Count, Filled

-----------------------------------------------------------------------------
(***************************************************************************)
(* The inductive invariant.                                                *)
(***************************************************************************)
Held    == IF rpc = "claim" THEN 1 ELSE 0
Pending == IF wpc = "idle" THEN 0 ELSE 1
Taken   == IF rpc \in {"fields", "copy", "copying"} THEN 1 ELSE 0

\* The slot being added is the newest of the ring; every other one has been
\* written since the start.
SlotsWritten ==
  /\ wpc # "idle" => write = After(wslot) /\ arrivals > 0
  /\ wpc \in {"copy", "copying", "post"} => fields[wslot] = arrivals
  /\ wpc = "post" => bytes[wslot] = arrivals
  /\ \A s \in Slot : Distance(consume, s) < Filled(write, consume) =>
       fields[s] # None \/ (wpc # "idle" /\ s = wslot)

\* Before the first overflow there are just as many tokens as packets, the
\* slots hold the packets by their numbers, and the one taken is left alone.
Orderly ==
  /\ semaphore + Held + Pending = Filled(write, consume)
  /\ wpc # "idle" => consume # write
  /\ \A s \in Slot :
       Distance(consume, s) < Filled(write, consume) /\ ~ (wpc # "idle" /\ s = wslot) =>
         /\ fields[s] = arrivals - Filled(write, consume) + 1 + Distance(consume, s)
         /\ bytes[s] = fields[s]
  /\ lastTaken + Taken = arrivals - Filled(write, consume)
  /\ Taken = 1 => /\ consume = After(rslot)
                  /\ fields[rslot] = lastTaken + 1
                  /\ bytes[rslot] = lastTaken + 1
  /\ rpc \in {"copy", "copying"} => got.fields = lastTaken + 1
  /\ rpc = "copying" => got.bytes = lastTaken + 1

Tokens == semaphore + Held + Pending >= Filled(write, consume)

Inv == TypeOK /\ SlotsWritten /\ Tokens /\ (~ overflowed => Orderly)

LEMMA InitInv == Init => Inv
<1> SUFFICES ASSUME Init PROVE Inv
  OBVIOUS
<1> USE QueueAssumption DEF Init, None, Held, Pending, Taken
<1>1. 0 \in Slot
  BY DEF Slot
<1>2. Filled(write, consume) = 0
  BY <1>1, Filling
<1>3. TypeOK
  BY <1>1 DEF TypeOK, Number
<1>4. \A s \in Slot : Distance(consume, s) \in Nat
  BY <1>1, Distances
<1> QED
  BY <1>2, <1>3, <1>4 DEF Inv, SlotsWritten, Tokens, Orderly

LEMMA NextType == TypeOK /\ [Next]_vars => TypeOK'
<1> SUFFICES ASSUME TypeOK, [Next]_vars PROVE TypeOK'
  OBVIOUS
<1> USE QueueAssumption DEF TypeOK, Number, None
<1>1. CASE TakeSlot
  BY <1>1, Positions DEF TakeSlot, readerVars
<1>2. CASE Adding
  BY <1>2 DEF Adding, WriteFields, StartCopyIn, EndCopyIn, Post, Posted, readerVars
<1>3. CASE TryWait \/ Claim \/ ClaimNothing
  BY <1>3, Positions DEF TryWait, Claim, ClaimNothing, Consumed, writerVars
<1>4. CASE ReadFields \/ StartCopyOut
  BY <1>4 DEF ReadFields, StartCopyOut, writerVars
<1>5. CASE HandOver
  BY <1>5 DEF HandOver, writerVars
<1>6. CASE UNCHANGED vars
  BY <1>6 DEF vars, writerVars, readerVars
<1> QED
  BY <1>1, <1>2, <1>3, <1>4, <1>5, <1>6 DEF Next, Taking

LEMMA NextSlotsAndTokens == Inv /\ [Next]_vars => SlotsWritten' /\ Tokens'
<1> SUFFICES ASSUME Inv, [Next]_vars PROVE SlotsWritten' /\ Tokens'
  OBVIOUS
<1> USE QueueAssumption DEF None
<1>0. TypeOK /\ TypeOK' /\ SlotsWritten /\ Tokens
  BY NextType DEF Inv
<1>a. /\ write \in Slot /\ consume \in Slot /\ wslot \in Slot /\ semaphore \in Nat
      /\ fields \in [Slot -> Nat] /\ bytes \in [Slot -> Number] /\ arrivals \in Nat
  BY <1>0 DEF TypeOK
<1>1. CASE TakeSlot
  <2>1. /\ write' = After(write) /\ wslot' = write /\ arrivals' = arrivals + 1
        /\ wpc = "idle" /\ wpc' = "fields" /\ fields' = fields
        /\ rpc' = rpc /\ semaphore' = semaphore
        /\ consume' = IF After(write) = consume THEN After(consume) ELSE consume
    BY <1>1 DEF TakeSlot, readerVars, IsFull
  <2>2. Filled(write', consume') <= Filled(write, consume) + 1
    BY <1>a, <2>1, Filling
  <2>3. ASSUME NEW s \in Slot, Distance(consume', s) < Filled(write', consume')
        PROVE  fields'[s] # None \/ s = wslot'
    <3> SUFFICES ASSUME s # write PROVE Distance(consume, s) < Filled(write, consume)
      BY <1>0, <2>1 DEF SlotsWritten
    <3>1. CASE After(write) = consume
      BY <1>a, <2>1, <2>3, <3>1, Filling, Distances
    <3>2. CASE After(write) # consume
      BY <1>a, <2>1, <2>3, <3>2, Filling, Distances
    <3> QED
      BY <3>1, <3>2
  <2> QED
    BY <1>0, <1>a, <2>1, <2>2, <2>3, Filling DEF SlotsWritten, Tokens, Held, Pending
<1>2. CASE WriteFields
  BY <1>0, <1>a, <1>2 DEF WriteFields, readerVars, SlotsWritten, Tokens, Held, Pending
<1>3. CASE StartCopyIn
  BY <1>0, <1>a, <1>3 DEF StartCopyIn, readerVars, SlotsWritten, Tokens, Held, Pending
<1>4. CASE EndCopyIn
  BY <1>0, <1>a, <1>4 DEF EndCopyIn, readerVars, SlotsWritten, Tokens, Held, Pending
<1>5. CASE Post
  BY <1>0, <1>a, <1>5 DEF Post, Posted, readerVars, SlotsWritten, Tokens, Held, Pending
<1>6. CASE TryWait
  BY <1>0, <1>a, <1>6, Filling DEF TryWait, writerVars, SlotsWritten, Tokens, Held, Pending
<1>7. CASE Claim
  <2>1. /\ write' = write /\ consume' = After(consume) /\ consume # write
        /\ UNCHANGED <<wpc, wslot, arrivals, fields, bytes, semaphore>>
        /\ rpc = "claim" /\ rpc' = "fields"
    BY <1>7 DEF Claim, Consumed, writerVars
  <2>2. Filled(write', consume') = Filled(write, consume) - 1
    BY <1>a, <2>1, Filling
  <2>3. ASSUME NEW s \in Slot, Distance(consume', s) < Filled(write', consume')
        PROVE  Distance(consume, s) < Filled(write, consume)
    <3>1. Distance(After(consume), s) < Filled(write, consume) - 1
      BY <2>1, <2>2, <2>3
    <3>2. Distance(consume, s) = Distance(After(consume), s) + 1
      BY <1>a, <3>1, Distances
    <3>3. Distance(After(consume), s) \in Nat /\ Filled(write, consume) \in Nat
      BY <1>a, Positions, Filling, Distances
    <3> QED
      BY <3>1, <3>2, <3>3
  <2> QED
    BY <1>0, <1>a, <2>1, <2>2, <2>3, Filling DEF SlotsWritten, Tokens, Held, Pending
<1>8. CASE ClaimNothing
  <2>1. /\ UNCHANGED <<write, consume, wpc, wslot, arrivals, fields, bytes, semaphore>>
        /\ rpc = "claim" /\ rpc' = "idle"
        /\ consume = write \/ fields[consume] = None
    BY <1>8 DEF ClaimNothing, writerVars
  <2>2. CASE consume = write
    BY <1>0, <1>a, <2>1, <2>2, Filling DEF SlotsWritten, Tokens, Held, Pending
  <2>3. CASE consume # write
    <3>1. Distance(consume, consume) < Filled(write, consume)
      BY <1>a, <2>3, Filling, Distances
    <3>2. wpc # "idle" /\ consume = wslot
      BY <1>0, <1>a, <2>1, <2>3, <3>1 DEF SlotsWritten
    <3>3. Filled(write, consume) = 1
      BY <1>0, <1>a, <2>3, <3>2, Filling DEF SlotsWritten
    <3> QED
      BY <1>0, <1>a, <2>1, <3>2, <3>3 DEF SlotsWritten, Tokens, Held, Pending
  <2> QED
    BY <2>2, <2>3
<1>9. CASE ReadFields
  BY <1>0, <1>a, <1>9 DEF ReadFields, writerVars, SlotsWritten, Tokens, Held, Pending
<1>10. CASE StartCopyOut
  BY <1>0, <1>a, <1>10 DEF StartCopyOut, writerVars, SlotsWritten, Tokens, Held, Pending
<1>11. CASE HandOver
  BY <1>0, <1>a, <1>11 DEF HandOver, writerVars, SlotsWritten, Tokens, Held, Pending
<1>12. CASE UNCHANGED vars
  BY <1>0, <1>12 DEF vars, writerVars, readerVars, SlotsWritten, Tokens, Held, Pending
<1> QED
  BY <1>1, <1>2, <1>3, <1>4, <1>5, <1>6, <1>7, <1>8, <1>9, <1>10, <1>11, <1>12
     DEF Next, Adding, Taking

LEMMA NextOrderly ==
  Inv /\ [Next]_vars /\ ~ overflowed' => Orderly'
<1> SUFFICES ASSUME Inv, [Next]_vars, ~ overflowed' PROVE Orderly'
  OBVIOUS
<1> USE QueueAssumption DEF None
<1>0. TypeOK /\ SlotsWritten /\ Tokens
  BY DEF Inv
<1>a. /\ write \in Slot /\ consume \in Slot /\ wslot \in Slot /\ rslot \in Slot
      /\ semaphore \in Nat /\ arrivals \in Nat /\ lastTaken \in Number
      /\ fields \in [Slot -> Nat] /\ bytes \in [Slot -> Number]
      /\ got \in [fields : Nat, bytes : Number]
  BY <1>0 DEF TypeOK
<1>b. ~ overflowed
  BY <1>0 DEF TypeOK, Next, TakeSlot, Adding, WriteFields, StartCopyIn, EndCopyIn, Post, Taking,
     TryWait, Claim, ClaimNothing, ReadFields, StartCopyOut, HandOver, vars
<1>c. Orderly
  BY <1>b DEF Inv
<1>d. ASSUME wpc # "idle"
      PROVE  /\ write = After(wslot)
             /\ rslot # wslot \/ Taken = 0
             /\ arrivals \in Nat
  BY <1>0, <1>a, <1>c, <1>d DEF SlotsWritten, Orderly, Taken
<1>1. CASE TakeSlot
  <2>1. /\ write' = After(write) /\ wslot' = write /\ arrivals' = arrivals + 1
        /\ wpc = "idle" /\ wpc' = "fields" /\ fields' = fields /\ bytes' = bytes
        /\ UNCHANGED <<rpc, rslot, got, lastTaken, semaphore>>
        /\ After(write) # consume /\ consume' = consume
    BY <1>1, <1>b DEF TakeSlot, readerVars, IsFull
  <2>2. Filled(write', consume') = Filled(write, consume) + 1
    BY <1>a, <2>1, Filling
  <2>3. Filled(write, consume) \in Nat
    BY <1>a, Filling
  <2>4. ASSUME NEW s \in Slot, s # write, Distance(consume, s) < Filled(write, consume) + 1
        PROVE  Distance(consume, s) < Filled(write, consume)
    BY <1>a, <2>3, <2>4, Filling, Distances
  <2> QED
    BY <1>a, <1>c, <2>1, <2>2, <2>3, <2>4 DEF Orderly, Held, Pending, Taken, Number, Mixed
<1>2. CASE WriteFields
  BY <1>0, <1>a, <1>c, <1>d, <1>2
     DEF WriteFields, readerVars, Orderly, SlotsWritten, Held, Pending, Taken
<1>3. CASE StartCopyIn
  BY <1>0, <1>a, <1>c, <1>d, <1>3
     DEF StartCopyIn, readerVars, Orderly, SlotsWritten, Held, Pending, Taken
<1>4. CASE EndCopyIn
  BY <1>0, <1>a, <1>c, <1>d, <1>4
     DEF EndCopyIn, readerVars, Orderly, SlotsWritten, Held, Pending, Taken
<1>5. CASE Post
  <2>1. /\ wpc = "post" /\ wpc' = "idle" /\ semaphore' = semaphore + 1
        /\ UNCHANGED <<write, consume, fields, bytes, wslot, arrivals, rpc, rslot, got, lastTaken>>
    BY <1>5 DEF Post, Posted, readerVars
  <2>2. fields[wslot] = arrivals /\ bytes[wslot] = arrivals /\ write = After(wslot)
    BY <1>0, <2>1 DEF SlotsWritten
  <2>3. Distance(consume, wslot) = Filled(write, consume) - 1
    BY <1>a, <1>c, <2>1, <2>2, Filling, Positions DEF Orderly, Distance, Filled, After, Slot
  <2>4. Filled(write, consume) \in Nat
    BY <1>a, Filling
  <2> QED
    BY <1>a, <1>c, <2>1, <2>2, <2>3, <2>4 DEF Orderly, Held, Pending, Taken
<1>6. CASE TryWait
  BY <1>a, <1>c, <1>6 DEF TryWait, writerVars, Orderly, Held, Pending, Taken
<1>7. CASE Claim
  <2>1. /\ write' = write /\ consume' = After(consume) /\ consume # write /\ rslot' = consume
        /\ UNCHANGED <<wpc, wslot, arrivals, fields, bytes, semaphore, got, lastTaken>>
        /\ rpc = "claim" /\ rpc' = "fields"
    BY <1>7 DEF Claim, Consumed, writerVars
  <2>2. Filled(write', consume') = Filled(write, consume) - 1
    BY <1>a, <2>1, Filling
  <2>3. Filled(write, consume) \in Nat /\ Filled(write, consume) # 0
    BY <1>a, <2>1, Filling
  <2>4. wpc # "idle" => consume # wslot /\ consume' # write'
    <3> SUFFICES ASSUME wpc # "idle" PROVE consume # wslot /\ consume' # write'
      OBVIOUS
    <3>1. semaphore + 1 + 1 = Filled(write, consume)
      BY <1>c, <2>1 DEF Orderly, Held, Pending
    <3>2. Filled(write, consume) # 1
      BY <1>a, <3>1
    <3> QED
      BY <1>a, <1>d, <2>1, <3>2, Filling
  <2>5. ASSUME NEW s \in Slot, Distance(consume', s) < Filled(write', consume')
        PROVE  /\ Distance(consume, s) < Filled(write, consume)
               /\ Distance(consume', s) = Distance(consume, s) - 1
    <3>1. Distance(After(consume), s) < Filled(write, consume) - 1
      BY <2>1, <2>2, <2>5
    <3>2. Distance(consume, s) = Distance(After(consume), s) + 1
      BY <1>a, <3>1, Distances
    <3>3. Distance(After(consume), s) \in Nat
      BY <1>a, Positions, Distances
    <3> QED
      BY <2>1, <2>3, <3>1, <3>2, <3>3
  <2>6. fields[consume] = lastTaken + 1 /\ bytes[consume] = lastTaken + 1
    <3>1. Distance(consume, consume) = 0
      BY <1>a, Distances
    <3>2. fields[consume] = arrivals - Filled(write, consume) + 1 + 0
          /\ bytes[consume] = fields[consume]
      BY <1>a, <1>c, <2>3, <2>4, <3>1 DEF Orderly
    <3>3. lastTaken = arrivals - Filled(write, consume)
      BY <1>a, <1>c, <2>1 DEF Orderly, Taken, Number, Mixed
    <3> QED
      BY <1>a, <2>3, <3>2, <3>3
  <2>7. semaphore' + Held' + Pending' = Filled(write', consume')
    BY <1>a, <1>c, <2>1, <2>2, <2>3 DEF Orderly, Held, Pending
  <2>8. ASSUME NEW s \in Slot, Distance(consume', s) < Filled(write', consume'),
               ~ (wpc' # "idle" /\ s = wslot')
        PROVE  /\ fields'[s] = arrivals' - Filled(write', consume') + 1 + Distance(consume', s)
               /\ bytes'[s] = fields'[s]
    <3>1. /\ fields[s] = arrivals - Filled(write, consume) + 1 + Distance(consume, s)
          /\ bytes[s] = fields[s]
      BY <1>c, <2>1, <2>5, <2>8 DEF Orderly
    <3>2. Distance(consume, s) \in Nat
      BY <1>a, Distances
    <3> QED
      BY <1>a, <2>1, <2>2, <2>3, <2>5, <2>8, <3>1, <3>2
  <2>9. lastTaken' + Taken' = arrivals' - Filled(write', consume')
    BY <1>a, <1>c, <2>1, <2>2, <2>3 DEF Orderly, Taken, Number, Mixed
  <2> QED
    BY <2>1, <2>4, <2>6, <2>7, <2>8, <2>9 DEF Orderly
<1>8. CASE ClaimNothing
  <2>1. rpc = "claim" /\ (consume = write \/ fields[consume] = None)
    BY <1>8 DEF ClaimNothing
  <2>2. semaphore + 1 + Pending = Filled(write, consume)
    BY <1>c, <2>1 DEF Orderly, Held
  <2>3. consume # write /\ Filled(write, consume) \in Nat
    BY <1>a, <2>2, Filling DEF Pending
  <2>4. Distance(consume, consume) < Filled(write, consume)
    BY <1>a, <2>3, Filling, Distances
  <2>5. wpc # "idle" /\ consume = wslot
    BY <1>0, <1>a, <2>1, <2>3, <2>4 DEF SlotsWritten
  <2>6. Filled(write, consume) = 1
    BY <1>a, <1>d, <2>3, <2>5, Filling
  <2> QED
    BY <1>a, <2>2, <2>5, <2>6 DEF Pending
<1>9. CASE ReadFields
  BY <1>a, <1>c, <1>9 DEF ReadFields, writerVars, Orderly, Held, Pending, Taken
<1>10. CASE StartCopyOut
  BY <1>a, <1>c, <1>10 DEF StartCopyOut, writerVars, Orderly, Held, Pending, Taken
<1>11. CASE HandOver
  BY <1>a, <1>c, <1>11 DEF HandOver, writerVars, Orderly, Held, Pending, Taken
<1>12. CASE UNCHANGED vars
  BY <1>c, <1>12 DEF vars, writerVars, readerVars, Orderly, Held, Pending, Taken
<1> QED
  BY <1>1, <1>2, <1>3, <1>4, <1>5, <1>6, <1>7, <1>8, <1>9, <1>10, <1>11, <1>12
     DEF Next, Adding, Taking

LEMMA NextInv == Inv /\ [Next]_vars => Inv'
BY NextType, NextSlotsAndTokens, NextOrderly DEF Inv

-----------------------------------------------------------------------------
\* The positions, the slots and both threads keep their types.
THEOREM TypeCorrect == Spec => []TypeOK
<1>1. Inv => TypeOK
  BY DEF Inv
<1> QED
  BY <1>1, InitInv, NextInv, PTL DEF Spec

\* No packet is left in the ring without a token that will fetch it.
THEOREM TokensCorrect == Spec => []TokensCoverPackets
<1>1. Inv => TokensCoverPackets
  BY CountIsFilled DEF Inv, Tokens, TokensCoverPackets, Held, Pending
<1> QED
  BY <1>1, InitInv, NextInv, PTL DEF Spec

\* Until the ring overflows the main loop gets every packet whole, once and
\* in the order of arrival.
THEOREM OrderCorrect == Spec => InOrderUntilOverflow
<1>1. Inv /\ [Next]_vars =>
        [HandOver /\ ~ overflowed =>
           got'.fields = got'.bytes /\ got'.bytes = lastTaken + 1]_vars
  <2> SUFFICES ASSUME Inv, HandOver, ~ overflowed
               PROVE  got'.fields = got'.bytes /\ got'.bytes = lastTaken + 1
    BY DEF vars
  <2> QED
    BY DEF Inv, TypeOK, Orderly, HandOver, Taken
<1> QED
  BY <1>1, InitInv, NextInv, PTL DEF Spec, InOrderUntilOverflow

=============================================================================
