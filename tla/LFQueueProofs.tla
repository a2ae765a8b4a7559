--------------------------- MODULE LFQueueProofs ---------------------------
(***************************************************************************)
(* Proofs about LFQueue for every capacity and every high-water mark no    *)
(* larger than the capacity: with one producer the ring buffer is a FIFO   *)
(* queue without data races.  With the mark that holds for good; for the   *)
(* engine, which checks nothing, and the publisher, which reads a slot it  *)
(* has released, it holds until the engine comes within a slot of filling  *)
(* the ring.                                                               *)
(***************************************************************************)
EXTENDS LFQueue, SequenceTheorems, TLAPS

(* What the users of the queue must guarantee. *)
SafeMark == HighWater <= Capacity
SingleProducer == \A p, q \in Producers : p = q

(* Wrap(i), for an index at most one turn ahead, without the division. *)
Pos(i) == IF i < Capacity THEN i ELSE i - Capacity

(* How far the write index is ahead of the read index: the elements        *)
(* counted, one that is indexed and not counted yet, minus one that is     *)
(* released and not discounted yet.                                        *)
indexedNotCounted == IF \E p \in Producers : wpc[p] = "count" THEN 1 ELSE 0
ahead == num_elements_ + indexedNotCounted - (IF rpc = "count" THEN 1 ELSE 0)

(* The size below which every write so far has begun, unless overrun.      *)
Mark == IF publisher THEN Capacity - 1 ELSE HighWater

(* The inductive invariant, in named parts. *)
CountInv ==
  /\ num_elements_ <= Mark
  /\ \A p \in Producers : wpc[p] # "idle" => num_elements_ < Mark

IndexInv ==
  /\ ahead \in 0 .. Capacity
  /\ next_write_index_ = Pos(next_read_index_ + ahead)

WriterInv ==
  \A p \in Producers :
    /\ wpc[p] \in {"write", "load"} => wslot[p] = next_write_index_
    /\ wpc[p] = "store" => wslot[p] = next_write_index_ /\ wload[p] = next_write_index_
    /\ wpc[p] \in {"load", "store"} => store_[next_write_index_] \in Values

ReaderInv ==
  /\ rpc \in {"read", "advance"} => rslot = next_read_index_
  /\ rpc \in {"count", "late"} => next_read_index_ = Pos(rslot + 1)
  /\ rpc \in {"advance", "count", "late"} => copied = store_[rslot]
  /\ rpc = "late" => publisher

FilledInv == \A k \in 0 .. ahead - 1 : store_[Pos(next_read_index_ + k)] \in Values

InRoom == CountInv /\ IndexInv /\ WriterInv /\ ReaderInv /\ FilledInv

(* updateReadIndex()'s ASSERT needs no room. *)
TakenInv == rpc \in {"read", "advance", "count"} => num_elements_ # 0

IInv ==
  /\ TypeOK
  /\ TakenInv
  /\ overrun => publisher
  /\ ~overrun => InRoom

-----------------------------------------------------------------------------
(* An index at most one turn ahead wraps by at most one subtraction.       *)
LEMMA WrapIsPos ==
  ASSUME NEW i \in 0 .. 2 * Capacity - 1
  PROVE  Wrap(i) = Pos(i)
<1>1. CASE i < Capacity
  BY <1>1, CapacityAssumption DEF Wrap, Pos
<1>2. CASE i >= Capacity
  BY <1>2, CapacityAssumption DEF Wrap, Pos
<1> QED
  BY <1>1, <1>2, CapacityAssumption

-----------------------------------------------------------------------------
(* The threads start with everything in its type.                          *)
LEMMA InitTypeOK ==
  ASSUME Init PROVE TypeOK
<1>1. publisher \in BOOLEAN /\ overrun \in BOOLEAN
  BY Zenon DEF Init
<1> QED
  BY <1>1, CapacityAssumption DEF Init, TypeOK, Indices, WriterPC, ReaderPC

(* Type correctness: every index stays inside store_, however many         *)
(* producers there are and whatever the high-water mark.                   *)
THEOREM TypeCorrect == Spec => []TypeOK
<1>1. Init => TypeOK
  BY InitTypeOK
<1>2. TypeOK /\ [Next]_vars => TypeOK'
  <2> SUFFICES ASSUME TypeOK, [Next]_vars
               PROVE  TypeOK'
    OBVIOUS
  <2> USE CapacityAssumption DEF TypeOK, Indices, WriterPC, ReaderPC, wvars, rvars, gvars
  <2>1. ASSUME NEW p \in Producers, AwaitRoom(p) \/ NoRoomCheck(p)
        PROVE  TypeOK'
    BY <2>1 DEF AwaitRoom, NoRoomCheck, WriterGoes
  <2>2. ASSUME NEW p \in Producers, getNextToWriteTo(p)
        PROVE  TypeOK'
    BY <2>2 DEF getNextToWriteTo, WriterGoes
  <2>3. ASSUME NEW p \in Producers, NEW v \in Values, WriteSlot(p, v)
        PROVE  TypeOK'
    BY <2>3 DEF WriteSlot, WriterGoes
  <2>4. ASSUME NEW p \in Producers, LoadWriteIndex(p)
        PROVE  TypeOK'
    BY <2>4 DEF LoadWriteIndex, WriterGoes
  <2>5. ASSUME NEW p \in Producers, StoreWriteIndex(p)
        PROVE  TypeOK'
    <3>1. Wrap(wload[p] + 1) \in Indices
      BY DEF Wrap
    <3> QED
      BY <2>5, <3>1 DEF StoreWriteIndex, WriterGoes
  <2>6. ASSUME NEW p \in Producers, CountWrite(p)
        PROVE  TypeOK'
    BY <2>6 DEF CountWrite, WriterGoes
  <2>7. CASE getNextToRead
    BY <2>7 DEF getNextToRead
  <2>8. CASE ReadSlot
    BY <2>8 DEF ReadSlot
  <2>9. CASE AdvanceReadIndex
    <3>1. Wrap(next_read_index_ + 1) \in Indices
      BY DEF Wrap
    <3> QED
      BY <2>9, <3>1 DEF AdvanceReadIndex
  <2>10. CASE CountRead
    BY <2>10 DEF CountRead
  <2>11. CASE LateRead
    BY <2>11 DEF LateRead
  <2>12. CASE UNCHANGED vars
    BY <2>12 DEF vars
  <2> QED
    BY <2>1, <2>2, <2>3, <2>4, <2>5, <2>6, <2>7, <2>8, <2>9, <2>10, <2>11, <2>12
    DEF Next, ReaderStep, WriterStep
<1> QED
  BY <1>1, <1>2, PTL DEF Spec

-----------------------------------------------------------------------------
(* With one producer, its program counter decides indexedNotCounted. *)
LEMMA OneWriter ==
  ASSUME SingleProducer, NEW p \in Producers
  PROVE  indexedNotCounted = IF wpc[p] = "count" THEN 1 ELSE 0
BY DEF SingleProducer, indexedNotCounted

(* What a step of the producer leaves: the values its own cells take.      *)
LEMMA WriterCells ==
  ASSUME TypeOK, SingleProducer, NEW p \in Producers, NEW from, NEW to,
         WriterGoes(p, from, to)
  PROVE  /\ wpc[p] = from
         /\ wpc'[p] = to
         /\ \A q \in Producers : q = p
         /\ indexedNotCounted = IF from = "count" THEN 1 ELSE 0
         /\ indexedNotCounted' = IF to = "count" THEN 1 ELSE 0
<1>1. wpc[p] = from /\ wpc'[p] = to
  BY DEF WriterGoes, TypeOK
<1>2. \A q \in Producers : q = p
  BY DEF SingleProducer
<1>3. indexedNotCounted = IF from = "count" THEN 1 ELSE 0
  BY <1>1, OneWriter
<1>4. indexedNotCounted' = IF to = "count" THEN 1 ELSE 0
  BY <1>1, <1>2 DEF indexedNotCounted
<1> QED
  BY <1>1, <1>2, <1>3, <1>4

-----------------------------------------------------------------------------
(* The invariant holds initially and every step of either thread keeps it. *)
LEMMA InitIInv ==
  ASSUME Init PROVE IInv
<1> USE CapacityAssumption, HighWaterAssumption DEF Init
<1>1. TypeOK
  BY InitTypeOK
<1>2. ahead = 0
  BY DEF ahead, indexedNotCounted
<1> QED
  BY <1>1, <1>2
  DEF IInv, InRoom, TakenInv, Mark, CountInv, IndexInv, WriterInv, ReaderInv, FilledInv, Pos

(* The reader has checked that there is an element, and only it takes one. *)
LEMMA StepTaken ==
  ASSUME TypeOK, TakenInv, [Next]_vars
  PROVE  TakenInv'
<1> USE DEF TypeOK, TakenInv, wvars, rvars, gvars
<1>1. ASSUME NEW p \in Producers,
             AwaitRoom(p) \/ NoRoomCheck(p) \/ WriterStep(p)
      PROVE  TakenInv'
  BY <1>1
  DEF AwaitRoom, NoRoomCheck, WriterStep, getNextToWriteTo, WriteSlot,
      LoadWriteIndex, StoreWriteIndex, CountWrite
<1>2. CASE ReaderStep
  BY <1>2 DEF ReaderStep, getNextToRead, ReadSlot, AdvanceReadIndex, CountRead, LateRead
<1>3. CASE UNCHANGED vars
  BY <1>3 DEF vars
<1> QED
  BY <1>1, <1>2, <1>3 DEF Next

(* The pair of threads is fixed, the mark rules an overrun out, and an     *)
(* overrun is not forgotten.                                               *)
LEMMA StepOverrun ==
  ASSUME [Next]_vars
  PROVE  /\ publisher' = publisher
         /\ overrun => overrun'
         /\ overrun' => overrun \/ publisher
<1> USE DEF gvars
<1>1. ASSUME NEW p \in Producers,
             AwaitRoom(p) \/ NoRoomCheck(p) \/ WriterStep(p)
      PROVE  publisher' = publisher /\ (overrun => overrun') /\ (overrun' => overrun \/ publisher)
  <2>1. CASE NoRoomCheck(p)
    BY <2>1, Zenon DEF NoRoomCheck
  <2>2. CASE AwaitRoom(p) \/ WriterStep(p)
    BY <2>2
    DEF AwaitRoom, WriterStep, getNextToWriteTo, WriteSlot,
        LoadWriteIndex, StoreWriteIndex, CountWrite
  <2> QED
    BY <1>1, <2>1, <2>2
<1>2. CASE ReaderStep
  BY <1>2 DEF ReaderStep, getNextToRead, ReadSlot, AdvanceReadIndex, CountRead, LateRead
<1>3. CASE UNCHANGED vars
  BY <1>3 DEF vars
<1> QED
  BY <1>1, <1>2, <1>3 DEF Next

(* Every access of either side keeps the indices and the count tied, until *)
(* a write begins without room.                                            *)
LEMMA StepInRoom ==
  ASSUME SafeMark, SingleProducer, TypeOK, TypeOK', TakenInv, TakenInv',
         ~overrun', publisher' = publisher, InRoom, [Next]_vars
  PROVE  InRoom'
<1> USE CapacityAssumption, HighWaterAssumption
    DEF SafeMark, Mark, TakenInv, wvars, rvars, gvars
<1>t. TypeOK /\ CountInv /\ IndexInv /\ WriterInv /\ ReaderInv /\ FilledInv
  BY DEF InRoom
<1>1. ASSUME NEW p \in Producers, AwaitRoom(p) \/ NoRoomCheck(p)
      PROVE  InRoom'
  <2>1. /\ wpc[p] = "idle" /\ wpc'[p] = "room" /\ \A q \in Producers : q = p
        /\ indexedNotCounted = 0 /\ indexedNotCounted' = 0
    BY <1>1, <1>t, WriterCells DEF AwaitRoom, NoRoomCheck
  <2>2. ahead' = ahead
    BY <1>1, <2>1 DEF AwaitRoom, NoRoomCheck, ahead
  <2>3. num_elements_ < Mark
    <3>1. CASE AwaitRoom(p)
      BY <3>1 DEF AwaitRoom
    <3>2. CASE NoRoomCheck(p)
      <4>1. publisher /\ ~(num_elements_ + 1 >= Capacity)
        BY <3>2, Zenon DEF NoRoomCheck
      <4> QED
        BY <4>1 DEF TypeOK
    <3> QED
      BY <1>1, <3>1, <3>2
  <2> QED
    BY <1>1, <1>t, <2>1, <2>2, <2>3
    DEF AwaitRoom, NoRoomCheck, InRoom, CountInv, IndexInv, WriterInv, ReaderInv, FilledInv, Pos
<1>2. ASSUME NEW p \in Producers, getNextToWriteTo(p)
      PROVE  InRoom'
  <2>1. /\ wpc[p] = "room" /\ wpc'[p] = "write" /\ \A q \in Producers : q = p
        /\ indexedNotCounted = 0 /\ indexedNotCounted' = 0
    BY <1>2, <1>t, WriterCells DEF getNextToWriteTo
  <2>2. ahead' = ahead /\ wslot'[p] = next_write_index_
    BY <1>2, <1>t, <2>1 DEF getNextToWriteTo, ahead, TypeOK
  <2> QED
    BY <1>2, <1>t, <2>1, <2>2
    DEF getNextToWriteTo, InRoom, CountInv, IndexInv, WriterInv, ReaderInv, FilledInv, Pos
<1>3. ASSUME NEW p \in Producers, NEW v \in Values, WriteSlot(p, v)
      PROVE  InRoom'
  <2>1. /\ wpc[p] = "write" /\ wpc'[p] = "load" /\ \A q \in Producers : q = p
        /\ indexedNotCounted = 0 /\ indexedNotCounted' = 0
    BY <1>3, <1>t, WriterCells DEF WriteSlot
  <2>2. ahead' = ahead
    BY <1>3, <2>1 DEF WriteSlot, ahead
  <2>3. /\ ahead = num_elements_ - (IF rpc = "count" THEN 1 ELSE 0)
        /\ num_elements_ < Mark
        /\ ahead < Capacity
    BY <1>t, <2>1 DEF ahead, CountInv, TypeOK
  <2>4. wslot[p] = next_write_index_
    BY <1>t, <2>1 DEF WriterInv
  <2>5. store_' = [store_ EXCEPT ![next_write_index_] = v]
    BY <1>3, <2>4 DEF WriteSlot
  <2>6. store_'[next_write_index_] = v
    BY <1>t, <2>5 DEF TypeOK
  <2>7. \A i \in Indices : i # next_write_index_ => store_'[i] = store_[i]
    BY <1>t, <2>5 DEF TypeOK
  <2>8. CountInv' /\ IndexInv' /\ WriterInv'
    BY <1>3, <1>t, <2>1, <2>2, <2>4, <2>6
    DEF WriteSlot, CountInv, IndexInv, WriterInv, Pos
  <2>9. ReaderInv'
    <3>1. rpc \in {"advance", "count", "late"} => rslot # next_write_index_
      <4>1. CASE rpc = "advance"
        BY <4>1, <1>t, <2>3 DEF CountInv, IndexInv, ReaderInv, Pos, TypeOK, Indices
      <4>2. CASE rpc = "count"
        BY <4>2, <1>t, <2>3 DEF CountInv, IndexInv, ReaderInv, Pos, TypeOK, Indices
      <4>3. CASE rpc = "late"
        BY <4>3, <1>t, <2>3 DEF CountInv, IndexInv, ReaderInv, Pos, TypeOK, Indices
      <4> QED
        BY <4>1, <4>2, <4>3
    <3> QED
      BY <1>3, <1>t, <2>7, <3>1 DEF WriteSlot, ReaderInv, TypeOK
  <2>10. FilledInv'
    <3> SUFFICES ASSUME NEW k \in 0 .. ahead - 1
                 PROVE  store_'[Pos(next_read_index_ + k)] \in Values
      BY <1>3, <2>2 DEF WriteSlot, FilledInv, Pos
    <3>1. Pos(next_read_index_ + k) \in Indices
      BY <1>t, <2>3 DEF Pos, Indices, TypeOK
    <3>2. Pos(next_read_index_ + k) # next_write_index_
      BY <1>t, <2>3 DEF Pos, Indices, TypeOK, IndexInv
    <3> QED
      BY <1>t, <2>7, <3>1, <3>2 DEF FilledInv
  <2> QED
    BY <2>8, <2>9, <2>10 DEF InRoom
<1>4. ASSUME NEW p \in Producers, LoadWriteIndex(p)
      PROVE  InRoom'
  <2>1. /\ wpc[p] = "load" /\ wpc'[p] = "store" /\ \A q \in Producers : q = p
        /\ indexedNotCounted = 0 /\ indexedNotCounted' = 0
    BY <1>4, <1>t, WriterCells DEF LoadWriteIndex
  <2>2. ahead' = ahead /\ wload'[p] = next_write_index_
    BY <1>4, <1>t, <2>1 DEF LoadWriteIndex, ahead, TypeOK
  <2> QED
    BY <1>4, <1>t, <2>1, <2>2
    DEF LoadWriteIndex, InRoom, CountInv, IndexInv, WriterInv, ReaderInv, FilledInv, Pos
<1>5. ASSUME NEW p \in Producers, StoreWriteIndex(p)
      PROVE  InRoom'
  <2>1. /\ wpc[p] = "store" /\ wpc'[p] = "count" /\ \A q \in Producers : q = p
        /\ indexedNotCounted = 0 /\ indexedNotCounted' = 1
    BY <1>5, <1>t, WriterCells DEF StoreWriteIndex
  <2>2. ahead' = ahead + 1
    BY <1>5, <1>t, <2>1 DEF StoreWriteIndex, ahead, TypeOK
  <2>3. ahead' \in 0 .. Capacity
    <3>1. ahead <= num_elements_ /\ num_elements_ < Mark
      BY <1>t, <2>1 DEF ahead, CountInv, TypeOK
    <3> QED
      BY <1>t, <2>2, <3>1 DEF IndexInv, TypeOK
  <2>4. next_write_index_' = Pos(next_write_index_ + 1)
    BY <1>5, <1>t, <2>1, WrapIsPos DEF StoreWriteIndex, WriterInv, TypeOK, Indices
  <2>5. IndexInv'
    BY <1>5, <1>t, <2>2, <2>3, <2>4 DEF StoreWriteIndex, IndexInv, Pos, TypeOK, Indices
  <2>6. CountInv' /\ WriterInv' /\ ReaderInv'
    BY <1>5, <1>t, <2>1 DEF StoreWriteIndex, CountInv, WriterInv, ReaderInv, Pos
  <2>7. FilledInv'
    <3> SUFFICES ASSUME NEW k \in 0 .. ahead
                 PROVE  store_[Pos(next_read_index_ + k)] \in Values
      BY <1>5, <1>t, <2>2 DEF StoreWriteIndex, FilledInv, Pos, IndexInv
    <3>1. CASE k = ahead
      BY <3>1, <1>t, <2>1 DEF IndexInv, WriterInv
    <3>2. CASE k # ahead
      BY <3>2, <1>t DEF FilledInv, IndexInv
    <3> QED
      BY <3>1, <3>2
  <2> QED
    BY <2>5, <2>6, <2>7 DEF InRoom
<1>6. ASSUME NEW p \in Producers, CountWrite(p)
      PROVE  InRoom'
  <2>1. /\ wpc[p] = "count" /\ wpc'[p] = "idle" /\ \A q \in Producers : q = p
        /\ indexedNotCounted = 1 /\ indexedNotCounted' = 0
    BY <1>6, <1>t, WriterCells DEF CountWrite
  <2>2. ahead' = ahead
    BY <1>6, <1>t, <2>1 DEF CountWrite, ahead, TypeOK
  <2> QED
    BY <1>6, <1>t, <2>1, <2>2
    DEF CountWrite, InRoom, CountInv, IndexInv, WriterInv, ReaderInv, FilledInv, Pos, TypeOK
<1>7. CASE getNextToRead
  <2>1. ahead' = ahead
    BY <1>7 DEF getNextToRead, ahead, indexedNotCounted
  <2> QED
    BY <1>7, <1>t, <2>1
    DEF getNextToRead, InRoom, CountInv, IndexInv, WriterInv, ReaderInv, FilledInv, Pos
<1>8. CASE ReadSlot
  <2>1. ahead' = ahead
    BY <1>8 DEF ReadSlot, ahead, indexedNotCounted
  <2> QED
    BY <1>8, <1>t, <2>1
    DEF ReadSlot, InRoom, CountInv, IndexInv, WriterInv, ReaderInv, FilledInv, Pos
<1>9. CASE AdvanceReadIndex
  <2>1. indexedNotCounted' = indexedNotCounted /\ indexedNotCounted \in {0, 1}
    BY <1>9 DEF AdvanceReadIndex, indexedNotCounted
  <2>2. ahead' = ahead - 1
    BY <1>9, <1>t, <2>1 DEF AdvanceReadIndex, ahead, TypeOK
  <2>3. ahead \in 1 .. Capacity
    BY <1>9, <1>t, <2>1 DEF AdvanceReadIndex, ahead, CountInv, IndexInv, TypeOK
  <2>4. next_read_index_' = Pos(next_read_index_ + 1)
    BY <1>9, <1>t, WrapIsPos DEF AdvanceReadIndex, TypeOK, Indices
  <2>5. IndexInv'
    <3>1. ahead' \in 0 .. Capacity /\ next_write_index_' = next_write_index_
      BY <1>9, <2>2, <2>3 DEF AdvanceReadIndex
    <3>2. Pos(next_read_index_' + (ahead - 1)) = Pos(next_read_index_ + ahead)
      BY <1>t, <2>3, <2>4 DEF Pos, TypeOK, Indices
    <3>3. next_write_index_ = Pos(next_read_index_' + ahead')
      BY <1>t, <2>2, <3>2 DEF IndexInv
    <3> QED
      BY <3>1, <3>3 DEF IndexInv, Pos
  <2>6. CountInv' /\ WriterInv' /\ ReaderInv'
    BY <1>9, <1>t, <2>4 DEF AdvanceReadIndex, CountInv, WriterInv, ReaderInv, Pos
  <2>7. FilledInv'
    <3> SUFFICES ASSUME NEW k \in 0 .. ahead - 2
                 PROVE  store_[Pos(next_read_index_' + k)] \in Values
      BY <1>9, <1>t, <2>2, <2>3 DEF AdvanceReadIndex, FilledInv, Pos
    <3>1. Pos(next_read_index_' + k) = Pos(next_read_index_ + (k + 1))
      BY <1>t, <2>3, <2>4 DEF Pos, TypeOK, Indices
    <3> QED
      BY <1>t, <2>3, <3>1 DEF FilledInv
  <2> QED
    BY <2>5, <2>6, <2>7 DEF InRoom
<1>10. CASE CountRead
  <2>1. indexedNotCounted' = indexedNotCounted /\ indexedNotCounted \in {0, 1}
    BY <1>10 DEF CountRead, indexedNotCounted
  <2>2. ahead' = ahead
    BY <1>10, <1>t, <2>1 DEF CountRead, ahead, TypeOK
  <2> QED
    BY <1>10, <1>t, <2>2
    DEF CountRead, InRoom, CountInv, IndexInv, WriterInv, ReaderInv, FilledInv, Pos, TypeOK
<1>11. CASE LateRead
  <2>1. ahead' = ahead
    BY <1>11 DEF LateRead, ahead, indexedNotCounted
  <2> QED
    BY <1>11, <1>t, <2>1
    DEF LateRead, InRoom, CountInv, IndexInv, WriterInv, ReaderInv, FilledInv, Pos
<1>12. CASE UNCHANGED vars
  <2>1. ahead' = ahead
    BY <1>12 DEF vars, ahead, indexedNotCounted
  <2> QED
    BY <1>12, <1>t, <2>1
    DEF vars, InRoom, CountInv, IndexInv, WriterInv, ReaderInv, FilledInv, Pos
<1> QED
  BY <1>1, <1>2, <1>3, <1>4, <1>5, <1>6, <1>7, <1>8, <1>9, <1>10, <1>11, <1>12
  DEF Next, ReaderStep, WriterStep

(* Together: the whole invariant is inductive.                             *)
LEMMA StepIInv ==
  ASSUME SafeMark, SingleProducer, IInv, [Next]_vars, TypeOK'
  PROVE  IInv'
<1>1. TypeOK /\ TakenInv /\ TakenInv'
  BY StepTaken DEF IInv
<1>2. (overrun => publisher)'
  BY StepOverrun DEF IInv
<1>3. ~overrun' => InRoom'
  BY <1>1, StepOverrun, StepInRoom DEF IInv
<1> QED
  BY <1>1, <1>2, <1>3 DEF IInv

(* The inductive invariant as a theorem, for every capacity and mark.      *)
THEOREM Invariance ==
  ASSUME SafeMark, SingleProducer
  PROVE  Spec => []IInv
<1>1. Init => IInv
  BY InitIInv
<1>2. TypeOK' /\ IInv /\ [Next]_vars => IInv'
  BY StepIInv
<1> QED
  BY <1>1, <1>2, TypeCorrect, PTL DEF Spec

(* A slot is never written while the consumer reads it, not even when it   *)
(* reads it again after releasing it (MarketDataPublisher::run), unless a  *)
(* write has begun within a slot of a full ring.                           *)
THEOREM NoRace ==
  ASSUME SafeMark, SingleProducer
  PROVE  Spec => []NoSlotRace
<1>1. IInv => NoSlotRace
  <2> SUFFICES ASSUME IInv, NEW p \in Producers, ~overrun, wpc[p] = "write",
                      rpc \in {"read", "late"}
               PROVE  wslot[p] # rslot
    BY DEF NoSlotRace
  <2> USE CapacityAssumption, HighWaterAssumption DEF Mark, TakenInv
  <2>1. TypeOK /\ TakenInv /\ CountInv /\ IndexInv /\ WriterInv /\ ReaderInv
    BY DEF IInv, InRoom
  <2>2. ahead = num_elements_ /\ num_elements_ < Mark
    BY <2>1, OneWriter DEF ahead, CountInv, TypeOK
  <2>3. CASE rpc = "read"
    BY <2>1, <2>2, <2>3
    DEF SafeMark, CountInv, IndexInv, WriterInv, ReaderInv, Pos, TypeOK, Indices
  <2>4. CASE rpc = "late"
    BY <2>1, <2>2, <2>4
    DEF SafeMark, CountInv, IndexInv, WriterInv, ReaderInv, Pos, TypeOK, Indices
  <2> QED
    BY <2>3, <2>4
<1> QED
  BY <1>1, Invariance, PTL

(* updateReadIndex()'s ASSERT never ends the process.                      *)
THEOREM NoAssert ==
  ASSUME SafeMark, SingleProducer
  PROVE  Spec => []NoReadAssert
<1>1. IInv => NoReadAssert
  BY DEF IInv, TakenInv, NoReadAssert
<1> QED
  BY <1>1, Invariance, PTL

(* The slot MarketDataPublisher::run reads after releasing it still holds  *)
(* the element it has sent, whatever the engine does, until the engine     *)
(* begins an update with Capacity - 1 elements or more still counted.      *)
THEOREM LateReadSafe ==
  ASSUME SafeMark, SingleProducer
  PROVE  Spec => []ReleasedSlotStable
<1>1. IInv => ReleasedSlotStable
  BY DEF IInv, InRoom, ReaderInv, ReleasedSlotStable
<1> QED
  BY <1>1, Invariance, PTL

-----------------------------------------------------------------------------
(* Refinement.  First the abstract queue's length and cells, free of the   *)
(* division: element k is in the k-th slot from the first unread one.      *)
ContentsInv ==
  /\ unread \in 0 .. Capacity
  /\ unread <= num_elements_
  /\ firstUnread \in 0 .. Capacity
  /\ \A k \in 1 .. unread : Pos(firstUnread + k - 1) \in Indices
  /\ queueContents = [k \in 1 .. unread |-> store_[Pos(firstUnread + k - 1)]]
  /\ queueContents \in Seq(Values)
  /\ Len(queueContents) = unread

(* The invariant fixes where the elements of the abstract queue lie. *)
LEMMA Contents ==
  ASSUME SafeMark
  PROVE  IInv => (~overrun => ContentsInv)
<1> SUFFICES ASSUME IInv, ~overrun PROVE ContentsInv
  OBVIOUS
<1> USE CapacityAssumption, HighWaterAssumption DEF SafeMark, Mark, TakenInv
<1>1. TypeOK /\ TakenInv /\ CountInv /\ IndexInv /\ FilledInv
  BY DEF IInv, InRoom
<1>2. unread \in 0 .. Capacity /\ unread <= num_elements_ /\ firstUnread \in 0 .. Capacity
  BY <1>1 DEF unread, firstUnread, CountInv, TypeOK, Indices
<1>3. \A k \in 1 .. unread : Pos(firstUnread + k - 1) \in Indices
  BY <1>2 DEF Pos, Indices
<1>4. \A k \in 1 .. unread : Wrap(firstUnread + k - 1) = Pos(firstUnread + k - 1)
  <2> TAKE k \in 1 .. unread
  <2>1. firstUnread + k - 1 \in 0 .. 2 * Capacity - 1
    BY <1>2
  <2> QED
    BY <2>1, WrapIsPos
<1>5. queueContents = [k \in 1 .. unread |-> store_[Pos(firstUnread + k - 1)]]
  BY <1>4 DEF queueContents
<1>6. indexedNotCounted \in {0, 1}
  BY DEF indexedNotCounted
<1>7. \A k \in 1 .. unread : store_[Pos(firstUnread + k - 1)] \in Values
  <2> TAKE k \in 1 .. unread
  <2>1. CASE rpc = "advance"
    <3>1. k \in 0 .. ahead - 1 /\ firstUnread + k - 1 = next_read_index_ + k
      BY <2>1, <1>1, <1>2, <1>6 DEF ahead, unread, firstUnread, TypeOK, Indices
    <3> QED
      BY <3>1, <1>1 DEF FilledInv
  <2>2. CASE rpc # "advance"
    <3>1. k - 1 \in 0 .. ahead - 1 /\ firstUnread + k - 1 = next_read_index_ + (k - 1)
      BY <2>2, <1>1, <1>2, <1>6 DEF ahead, unread, firstUnread, TypeOK, Indices
    <3> QED
      BY <3>1, <1>1 DEF FilledInv
  <2> QED
    BY <2>1, <2>2
<1>8. unread \in Nat
  BY <1>2
<1>9. queueContents \in Seq(Values) /\ Len(queueContents) = unread
  BY <1>5, <1>7, <1>8
<1> QED
  BY <1>2, <1>3, <1>5, <1>9 DEF ContentsInv

(* Every step that leaves room is a step of the FIFO queue or a stutter:   *)
(* CountWrite publishes an element, ReadSlot takes one.                    *)
LEMMA StepRefinesInRoom ==
  ASSUME SafeMark, SingleProducer, IInv, IInv', ContentsInv, ContentsInv',
         ~overrun, ~overrun', [Next]_vars
  PROVE  [Abstract!Next]_(Abstract!vars)
<1> USE CapacityAssumption, HighWaterAssumption
    DEF SafeMark, Mark, TakenInv, wvars, rvars, gvars
<1> DEFINE Stutter == queueContents' = queueContents /\ copied' = copied
<1>o. overrun' = overrun
  BY DEF IInv, TypeOK
<1>t. TypeOK /\ TakenInv /\ CountInv /\ IndexInv /\ WriterInv /\ ReaderInv
  BY DEF IInv, InRoom
<1>1. ASSUME NEW p \in Producers,
             \/ AwaitRoom(p) \/ NoRoomCheck(p) \/ getNextToWriteTo(p)
             \/ LoadWriteIndex(p) \/ StoreWriteIndex(p)
      PROVE  Stutter
  BY <1>1
  DEF AwaitRoom, NoRoomCheck, getNextToWriteTo, LoadWriteIndex, StoreWriteIndex,
      queueContents, unread, firstUnread
<1>2. ASSUME getNextToRead \/ LateRead \/ UNCHANGED vars
      PROVE  Stutter
  BY <1>2 DEF getNextToRead, LateRead, vars, queueContents, unread, firstUnread
<1>3. ASSUME CountRead
      PROVE  Stutter
  <2>1. unread' = unread /\ firstUnread' = firstUnread
    BY <1>3, <1>t DEF CountRead, unread, firstUnread, TypeOK
  <2> QED
    BY <1>3, <2>1 DEF CountRead, queueContents
<1>4. ASSUME AdvanceReadIndex
      PROVE  Stutter
  <2>1. unread' = unread /\ store_' = store_ /\ copied' = copied
    BY <1>4 DEF AdvanceReadIndex, unread
  <2>2. firstUnread = next_read_index_ + 1 /\ firstUnread' = Pos(next_read_index_ + 1)
    BY <1>4, <1>t, WrapIsPos DEF AdvanceReadIndex, firstUnread, TypeOK, Indices
  <2>3. \A k \in 1 .. unread : Pos(firstUnread' + k - 1) = Pos(firstUnread + k - 1)
    BY <1>t, <2>2 DEF ContentsInv, Pos, TypeOK, Indices
  <2>4. queueContents' = [k \in 1 .. unread |-> store_[Pos(firstUnread' + k - 1)]]
    BY <2>1 DEF ContentsInv, Pos
  <2>5. queueContents = [k \in 1 .. unread |-> store_[Pos(firstUnread + k - 1)]]
    BY DEF ContentsInv
  <2> QED
    BY <2>1, <2>3, <2>4, <2>5
<1>5. ASSUME NEW p \in Producers, NEW v \in Values, WriteSlot(p, v)
      PROVE  Stutter
  <2>1. unread' = unread /\ firstUnread' = firstUnread /\ copied' = copied
    BY <1>5 DEF WriteSlot, unread, firstUnread
  <2>2. /\ wpc[p] = "write"
        /\ store_' = [store_ EXCEPT ![next_write_index_] = v]
    BY <1>5, <1>t DEF WriteSlot, WriterGoes, WriterInv
  <2>3. indexedNotCounted = 0 /\ num_elements_ < Mark
    BY <1>t, <2>2, OneWriter DEF CountInv
  <2>4. ASSUME NEW k \in 1 .. unread
        PROVE  Pos(firstUnread + k - 1) # next_write_index_
    <3>1. CASE rpc = "advance"
      BY <1>t, <2>3, <2>4, <3>1
      DEF IndexInv, ahead, unread, firstUnread, Pos, TypeOK, Indices
    <3>2. CASE rpc # "advance"
      BY <1>t, <2>3, <2>4, <3>2
      DEF IndexInv, ahead, unread, firstUnread, Pos, TypeOK, Indices
    <3> QED
      BY <3>1, <3>2
  <2>5. \A k \in 1 .. unread : store_'[Pos(firstUnread + k - 1)] = store_[Pos(firstUnread + k - 1)]
    BY <1>t, <2>2, <2>4 DEF ContentsInv, TypeOK
  <2>6. queueContents' = [k \in 1 .. unread |-> store_'[Pos(firstUnread + k - 1)]]
    BY <2>1 DEF ContentsInv, Pos
  <2>7. queueContents = [k \in 1 .. unread |-> store_[Pos(firstUnread + k - 1)]]
    BY DEF ContentsInv
  <2> QED
    BY <2>1, <2>5, <2>6, <2>7
<1>6. ASSUME NEW p \in Producers, CountWrite(p)
      PROVE  \E v \in Values : Abstract!Enqueue(v)
  <2> DEFINE v == store_[Pos(firstUnread + unread)]
  <2>1. /\ unread' = unread + 1 /\ firstUnread' = firstUnread
        /\ store_' = store_ /\ copied' = copied
    BY <1>6, <1>t DEF CountWrite, unread, firstUnread, TypeOK
  <2>2. queueContents' = [k \in 1 .. unread + 1 |-> store_[Pos(firstUnread + k - 1)]]
    BY <2>1 DEF ContentsInv, Pos
  <2>3. unread \in Nat /\ queueContents = [k \in 1 .. unread |-> store_[Pos(firstUnread + k - 1)]]
    BY DEF ContentsInv
  <2>4. queueContents'[unread + 1] = v
    BY <2>2, <2>3 DEF ContentsInv
  <2>5. v \in Values
    BY <2>1, <2>3, <2>4 DEF ContentsInv
  <2>6. queueContents' = Append(queueContents, v)
    <3>1. /\ Append(queueContents, v) \in Seq(Values)
          /\ Len(Append(queueContents, v)) = unread + 1
          /\ \A i \in 1 .. unread : Append(queueContents, v)[i] = queueContents[i]
          /\ Append(queueContents, v)[unread + 1] = v
      BY <2>5, AppendProperties DEF ContentsInv
    <3>2. queueContents' \in Seq(Values) /\ Len(queueContents') = unread + 1
      BY <2>1 DEF ContentsInv
    <3>3. \A i \in 1 .. unread : queueContents'[i] = queueContents[i]
      BY <2>2, <2>3
    <3>4. \A i \in 1 .. unread + 1 : queueContents'[i] = Append(queueContents, v)[i]
      BY <2>3, <2>4, <3>1, <3>3
    <3> QED
      BY <3>1, <3>2, <3>4, SeqEqual
  <2> QED
    BY <1>o, <2>1, <2>5, <2>6 DEF Abstract!Enqueue
<1>7. ASSUME ReadSlot
      PROVE  Abstract!Dequeue
  <2>1. /\ unread' = unread - 1 /\ unread \in 1 .. Capacity
        /\ firstUnread = next_read_index_ /\ firstUnread' = firstUnread + 1
        /\ store_' = store_
    BY <1>7, <1>t DEF ReadSlot, unread, firstUnread, TypeOK, CountInv, Indices, ContentsInv
  <2>2. queueContents \in Seq(Values) /\ Len(queueContents) = unread /\ queueContents # << >>
    BY <2>1 DEF ContentsInv
  <2>3. queueContents = [k \in 1 .. unread |-> store_[Pos(firstUnread + k - 1)]]
    BY DEF ContentsInv
  <2>4. copied' = Head(queueContents)
    <3>1. Head(queueContents) = queueContents[1]
      BY <2>2, HeadTailProperties
    <3>2. queueContents[1] = store_[Pos(next_read_index_)]
      BY <2>1, <2>3, <1>t DEF TypeOK, Indices
    <3>3. Pos(next_read_index_) = rslot
      BY <1>7, <1>t DEF ReadSlot, ReaderInv, Pos, TypeOK, Indices
    <3> QED
      BY <1>7, <3>1, <3>2, <3>3 DEF ReadSlot
  <2>5. queueContents' = Tail(queueContents)
    <3>1. /\ Tail(queueContents) \in Seq(Values)
          /\ Len(Tail(queueContents)) = unread - 1
          /\ \A i \in 1 .. unread - 1 : Tail(queueContents)[i] = queueContents[i + 1]
      BY <2>1, <2>2, HeadTailProperties
    <3>2. queueContents' \in Seq(Values) /\ Len(queueContents') = unread - 1
      BY <2>1 DEF ContentsInv
    <3>3. queueContents' = [k \in 1 .. unread - 1 |-> store_[Pos(firstUnread + 1 + k - 1)]]
      BY <2>1 DEF ContentsInv, Pos
    <3>4. \A i \in 1 .. unread - 1 : queueContents'[i] = queueContents[i + 1]
      <4> TAKE i \in 1 .. unread - 1
      <4>1. queueContents'[i] = store_[Pos(firstUnread + 1 + i - 1)]
        BY <3>3
      <4>2. queueContents[i + 1] = store_[Pos(firstUnread + (i + 1) - 1)]
        BY <2>1, <2>3
      <4>3. firstUnread + 1 + i - 1 = firstUnread + (i + 1) - 1
        BY <2>1 DEF ContentsInv
      <4> QED
        BY <4>1, <4>2, <4>3
    <3> QED
      BY <3>1, <3>2, <3>4, SeqEqual
  <2> QED
    BY <1>o, <2>2, <2>4, <2>5 DEF Abstract!Dequeue
<1> HIDE DEF Stutter
<1>8. Stutter => UNCHANGED Abstract!vars
  BY <1>o DEF Stutter, Abstract!vars
<1> QED
  BY <1>1, <1>2, <1>3, <1>4, <1>5, <1>6, <1>7, <1>8
  DEF Next, ReaderStep, WriterStep, Abstract!Next

(* A step that uses up the room is the abstract queue's Overrun.           *)
LEMMA StepRefines ==
  ASSUME SafeMark, SingleProducer, IInv, IInv',
         ~overrun => ContentsInv, ~overrun' => ContentsInv', [Next]_vars
  PROVE  [Abstract!Next]_(Abstract!vars)
<1>1. CASE overrun'
  <2>1. overrun' = TRUE
    BY <1>1 DEF IInv, TypeOK
  <2> QED
    BY <2>1 DEF Abstract!Next, Abstract!Overrun
<1>2. CASE ~overrun'
  <2>1. ~overrun
    BY <1>2, StepOverrun
  <2> QED
    BY <1>2, <2>1, StepRefinesInRoom
<1> QED
  BY <1>1, <1>2

(* The ring buffer implements the FIFO queue: each element published by    *)
(* CountWrite is copied by ReadSlot once and in order, until the producer  *)
(* has used up the room, which the mark never lets it do.                  *)
THEOREM Refinement ==
  ASSUME SafeMark, SingleProducer
  PROVE  Spec => ImplementsFIFOSafely
<1>1. Init => Abstract!Init
  <2> SUFFICES ASSUME Init PROVE Abstract!Init
    OBVIOUS
  <2>0. num_elements_ = 0 /\ rpc = "poll" /\ copied = NoValue /\ overrun = FALSE
    BY DEF Init
  <2>1. unread = 0
    <3>1. ContentsInv
      BY InitIInv, Contents DEF Init
    <3> QED
      BY <2>0, <3>1, CapacityAssumption DEF ContentsInv
  <2>2. queueContents = << >>
    BY <2>1 DEF queueContents
  <2> QED
    BY <2>0, <2>2 DEF Abstract!Init
<1>2. IInv => (~overrun => ContentsInv)
  BY Contents
<1>3. /\ IInv /\ IInv' /\ (~overrun => ContentsInv)
      /\ (~overrun => ContentsInv)' /\ [Next]_vars
      => [Abstract!Next]_(Abstract!vars)
  BY StepRefines
<1> QED
  BY <1>1, <1>2, <1>3, Invariance, PTL DEF Spec, ImplementsFIFOSafely, Abstract!SafeSpec
=============================================================================
