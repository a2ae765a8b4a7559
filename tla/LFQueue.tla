------------------------------ MODULE LFQueue ------------------------------
(***************************************************************************)
(* common/lf_queue.h: the ring buffer every pair of threads in NanoTrade   *)
(* talks through.  One action is one access to an atomic (or to the slot), *)
(* so every interleaving of the two sides of a queue is a behaviour.       *)
(*                                                                         *)
(* The queue itself never refuses a write.  Its users differ in two ways,  *)
(* and publisher says which of them the queue connects:                    *)
(*   FALSE  the producer waits while size() is at a high-water mark        *)
(*          (market_data_consumer.cpp, the replay threads) and the         *)
(*          consumer is done with a slot when it gives it back;            *)
(*   TRUE   MatchingEngine::sendMarketUpdate, which writes without looking *)
(*          at size(), and MarketDataPublisher::run, which reads the slot  *)
(*          again after updateReadIndex().                                 *)
(* overrun is not in the code: it records that the unchecked producer      *)
(* began a write with no more than one slot to spare.  What the queue      *)
(* promises is stated up to there.                                         *)
(***************************************************************************)
EXTENDS Integers, Sequences

CONSTANTS
  Capacity,   \* store_.size()
  HighWater,  \* producers wait while size() >= HighWater
  MaxElements, \* bound: an unchecked producer writes only below this size()
  Producers,  \* the threads that write to the queue
  Values,     \* what can be written
  NoValue     \* the content of a slot never written

ASSUME CapacityAssumption == Capacity \in Nat \ {0}
ASSUME HighWaterAssumption == HighWater \in Nat \ {0}
ASSUME NoValueAssumption == NoValue \notin Values

VARIABLES
  store_,             \* the slots
  next_write_index_,  \* atomic
  next_read_index_,   \* atomic
  num_elements_,      \* atomic
  wpc,                \* where each producer is in its write
  wslot,              \* the slot getNextToWriteTo() gave each producer
  wload,              \* the write index each producer loaded to advance it
  rpc,                \* where the consumer is in its read
  rslot,              \* the slot getNextToRead() gave the consumer
  copied,             \* the element the consumer took out of that slot
  publisher,          \* which pair of threads (never changes)
  overrun             \* ghost, see above

wvars == <<wpc, wslot, wload>>
rvars == <<rpc, rslot, copied>>
gvars == <<publisher, overrun>>
vars == <<store_, next_write_index_, next_read_index_, num_elements_,
          wpc, wslot, wload, rpc, rslot, copied, publisher, overrun>>

Indices == 0 .. Capacity - 1
Wrap(i) == i % Capacity

WriterPC == {"idle", "room", "write", "load", "store", "count"}
ReaderPC == {"poll", "read", "advance", "count", "late"}

Init ==
  /\ store_ = [i \in Indices |-> NoValue]
  /\ next_write_index_ = 0
  /\ next_read_index_ = 0
  /\ num_elements_ = 0
  /\ wpc = [p \in Producers |-> "idle"]
  /\ wslot = [p \in Producers |-> 0]
  /\ wload = [p \in Producers |-> 0]
  /\ rpc = "poll"
  /\ rslot = 0
  /\ copied = NoValue
  /\ publisher \in BOOLEAN
  /\ overrun = FALSE

-----------------------------------------------------------------------------
(* The producers. *)

WriterGoes(p, from, to) == wpc[p] = from /\ wpc' = [wpc EXCEPT ![p] = to]

(* size() < mark, before anything of the queue is touched *)
AwaitRoom(p) ==
  /\ ~publisher
  /\ num_elements_ < HighWater
  /\ WriterGoes(p, "idle", "room")
  /\ UNCHANGED <<store_, next_write_index_, next_read_index_, num_elements_,
                 wslot, wload, rvars, gvars>>

(* sendMarketUpdate() looks at nothing before it writes *)
NoRoomCheck(p) ==
  /\ publisher
  /\ num_elements_ < MaxElements
  /\ WriterGoes(p, "idle", "room")
  /\ overrun' = (overrun \/ num_elements_ + 1 >= Capacity)
  /\ UNCHANGED <<store_, next_write_index_, next_read_index_, num_elements_,
                 wslot, wload, rvars, publisher>>

getNextToWriteTo(p) ==
  /\ WriterGoes(p, "room", "write")
  /\ wslot' = [wslot EXCEPT ![p] = next_write_index_]
  /\ UNCHANGED <<store_, next_write_index_, next_read_index_, num_elements_,
                 wload, rvars, gvars>>

(* *next_write = element, by the caller *)
WriteSlot(p, v) ==
  /\ WriterGoes(p, "write", "load")
  /\ store_' = [store_ EXCEPT ![wslot[p]] = v]
  /\ UNCHANGED <<next_write_index_, next_read_index_, num_elements_,
                 wslot, wload, rvars, gvars>>

(* updateWriteIndex() is a load, a store and an increment: three accesses *)
LoadWriteIndex(p) ==
  /\ WriterGoes(p, "load", "store")
  /\ wload' = [wload EXCEPT ![p] = next_write_index_]
  /\ UNCHANGED <<store_, next_write_index_, next_read_index_, num_elements_,
                 wslot, rvars, gvars>>

(* Mutant: the index moves on by two slots. *)
Mut_StoreWriteIndexSkips(p) ==
  /\ WriterGoes(p, "store", "count")
  /\ next_write_index_' = Wrap(wload[p] + 2)
  /\ UNCHANGED <<store_, next_read_index_, num_elements_, wslot, wload, rvars, gvars>>

StoreWriteIndex(p) ==
  /\ WriterGoes(p, "store", "count")
  /\ next_write_index_' = Wrap(wload[p] + 1)
  /\ UNCHANGED <<store_, next_read_index_, num_elements_, wslot, wload, rvars, gvars>>

CountWrite(p) ==
  /\ WriterGoes(p, "count", "idle")
  /\ num_elements_' = num_elements_ + 1
  /\ UNCHANGED <<store_, next_write_index_, next_read_index_, wslot, wload, rvars, gvars>>

-----------------------------------------------------------------------------
(* The consumer.  An empty queue gives it nullptr: it stays at "poll". *)

(* Mutant: the emptiness test is missing. *)
Mut_getNextToReadUnchecked ==
  /\ rpc = "poll"
  /\ rslot' = next_read_index_
  /\ rpc' = "read"
  /\ UNCHANGED <<store_, next_write_index_, next_read_index_, num_elements_,
                 wvars, copied, gvars>>

getNextToRead ==
  /\ rpc = "poll"
  /\ num_elements_ # 0
  /\ rslot' = next_read_index_
  /\ rpc' = "read"
  /\ UNCHANGED <<store_, next_write_index_, next_read_index_, num_elements_,
                 wvars, copied, gvars>>

ReadSlot ==
  /\ rpc = "read"
  /\ copied' = store_[rslot]
  /\ rpc' = "advance"
  /\ UNCHANGED <<store_, next_write_index_, next_read_index_, num_elements_,
                 wvars, rslot, gvars>>

(* Mutant: the read index moves past one element too many. *)
Mut_AdvanceReadIndexSkips ==
  /\ rpc = "advance"
  /\ next_read_index_' = Wrap(next_read_index_ + 2)
  /\ rpc' = "count"
  /\ UNCHANGED <<store_, next_write_index_, num_elements_, wvars, rslot, copied, gvars>>

(* updateReadIndex(): the index first, then the count *)
AdvanceReadIndex ==
  /\ rpc = "advance"
  /\ next_read_index_' = Wrap(next_read_index_ + 1)
  /\ rpc' = "count"
  /\ UNCHANGED <<store_, next_write_index_, num_elements_, wvars, rslot, copied, gvars>>

(* Mutant: the element read is not taken off the count. *)
Mut_CountReadForgets ==
  /\ rpc = "count"
  /\ num_elements_ # 0
  /\ rpc' = IF publisher THEN "late" ELSE "poll"
  /\ UNCHANGED <<store_, next_write_index_, next_read_index_, num_elements_,
                 wvars, rslot, copied, gvars>>

(* the ASSERT on num_elements_ ends the process, so the guard is its passing *)
CountRead ==
  /\ rpc = "count"
  /\ num_elements_ # 0
  /\ num_elements_' = num_elements_ - 1
  /\ rpc' = IF publisher THEN "late" ELSE "poll"
  /\ UNCHANGED <<store_, next_write_index_, next_read_index_, wvars, rslot, copied, gvars>>

(* *market_update read again, after the slot was given back *)
LateRead ==
  /\ rpc = "late"
  /\ rpc' = "poll"
  /\ UNCHANGED <<store_, next_write_index_, next_read_index_, num_elements_,
                 wvars, rslot, copied, gvars>>

-----------------------------------------------------------------------------
WriterStep(p) ==
  \/ getNextToWriteTo(p)
  \/ \E v \in Values : WriteSlot(p, v)
  \/ LoadWriteIndex(p)
  \/ StoreWriteIndex(p)
  \/ CountWrite(p)

ReaderStep ==
  \/ getNextToRead
  \/ ReadSlot
  \/ AdvanceReadIndex
  \/ CountRead
  \/ LateRead

Next == \/ ReaderStep
        \/ \E p \in Producers : AwaitRoom(p) \/ NoRoomCheck(p) \/ WriterStep(p)

Spec == Init /\ [][Next]_vars

(* Both threads run busy loops: a write once begun is finished, and the     *)
(* consumer polls forever.  No producer is obliged to write.                *)
Fairness == /\ WF_vars(ReaderStep)
            /\ \A p \in Producers : WF_vars(WriterStep(p))

FairSpec == Spec /\ Fairness

-----------------------------------------------------------------------------
(* The state of the abstract queue.  An element enters it when             *)
(* num_elements_ counts it and leaves it when the consumer copies it.      *)

unread == num_elements_ - (IF rpc \in {"advance", "count"} THEN 1 ELSE 0)
firstUnread == IF rpc = "advance" THEN next_read_index_ + 1 ELSE next_read_index_
queueContents == [k \in 1 .. unread |-> store_[Wrap(firstUnread + k - 1)]]

Abstract == INSTANCE FIFOQueue WITH queue <- queueContents, delivered <- copied

-----------------------------------------------------------------------------
(* Properties *)

TypeOK ==
  /\ store_ \in [Indices -> Values \cup {NoValue}]
  /\ next_write_index_ \in Indices
  /\ next_read_index_ \in Indices
  /\ num_elements_ \in Nat
  /\ wpc \in [Producers -> WriterPC]
  /\ wslot \in [Producers -> Indices]
  /\ wload \in [Producers -> Indices]
  /\ rpc \in ReaderPC
  /\ rslot \in Indices
  /\ copied \in Values \cup {NoValue}
  /\ publisher \in BOOLEAN
  /\ overrun \in BOOLEAN

(* Refinement, safety and liveness: as long as no producer has come within *)
(* a slot of filling the ring (which the mark rules out), one producer     *)
(* delivers, through LFQueue's unguarded getNextToWriteTo and              *)
(* updateWriteIndex, every element once, in order, and every published     *)
(* element eventually.                                                     *)
ImplementsFIFO == Abstract!Spec

(* The same without the liveness part: what a second producer breaks, and  *)
(* what LFQueueProofs proves.                                              *)
ImplementsFIFOSafely == Abstract!SafeSpec

(* No data race on a slot: a producer is never about to write the slot the *)
(* consumer still reads (lf_queue.h returns bare pointers into store_).    *)
NoSlotRace ==
  \A p \in Producers :
    ~overrun /\ wpc[p] = "write" /\ rpc \in {"read", "late"} => wslot[p] # rslot

(* The ASSERT in updateReadIndex never fires, although the index moves     *)
(* before the count does.                                                  *)
NoReadAssert == rpc = "count" => num_elements_ # 0

(* MarketDataPublisher::run dereferences the slot again after              *)
(* updateReadIndex(), and nothing in sendMarketUpdate() keeps the engine   *)
(* out of it.  It still holds the element that was sent as long as the     *)
(* engine has never begun an update with size() at Capacity - 1 or above.  *)
ReleasedSlotStable == ~overrun /\ rpc = "late" => store_[rslot] = copied

(* A producer held back by the high-water mark is let through eventually:  *)
(* the consumer's lagging count never leaves the mark reached for good.    *)
BackpressureReleases ==
  [](~publisher /\ num_elements_ >= HighWater => <>(num_elements_ < HighWater))
=============================================================================
