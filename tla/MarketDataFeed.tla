--------------------------- MODULE MarketDataFeed ---------------------------
(***************************************************************************)
(* Market data from the exchange to one client, for one instrument:        *)
(* MarketDataPublisher numbers the updates and multicasts them,            *)
(* SnapshotSynthesizer publishes its snapshot again and again, and         *)
(* MarketDataConsumer forwards the updates, or recovers from a gap with a  *)
(* snapshot and the incrementals it has queued meanwhile.                  *)
(*                                                                         *)
(* Multicast datagrams may be lost or arrive a second time, late.  A       *)
(* datagram of the incremental stream holds one message here: the publisher*)
(* batches what it finds in its queue, and losing or reading a batch is    *)
(* losing or reading its messages one after the other.  Those of the       *)
(* snapshot stream are cut as publishSnapshot cuts them.                   *)
(***************************************************************************)
EXTENDS SnapshotSynthesizer, FiniteSets, FiniteSetsExt

CONSTANTS
  ReplayModes,  \* TRUE: replay mode, the incrementals come from a queue
  MaxUpdates,   \* bound on the updates of the matching engine
  MaxFaults     \* bound on the datagrams lost, of both streams, or, of the
                \* incremental one, received twice

ASSUME ModesAssumption == ReplayModes \subseteq BOOLEAN
ASSUME BoundsAssumption == MaxUpdates \in Nat /\ MaxFaults \in Nat

VARIABLES
  replay_mode_,              \* chosen by the constructor
  updates,                   \* the engine's updates; the i-th has sequence number i
  last_inc_seq_num_,         \* the last one the synthesizer has applied
  cycle,                     \* the snapshot datagrams still to be sent
  incremental_net,           \* incremental messages on their way to the client
  snapshot_net,              \* snapshot datagrams on their way to the client
  faults,                    \* datagrams lost and repeated so far
  next_exp_inc_seq_num_,
  in_recovery_,              \* and so subscribed to the snapshot stream
  snapshot_queued_msgs_,     \* sequence number -> message
  incremental_queued_msgs_,
  inbound,                   \* what recvCallback has yet to look at of the
                             \* snapshot datagram it reads
  forwarded,                 \* what MarketOrderBook makes of the updates so far
  position                   \* the number of the last update it reflects, for
                             \* the properties only

exchange == <<replay_mode_, updates, last_inc_seq_num_, cycle>>
queued == <<snapshot_queued_msgs_, incremental_queued_msgs_>>
consumer == <<next_exp_inc_seq_num_, in_recovery_, queued, forwarded, position>>
vars == <<exchange, incremental_net, snapshot_net, faults, consumer, inbound>>

NoMessages == << >>

Init ==
  /\ replay_mode_ \in ReplayModes
  /\ updates = << >>
  /\ last_inc_seq_num_ = 0
  /\ cycle = << >>
  /\ incremental_net = << >>
  /\ snapshot_net = << >>
  /\ faults = [lost |-> 0, repeated |-> 0]
  /\ next_exp_inc_seq_num_ = 1
  /\ in_recovery_ = FALSE
  /\ snapshot_queued_msgs_ = NoMessages
  /\ incremental_queued_msgs_ = NoMessages
  /\ inbound = << >>
  /\ forwarded = NoOrders
  /\ position = 0

-----------------------------------------------------------------------------
(* The exchange *)

MayFail == faults.lost + faults.repeated < MaxFaults

MEMarketUpdate(type, id, qty) ==
  [type_ |-> type, order_id_ |-> id, side_ |-> "BUY", price_ |-> 1, qty_ |-> qty]
MDPMarketUpdate(seq, update) == [seq_num_ |-> seq, update |-> update]

(* The book after the first n updates. *)
bookAfter(n) ==
  LET book[i \in 0 .. n] ==
        IF i = 0 THEN NoOrders ELSE addToSnapshot(book[i - 1], updates[i])
  IN  book[n]

(* What the engine may send next: a new order, named after its update, or  *)
(* the partial fill or the end of one it has announced.                    *)
PossibleUpdates ==
  LET book == bookAfter(Len(updates)) IN
  {MEMarketUpdate("ADD", Len(updates) + 1, 2)}
  \cup {MEMarketUpdate("MODIFY", id, 1) : id \in {o \in DOMAIN book : book[o].qty_ = 2}}
  \cup {MEMarketUpdate("CANCEL", id, 0) : id \in DOMAIN book}

(* MarketDataPublisher::run, one update: numbered, sent, given to the      *)
(* synthesizer.  Over the network it may get lost; a replay source         *)
(* (LobsterReplay) numbers its updates the same way and its queue loses    *)
(* none.                                                                   *)
Publish(update) ==
  LET message == MDPMarketUpdate(Len(updates) + 1, update) IN
  /\ Len(updates) < MaxUpdates
  /\ updates' = Append(updates, update)
  /\ \/ /\ incremental_net' = Append(incremental_net, message)
        /\ UNCHANGED faults
     \/ /\ ~replay_mode_
        /\ MayFail
        /\ faults' = [faults EXCEPT !.lost = @ + 1]
        /\ UNCHANGED incremental_net
  /\ UNCHANGED <<replay_mode_, last_inc_seq_num_, cycle, snapshot_net, consumer, inbound>>

(* An incremental message that was sent before arrives once more.  The     *)
(* snapshot stream only loses: a repetition there is not modelled.         *)
Repeat(seq) ==
  /\ ~replay_mode_
  /\ MayFail
  /\ faults' = [faults EXCEPT !.repeated = @ + 1]
  /\ incremental_net' = Append(incremental_net, MDPMarketUpdate(seq, updates[seq]))
  /\ UNCHANGED <<exchange, snapshot_net, consumer, inbound>>

(* START, CLEAR, the orders that there are among all ids, END, numbered    *)
(* from 0                                                                  *)
snapshotMessages(orders, last) ==
  LET start == MEMarketUpdate("SNAPSHOT_START", last, 0)
      end == MEMarketUpdate("SNAPSHOT_END", last, 0)
      adds[id \in 0 .. MaxUpdates] ==
        IF id = 0 THEN << >>
        ELSE IF id \in DOMAIN orders THEN Append(adds[id - 1], orders[id]) ELSE adds[id - 1]
      all == <<start, MEMarketUpdate("CLEAR", 0, 0)>> \o adds[MaxUpdates] \o <<end>>
  IN  [i \in DOMAIN all |-> MDPMarketUpdate(i - 1, all[i])]

(* sendAndRecv() follows each order and END: the first datagram holds      *)
(* three messages, each of the others one.                                 *)
datagrams(messages) ==
  <<SubSeq(messages, 1, 3)>> \o [i \in 1 .. Len(messages) - 3 |-> <<messages[i + 3]>>]

addToSnapshotStep ==
  /\ ~replay_mode_
  /\ cycle = << >>
  /\ last_inc_seq_num_ < Len(updates)
  /\ last_inc_seq_num_' = last_inc_seq_num_ + 1
  /\ UNCHANGED <<replay_mode_, updates, cycle, incremental_net, snapshot_net, faults, consumer, inbound>>

(* The timer of SnapshotSynthesizer::run: only once the queue is drained.  *)
(* In the 60 seconds between two cycles the client has read the first.     *)
publishSnapshot ==
  /\ ~replay_mode_
  /\ cycle = << >>
  /\ last_inc_seq_num_ = Len(updates)
  /\ snapshot_net = << >> /\ inbound = << >>
  /\ cycle' = datagrams(snapshotMessages(bookAfter(last_inc_seq_num_), last_inc_seq_num_))
  /\ UNCHANGED <<replay_mode_, updates, last_inc_seq_num_, incremental_net, snapshot_net, faults,
                 consumer, inbound>>

(* The next datagram of the cycle: it reaches a client that has joined. *)
SendSnapshot ==
  /\ cycle # << >>
  /\ cycle' = Tail(cycle)
  /\ \/ /\ snapshot_net' = IF in_recovery_ THEN Append(snapshot_net, Head(cycle))
                           ELSE snapshot_net
        /\ UNCHANGED faults
     \/ /\ in_recovery_
        /\ MayFail
        /\ faults' = [faults EXCEPT !.lost = @ + 1]
        /\ UNCHANGED snapshot_net
  /\ UNCHANGED <<replay_mode_, updates, last_inc_seq_num_, incremental_net, consumer, inbound>>
-----------------------------------------------------------------------------
(* The client *)

(* What the trade engine's book should become: CLEAR empties it, of the    *)
(* others it makes what addToSnapshot does, and one for an id that is not  *)
(* there changes nothing.  MarketOrderBook is the book itself, where CLEAR *)
(* leaves freed levels behind and such an update would go through a null   *)
(* pointer; that none comes in a book like this one is BookAtSequence.     *)
applied(book, update) ==
  IF update.type_ = "CLEAR" THEN NoOrders ELSE addToSnapshot(book, update)

(* the trade engine reads what is sent, one after the other *)
replayed(book, sent) ==
  LET after[i \in 0 .. Len(sent)] ==
        IF i = 0 THEN book ELSE applied(after[i - 1], sent[i])
  IN  after[Len(sent)]

forward(sent, last) ==
  /\ forwarded' = replayed(forwarded, sent)
  /\ position' = last

waitInRecovery(snapshot, incremental) ==
  /\ in_recovery_' = TRUE
  /\ snapshot_queued_msgs_' = snapshot
  /\ incremental_queued_msgs_' = incremental
  /\ UNCHANGED <<forwarded, position>>

(* Mutant: incrementals behind a gap are taken for complete. *)
Mut_synchronizeOverGaps(snapshot, incremental) ==
  LET size == Cardinality(DOMAIN snapshot)
      last == snapshot[size - 1].order_id_
      next == Max(DOMAIN incremental \cup {last}) + 1
      recovered == [i \in 1 .. size - 2 |-> snapshot[i]]
      newer == SetToSortSeq({n \in DOMAIN incremental : n > last}, <)
  IN
  /\ next_exp_inc_seq_num_' = next
  /\ forward(recovered \o [i \in DOMAIN newer |-> incremental[newer[i]]], next - 1)
  /\ in_recovery_' = FALSE
  /\ snapshot_queued_msgs_' = NoMessages
  /\ incremental_queued_msgs_' = NoMessages

(* Mutant: incrementals the snapshot contains already are not skipped. *)
Mut_synchronizeNoSkip(snapshot, incremental) ==
  LET size == Cardinality(DOMAIN snapshot)
      last == snapshot[size - 1].order_id_
      next == Min({n \in last + 1 .. MaxUpdates + 1 : n \notin DOMAIN incremental})
      recovered == [i \in 1 .. size - 2 |-> snapshot[i]]
      newer == [i \in 1 .. next - 1 - last |-> incremental[last + i]]
  IN
  /\ next_exp_inc_seq_num_' = next
  /\ IF \E n \in DOMAIN incremental : n > next \/ n <= last
     THEN waitInRecovery(NoMessages, incremental)
     ELSE /\ forward(recovered \o newer, next - 1)
          /\ in_recovery_' = FALSE
          /\ snapshot_queued_msgs_' = NoMessages
          /\ incremental_queued_msgs_' = NoMessages

(* The second half of checkSnapshotSync: the snapshot is complete, and so  *)
(* must be the incrementals that follow the last one it contains.          *)
synchronize(snapshot, incremental) ==
  LET size == Cardinality(DOMAIN snapshot)
      last == snapshot[size - 1].order_id_
      next == Min({n \in last + 1 .. MaxUpdates + 1 : n \notin DOMAIN incremental})
      recovered == [i \in 1 .. size - 2 |-> snapshot[i]]
      newer == [i \in 1 .. next - 1 - last |-> incremental[last + i]]
  IN
  /\ next_exp_inc_seq_num_' = next
  /\ IF \E n \in DOMAIN incremental : n > next
     THEN waitInRecovery(NoMessages, incremental)
     ELSE /\ forward(recovered \o newer, next - 1)
          /\ in_recovery_' = FALSE
          /\ snapshot_queued_msgs_' = NoMessages
          /\ incremental_queued_msgs_' = NoMessages

checkSnapshotSync(snapshot, incremental) ==
  LET size == Cardinality(DOMAIN snapshot) IN
  IF size = 0
  THEN /\ waitInRecovery(snapshot, incremental)
       /\ UNCHANGED next_exp_inc_seq_num_
  ELSE IF \/ snapshot[Min(DOMAIN snapshot)].type_ # "SNAPSHOT_START"
          \/ DOMAIN snapshot # 0 .. size - 1
  THEN /\ waitInRecovery(NoMessages, incremental)
       /\ UNCHANGED next_exp_inc_seq_num_
  ELSE IF snapshot[size - 1].type_ # "SNAPSHOT_END"
  THEN /\ waitInRecovery(snapshot, incremental)
       /\ UNCHANGED next_exp_inc_seq_num_
  ELSE synchronize(snapshot, incremental)

queuedWith(messages, m) ==
  [n \in DOMAIN messages \cup {m.seq_num_} |->
     IF n = m.seq_num_ THEN m.update ELSE messages[n]]

(* A snapshot number seen before means that the next cycle has begun. *)
queueMessage(is_snapshot, m, snapshot, incremental) ==
  IF is_snapshot
  THEN checkSnapshotSync(IF m.seq_num_ \in DOMAIN snapshot
                         THEN queuedWith(NoMessages, m) ELSE queuedWith(snapshot, m),
                         incremental)
  ELSE checkSnapshotSync(snapshot, queuedWith(incremental, m))

(* Mutant: the message that reveals the gap is not queued. *)
Mut_recvMessageForgets(is_snapshot, m) ==
  IF in_recovery_
  THEN queueMessage(is_snapshot, m, snapshot_queued_msgs_, incremental_queued_msgs_)
  ELSE IF m.seq_num_ # next_exp_inc_seq_num_
  THEN waitInRecovery(NoMessages, NoMessages) /\ UNCHANGED next_exp_inc_seq_num_
  ELSE /\ next_exp_inc_seq_num_' = next_exp_inc_seq_num_ + 1
       /\ forward(<<m.update>>, m.seq_num_)
       /\ UNCHANGED <<in_recovery_, queued>>

(* One message of recvCallback; startSnapshotSync starts with empty queues. *)
recvMessage(is_snapshot, m) ==
  IF in_recovery_
  THEN queueMessage(is_snapshot, m, snapshot_queued_msgs_, incremental_queued_msgs_)
  ELSE IF m.seq_num_ # next_exp_inc_seq_num_
  THEN queueMessage(is_snapshot, m, NoMessages, NoMessages)
  ELSE /\ next_exp_inc_seq_num_' = next_exp_inc_seq_num_ + 1
       /\ forward(<<m.update>>, m.seq_num_)
       /\ UNCHANGED <<in_recovery_, queued>>

(* leave() closes the snapshot socket with all that is still in it. *)
LeaveOr(net) == snapshot_net' = IF in_recovery_ /\ ~in_recovery_' THEN << >> ELSE net

RecvIncremental ==
  /\ ~replay_mode_
  /\ inbound = << >>
  /\ incremental_net # << >>
  /\ recvMessage(FALSE, Head(incremental_net))
  /\ incremental_net' = Tail(incremental_net)
  /\ LeaveOr(snapshot_net)
  /\ UNCHANGED <<exchange, faults, inbound>>

RecvSnapshot ==
  /\ inbound = << >>
  /\ snapshot_net # << >>
  /\ inbound' = Head(snapshot_net)
  /\ snapshot_net' = Tail(snapshot_net)
  /\ UNCHANGED <<exchange, incremental_net, faults, consumer>>

(* The loop over the messages of a datagram.  END is the last of its       *)
(* datagram, so the client is still in recovery.                           *)
RecvSnapshotMessage ==
  /\ inbound # << >>
  /\ recvMessage(TRUE, Head(inbound))
  /\ inbound' = Tail(inbound)
  /\ LeaveOr(snapshot_net)
  /\ UNCHANGED <<exchange, incremental_net, faults>>

(* Replay mode: a gap is logged, and the message forwarded all the same. *)
ReplayMessage ==
  /\ replay_mode_
  /\ incremental_net # << >>
  /\ next_exp_inc_seq_num_' = Head(incremental_net).seq_num_ + 1
  /\ forward(<<Head(incremental_net).update>>, Head(incremental_net).seq_num_)
  /\ incremental_net' = Tail(incremental_net)
  /\ UNCHANGED <<exchange, snapshot_net, faults, in_recovery_, queued, inbound>>

-----------------------------------------------------------------------------
Exchange ==
  \/ \E update \in PossibleUpdates : Publish(update)
  \/ addToSnapshotStep
  \/ publishSnapshot
  \/ SendSnapshot

Consumer == RecvIncremental \/ RecvSnapshot \/ RecvSnapshotMessage \/ ReplayMessage

Next == Exchange \/ Consumer \/ \E seq \in DOMAIN updates : Repeat(seq)

Spec == Init /\ [][Next]_vars

(* Synthesizer and consumer are busy loops, and the snapshot timer fires   *)
(* again and again.  The engine need not have anything to publish.         *)
FairSpec ==
  /\ Spec
  /\ WF_vars(addToSnapshotStep) /\ WF_vars(publishSnapshot) /\ WF_vars(SendSnapshot)
  /\ WF_vars(RecvIncremental) /\ WF_vars(RecvSnapshot) /\ WF_vars(RecvSnapshotMessage)

-----------------------------------------------------------------------------
(* Properties *)

(* The client's book is at every moment the exchange's book of an earlier  *)
(* moment, never a mixture, and when the consumer is not in recovery of    *)
(* the moment its next expected number says.                               *)
BookAtSequence ==
  /\ forwarded = bookAfter(position)
  /\ ~in_recovery_ => position = next_exp_inc_seq_num_ - 1

(* Recovery never takes the client back behind an update it has forwarded  *)
(* before, although snapshots and incrementals arrive on two streams and   *)
(* datagrams of both are lost.  A message received again may take it back: *)
(* its number is not the expected one, and the snapshot that follows may   *)
(* be older than the book.                                                 *)
NeverGoesBack == [][faults.repeated = 0 => position' >= position]_vars

(* A client that has lost updates is synchronized again, whatever updates  *)
(* and losses cross with the snapshots.                                    *)
RecoveryEnds == in_recovery_ ~> ~in_recovery_
=============================================================================
