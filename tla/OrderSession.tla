---------------------------- MODULE OrderSession ----------------------------
(***************************************************************************)
(* Order entry: each client's OrderGateway, the TCP connections, and the   *)
(* exchange's OrderServer with its FIFOSequencer in front of the matching  *)
(* engine.                                                                 *)
(*                                                                         *)
(* A connection delivers whole messages here.  The bytes of a message that *)
(* is only partly there wait in inbound_data_ until the rest has come, as  *)
(* if the message arrived then.  A send() that the kernel cuts short may   *)
(* be cut inside a message, at any byte.  The fragment is then completed   *)
(* by the first bytes of the next buffer, and all that follows is out of   *)
(* frame.  The packed messages of both directions begin with seq_num_, 8   *)
(* bytes, type_ and client_id_: a fragment of 13 bytes or more is taken    *)
(* for the message that was cut, with a content nobody sent; a shorter one *)
(* and everything out of frame may be taken for anything.                  *)
(***************************************************************************)
EXTENDS Integers, Sequences, FiniteSets, FiniteSetsExt, SequencesExt

CONSTANTS
  Clients,
  StableUpTo,    \* std::sort keeps the order of equal elements up to this size
                 \* (16 in libstdc++, which then sorts by insertion)
  MaxPending,    \* ME_MAX_PENDING_REQUESTS
  MaxRequests,   \* bound on the requests of all clients together
  MaxResponses,  \* bound on the engine's responses
  StrayNumbers,  \* the sequence numbers that bytes out of frame may show
  MaxFaults      \* bound on the restarts of clients and the sends cut short

ASSUME ClientsAssumption == IsFiniteSet(Clients)
ASSUME BoundsAssumption ==
  /\ StableUpTo \in Nat /\ MaxPending \in Nat /\ StrayNumbers \subseteq Nat
  /\ MaxRequests \in Nat /\ MaxResponses \in Nat /\ MaxFaults \in Nat

Sockets == Clients \X (1 .. MaxFaults + 1)
nullptr == << >>
Directions == {"requests", "responses"}

(* What a receiver finds in an OMClientRequest or OMClientResponse.  The   *)
(* content number says which request or response of the session it is, 0   *)
(* if it was pieced together from two.                                     *)
Message == [seq_num_ : Nat, client_id_ : Clients, number : Nat]
Stray == [seq_num_ : StrayNumbers, client_id_ : Clients, number : {0}]

VARIABLES
  (* the gateways *)
  session,                     \* which start of the client this is
  next_outgoing_seq_num_,
  next_exp_seq_num_,
  outbound,                    \* requests in the socket's outbound_data_
  received,                    \* responses passed on to the trade engine
  (* the network *)
  backlog,                     \* connections not yet accepted
  to_server,                   \* requests in the kernel of the server
  to_client,                   \* responses in the kernel of the client
  rest,                        \* of each direction and socket, the fragment of a message
                               \* at the receiver's end: what it will be taken for
  torn,                        \* ghost: the sockets of each direction on which a send
                               \* was cut inside a message
  shorts,                      \* sends cut short
  restarts,                    \* and starts anew of clients, for the bound
  sent_requests,               \* for the bound
  (* the order server *)
  receive_sockets_,
  turn,                        \* where run() is: in 1 .. n at this socket of n, at
                               \* n + 1 before recv_finished_callback_, at n + 2
                               \* in the loop over the responses
  cid_tcp_socket_,
  cid_next_exp_seq_num_,
  cid_next_outgoing_seq_num_,
  server_outbound,             \* responses in outbound_data_ of each socket
  pending_client_requests_,
  failed,                      \* FATAL has ended the exchange
  (* the matching engine *)
  published,                   \* the requests it was given, with the poll they came
                               \* from if that had more than StableUpTo
  responded,                   \* how often it answered each client
  outgoing_responses_

gateways == <<session, next_outgoing_seq_num_, next_exp_seq_num_, outbound, received>>
network == <<backlog, to_server, to_client, rest, torn, shorts, restarts, sent_requests>>
sessions == <<cid_tcp_socket_, cid_next_exp_seq_num_, cid_next_outgoing_seq_num_>>
server == <<receive_sockets_, turn, sessions, server_outbound, pending_client_requests_, failed>>
engine == <<published, responded, outgoing_responses_>>
vars == <<gateways, network, server, engine>>

Init ==
  /\ session = [c \in Clients |-> 1]
  /\ next_outgoing_seq_num_ = [c \in Clients |-> 1]
  /\ next_exp_seq_num_ = [c \in Clients |-> 1]
  /\ outbound = [c \in Clients |-> << >>]
  /\ received = [c \in Clients |-> << >>]
  /\ backlog = SetToSeq(Clients \X {1})
  /\ to_server = [s \in Sockets |-> << >>]
  /\ to_client = [s \in Sockets |-> << >>]
  /\ rest = [d \in Directions |-> [s \in Sockets |-> << >>]]
  /\ torn = [d \in Directions |-> {}]
  /\ shorts = 0
  /\ restarts = 0
  /\ sent_requests = 0
  /\ receive_sockets_ = << >>
  /\ turn = 2
  /\ cid_tcp_socket_ = [c \in Clients |-> nullptr]
  /\ cid_next_exp_seq_num_ = [c \in Clients |-> 1]
  /\ cid_next_outgoing_seq_num_ = [c \in Clients |-> 1]
  /\ server_outbound = [s \in Sockets |-> << >>]
  /\ pending_client_requests_ = << >>
  /\ failed = FALSE
  /\ published = << >>
  /\ responded = [c \in Clients |-> 0]
  /\ outgoing_responses_ = << >>

MayFail == shorts + restarts < MaxFaults

socketOf(c) == <<c, session[c]>>

(* Kernel time, as far as it matters: later than every arrival that has    *)
(* not been published.                                                     *)
now ==
  1 + Max({0} \cup {pending_client_requests_[i].recv_time_ : i \in DOMAIN pending_client_requests_}
              \cup UNION {{to_server[s][i].arrival : i \in DOMAIN to_server[s]} : s \in Sockets})

(* What ::send may take of a buffer, which is emptied whatever it took,    *)
(* and what the receiver finds behind a fragment: the messages that are    *)
(* complete then, and the fragment that follows.  Out of frame each        *)
(* message sent completes one and leaves as much of another.               *)
Strays(n) == [1 .. n -> Stray]

Arrives(fragment, buffer, k) ==
  IF fragment = << >> THEN {<<SubSeq(buffer, 1, k), << >>>>}
  ELSE {<<SubSeq(fragment \o strays, 1, k), <<(fragment \o strays)[k + 1]>>>> : strays \in Strays(k)}

(* The next message was cut; its bytes may bring the stream into frame.    *)
ArrivesCut(fragment, buffer, k) ==
  IF fragment = << >>
  THEN {<<SubSeq(buffer, 1, k), <<m>>>> : m \in {[buffer[k + 1] EXCEPT !.number = 0]} \cup Stray}
  ELSE {<<fragment \o strays, << >>>> : strays \in Strays(k)} \cup Arrives(fragment, buffer, k + 1)

Sends(d, socket, buffer) ==
  LET fragment == rest[d][socket]
      outcome(taken, short) == [arrived |-> taken[1], rest |-> taken[2], short |-> short]
  IN
  {outcome(taken, 0) : taken \in Arrives(fragment, buffer, Len(buffer))} \cup
  {outcome(taken, 1) :
     taken \in UNION {Arrives(fragment, buffer, k) \cup ArrivesCut(fragment, buffer, k) :
                       k \in IF MayFail THEN 0 .. Len(buffer) - 1 ELSE {}}}

Transmitted(d, socket, sent) ==
  /\ shorts' = shorts + sent.short
  /\ rest' = [rest EXCEPT ![d][socket] = sent.rest]
  /\ torn' = IF sent.rest = << >> THEN torn ELSE [torn EXCEPT ![d] = @ \cup {socket}]

-----------------------------------------------------------------------------
(* The gateways *)

(* A client that has died starts again: a new process with a new           *)
(* connection.  What it had sent before may still reach the server.        *)
start(c) ==
  /\ MayFail
  /\ session' = [session EXCEPT ![c] = @ + 1]
  /\ next_outgoing_seq_num_' = [next_outgoing_seq_num_ EXCEPT ![c] = 1]
  /\ next_exp_seq_num_' = [next_exp_seq_num_ EXCEPT ![c] = 1]
  /\ outbound' = [outbound EXCEPT ![c] = << >>]
  /\ received' = [received EXCEPT ![c] = << >>]
  /\ backlog' = Append(backlog, <<c, session[c] + 1>>)
  /\ \E kept \in BOOLEAN :
       to_server' = [s \in Sockets |-> IF s = socketOf(c) /\ ~kept THEN << >> ELSE to_server[s]]
  /\ to_client' = [s \in Sockets |-> IF s = socketOf(c) THEN << >> ELSE to_client[s]]
  /\ restarts' = restarts + 1
  /\ UNCHANGED <<rest, torn, shorts, sent_requests, server, engine>>

(* The second half of run(): a request of the trade engine gets its number *)
(* and goes to the socket's buffer.                                        *)
SendRequest(c) ==
  /\ sent_requests < MaxRequests
  /\ sent_requests' = sent_requests + 1
  /\ outbound' = [outbound EXCEPT ![c] =
                    Append(@, [seq_num_ |-> next_outgoing_seq_num_[c], client_id_ |-> c,
                               number |-> next_outgoing_seq_num_[c]])]
  /\ next_outgoing_seq_num_' = [next_outgoing_seq_num_ EXCEPT ![c] = @ + 1]
  /\ UNCHANGED <<session, next_exp_seq_num_, received, backlog, to_server, to_client, rest, torn,
                 shorts, restarts, server, engine>>

(* Mutant: the sequence number is not looked at. *)
Mut_recvResponseUnchecked(c, state, response) ==
  IF response.client_id_ # c THEN state
  ELSE [next |-> response.seq_num_ + 1, received |-> Append(state.received, response.number)]

(* recvCallback, one response; it is dropped if it is not for this client  *)
(* or its number is not the next                                           *)
recvResponse(c, state, response) ==
  IF response.client_id_ # c \/ response.seq_num_ # state.next THEN state
  ELSE [next |-> state.next + 1, received |-> Append(state.received, response.number)]

(* its loop over all that a read has brought *)
recvResponses(c, state, responses) ==
  LET after[k \in 0 .. Len(responses)] ==
        IF k = 0 THEN state ELSE recvResponse(c, after[k - 1], responses[k])
  IN  after[Len(responses)]

(* sendAndRecv() of the gateway *)
GatewaySocket(c) ==
  LET after == recvResponses(c, [next |-> next_exp_seq_num_[c], received |-> received[c]],
                             to_client[socketOf(c)])
  IN
  /\ to_client[socketOf(c)] # << >> \/ outbound[c] # << >>
  /\ next_exp_seq_num_' = [next_exp_seq_num_ EXCEPT ![c] = after.next]
  /\ received' = [received EXCEPT ![c] = after.received]
  /\ to_client' = [to_client EXCEPT ![socketOf(c)] = << >>]
  /\ outbound' = [outbound EXCEPT ![c] = << >>]
  /\ \E sent \in Sends("requests", socketOf(c), outbound[c]) :
       /\ Transmitted("requests", socketOf(c), sent)
       /\ to_server' =
            [to_server EXCEPT ![socketOf(c)] =
               @ \o [i \in DOMAIN sent.arrived |-> [request |-> sent.arrived[i], arrival |-> now]]]
  /\ UNCHANGED <<session, next_outgoing_seq_num_, backlog, restarts, sent_requests, server, engine>>

-----------------------------------------------------------------------------
(* The order server.  run() goes round poll(), sendAndRecv() and the loop  *)
(* over the responses.                                                     *)

poll ==
  /\ ~failed
  /\ turn = Len(receive_sockets_) + 2
  /\ outgoing_responses_ = << >>
  /\ receive_sockets_' = receive_sockets_ \o backlog
  /\ backlog' = << >>
  /\ turn' = 1
  /\ UNCHANGED <<gateways, to_server, to_client, rest, torn, shorts, restarts, sent_requests, sessions,
                 server_outbound, pending_client_requests_, failed, engine>>

(* The state of recvCallback: the tables and the sequencer's array. *)
Received(state, c, socket, rx_time, request) ==
  [state EXCEPT !.socket[c] = socket, !.next[c] = request.seq_num_ + 1,
     !.pending = Append(@, [recv_time_ |-> rx_time, socket |-> socket, request |-> request])]

(* Mutant: the sequence number is not looked at. *)
Mut_recvRequestUnchecked(state, socket, rx_time, request) ==
  LET c == request.client_id_ IN
  IF state.socket[c] \notin {nullptr, socket} THEN state
  ELSE Received(state, c, socket, rx_time, request)

(* Mutant: the first request does not tie the client to its socket. *)
Mut_recvRequestUntied(state, socket, rx_time, request) ==
  LET c == request.client_id_ IN
  IF state.socket[c] \notin {nullptr, socket} \/ request.seq_num_ # state.next[c] THEN state
  ELSE [Received(state, c, socket, rx_time, request) EXCEPT !.socket = state.socket]

(* recvCallback, one request: the first one ties the client to its socket, *)
(* others must come from there and have the next number.                   *)
recvRequest(state, socket, rx_time, request) ==
  LET c == request.client_id_ IN
  IF state.socket[c] \notin {nullptr, socket} THEN state
  ELSE IF request.seq_num_ # state.next[c] THEN [state EXCEPT !.socket[c] = socket]
  ELSE Received(state, c, socket, rx_time, request)

(* its loop over all that a read has brought; all get the time of the last *)
recvRequests(state, socket, messages) ==
  LET after[k \in 0 .. Len(messages)] ==
        IF k = 0 THEN state
        ELSE recvRequest(after[k - 1], socket, Last(messages).arrival, messages[k].request)
  IN  after[Len(messages)]

(* sendAndRecv() of the next socket.  addClientRequest ends the exchange   *)
(* when there are too many requests, and a client_id_ out of frame that is *)
(* beyond the tables may end it as well.                                   *)
ServeSocket ==
  /\ ~failed
  /\ turn \in DOMAIN receive_sockets_
  /\ LET socket == receive_sockets_[turn]
         c == socket[1]
         after == recvRequests([socket |-> cid_tcp_socket_, next |-> cid_next_exp_seq_num_,
                                pending |-> pending_client_requests_],
                               socket, to_server[socket])
         strays == {i \in DOMAIN to_server[socket] : to_server[socket][i].request.number = 0}
     IN
     /\ to_server' = [to_server EXCEPT ![socket] = << >>]
     /\ cid_tcp_socket_' = after.socket
     /\ cid_next_exp_seq_num_' = after.next
     /\ pending_client_requests_' = after.pending
     /\ failed' \in {Len(after.pending) > MaxPending, Len(after.pending) > MaxPending \/ strays # {}}
     /\ server_outbound' = [server_outbound EXCEPT ![socket] = << >>]
     /\ \E sent \in Sends("responses", socket, server_outbound[socket]) :
          /\ Transmitted("responses", socket, sent)
          /\ to_client' = IF socket = socketOf(c)
                          THEN [to_client EXCEPT ![socket] = @ \o sent.arrived] ELSE to_client
  /\ turn' = turn + 1
  /\ UNCHANGED <<gateways, backlog, restarts, sent_requests, receive_sockets_,
                 cid_next_outgoing_seq_num_, engine>>

(* What std::sort may make of requests compared by their receive time.     *)
sorted(requests) ==
  LET n == Len(requests)
      orders == {p \in [1 .. n -> 1 .. n] :
                   /\ \A i, j \in 1 .. n : i # j => p[i] # p[j]
                   /\ \A i, j \in 1 .. n : i < j =>
                        /\ requests[p[i]].recv_time_ <= requests[p[j]].recv_time_
                        /\ n <= StableUpTo /\ requests[p[i]].recv_time_ = requests[p[j]].recv_time_
                             => p[i] < p[j]}
  IN  {[i \in 1 .. n |-> requests[p[i]]] : p \in orders}

(* recv_finished_callback_; with nothing pending it changes nothing. *)
sequenceAndPublish ==
  /\ ~failed
  /\ turn = Len(receive_sockets_) + 1
  /\ LET batch == IF Len(pending_client_requests_) > StableUpTo THEN Len(published) + 1 ELSE 0 IN
     \E requests \in sorted(pending_client_requests_) :
       published' = published \o
         [i \in DOMAIN requests |-> [socket |-> requests[i].socket, request |-> requests[i].request,
                                     poll |-> batch]]
  /\ pending_client_requests_' = << >>
  /\ turn' = turn + 1
  /\ UNCHANGED <<gateways, network, receive_sockets_, sessions, server_outbound, failed,
                 responded, outgoing_responses_>>

(* Mutant: the number of the next response is not counted up. *)
Mut_SendResponseSameNumber ==
  /\ ~failed
  /\ turn = Len(receive_sockets_) + 2
  /\ outgoing_responses_ # << >>
  /\ LET response == Head(outgoing_responses_)
         socket == cid_tcp_socket_[response.client_id_]
     IN  /\ socket # nullptr
         /\ server_outbound' =
              [server_outbound EXCEPT ![socket] =
                 Append(@, [seq_num_ |-> cid_next_outgoing_seq_num_[response.client_id_],
                            client_id_ |-> response.client_id_, number |-> response.number])]
  /\ outgoing_responses_' = Tail(outgoing_responses_)
  /\ UNCHANGED <<gateways, network, receive_sockets_, turn, sessions,
                 pending_client_requests_, failed, published, responded>>

(* One response.  The ASSERT on the socket ends the exchange, so the guard *)
(* is its passing.                                                         *)
SendResponse ==
  /\ ~failed
  /\ turn = Len(receive_sockets_) + 2
  /\ outgoing_responses_ # << >>
  /\ LET response == Head(outgoing_responses_)
         c == response.client_id_
         socket == cid_tcp_socket_[c]
     IN  /\ socket # nullptr
         /\ server_outbound' =
              [server_outbound EXCEPT ![socket] =
                 Append(@, [seq_num_ |-> cid_next_outgoing_seq_num_[c], client_id_ |-> c,
                            number |-> response.number])]
         /\ cid_next_outgoing_seq_num_' = [cid_next_outgoing_seq_num_ EXCEPT ![c] = @ + 1]
  /\ outgoing_responses_' = Tail(outgoing_responses_)
  /\ UNCHANGED <<gateways, network, receive_sockets_, turn, cid_tcp_socket_,
                 cid_next_exp_seq_num_, pending_client_requests_, failed, published, responded>>

(* The matching engine answers, once or more often, a client it has a      *)
(* request from.  What it makes of a request that nobody sent is left out. *)
sendClientResponse(c) ==
  /\ ~failed
  /\ \E i \in DOMAIN published : published[i].request.client_id_ = c
  /\ MapThenSumSet(LAMBDA d : responded[d], Clients) < MaxResponses
  /\ responded' = [responded EXCEPT ![c] = @ + 1]
  /\ outgoing_responses_' = Append(outgoing_responses_, [client_id_ |-> c, number |-> responded[c] + 1])
  /\ UNCHANGED <<gateways, network, server, published>>

-----------------------------------------------------------------------------
OrderServer == poll \/ ServeSocket \/ sequenceAndPublish \/ SendResponse

Next ==
  \/ \E c \in Clients : start(c) \/ SendRequest(c) \/ GatewaySocket(c) \/ sendClientResponse(c)
  \/ OrderServer

Spec == Init /\ [][Next]_vars

(* Gateways and server are busy loops.  Clients need not start or send,    *)
(* and the engine need not answer.                                         *)
FairSpec == Spec /\ WF_vars(OrderServer) /\ \A c \in Clients : WF_vars(GatewaySocket(c))

-----------------------------------------------------------------------------
(* Properties *)

(* The places in what the engine has been given of requests of client c. *)
requestsOf(c) == {i \in DOMAIN published : published[i].request.client_id_ = c}

(* recvCallback of the server: whatever is lost in a short send, at        *)
(* whatever byte it is cut, and however often a client starts anew, the    *)
(* engine is given of each client the numbers 1 to k, each once, and all   *)
(* from one connection.  They are in order, so that a cancel never         *)
(* overtakes its order; only within one poll that has collected more       *)
(* requests than std::sort leaves in place may two be exchanged, for all   *)
(* those of one read have one time.  And they are what that client sent    *)
(* under these numbers, as long as no send on the connection was cut       *)
(* inside a message.                                                       *)
RequestsOnceInOrder ==
  \A c \in Clients : \A i, j \in requestsOf(c) :
    LET one == published[i]
        other == published[j]
    IN
    /\ one.socket = other.socket
    /\ i # j => one.request.seq_num_ # other.request.seq_num_
    /\ one.request.seq_num_ >= 1
    /\ \A n \in 1 .. one.request.seq_num_ : \E k \in requestsOf(c) : published[k].request.seq_num_ = n
    /\ i < j => \/ one.request.seq_num_ < other.request.seq_num_
                \/ one.poll = other.poll /\ one.poll # 0
    /\ one.socket \notin torn["requests"] =>
         one.socket[1] = c /\ one.request.number = one.request.seq_num_

(* The trade engine of a client reads the first responses to it, in order, *)
(* and none that was meant for an earlier session of the same client.  One *)
(* that nobody sent it reads only after a send was cut inside a message.   *)
ResponsesInOrder ==
  \A c \in Clients : \A i \in DOMAIN received[c] :
    \/ received[c][i] = i /\ cid_tcp_socket_[c] = socketOf(c)
    \/ received[c][i] = 0 /\ socketOf(c) \in torn["responses"]

(* The ASSERT of OrderServer::run never fails: whoever is answered has a   *)
(* socket.                                                                 *)
NoSocketAssert ==
  \A i \in DOMAIN outgoing_responses_ :
    cid_tcp_socket_[outgoing_responses_[i].client_id_] # nullptr

(* Once the clients and the engine have stopped sending, every request has *)
(* reached the engine and every response the client for good, unless a     *)
(* send was cut short, the client has started again or the exchange has    *)
(* given up.                                                               *)
Excused(c) == shorts > 0 \/ failed \/ session[c] > 1
SessionDelivers ==
  <>[](\A c \in Clients :
         \/ /\ Cardinality(requestsOf(c)) = next_outgoing_seq_num_[c] - 1
            /\ Len(received[c]) = responded[c]
         \/ Excused(c))
=============================================================================
