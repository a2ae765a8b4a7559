------------------------- MODULE OrderSessionProofs -------------------------
(***************************************************************************)
(* Proofs about OrderSession, for any set of clients and any bounds, with  *)
(* sends cut short anywhere and clients that start anew: what the server   *)
(* accepts of a client and what a client accepts of the server.            *)
(*                                                                         *)
(* All rests on the two checks of the server's recvCallback.  The socket   *)
(* a client is tied to never changes, so whatever is pending, published or *)
(* on its way to the client belongs to it (TiedRequests, TiedResponses).   *)
(* Of a client exactly the numbers below cid_next_exp_seq_num_ have been   *)
(* accepted, each once, the pending ones after those published (Accepted). *)
(* That the sort leaves them in order needs the round of run(): a socket   *)
(* is served once in a round, so all that is pending of a client has one   *)
(* time (Round).  What nobody sent only comes from a socket on which a     *)
(* send was cut inside a message (Fragments, Genuine).                     *)
(***************************************************************************)
EXTENDS OrderSession, FunctionTheorems, FiniteSetTheorems, WellFoundedInduction, SequenceTheorems, TLAPS

-----------------------------------------------------------------------------
(* The inductive invariant *)

(* q is a sequence, of whatever elements *)
IsSequence(q) == \E S : q \in Seq(S)

Types ==
  /\ session \in [Clients -> Nat]
  /\ next_outgoing_seq_num_ \in [Clients -> Nat]
  /\ next_exp_seq_num_ \in [Clients -> Nat]
  /\ outbound \in [Clients -> Seq(Message)]
  /\ received \in [Clients -> Seq(Nat)]
  /\ backlog \in Seq(Sockets)
  /\ DOMAIN to_server = Sockets
  /\ \A s \in Sockets : IsSequence(to_server[s])
  /\ to_server = [s \in Sockets |-> to_server[s]]
  /\ to_client \in [Sockets -> Seq(Message)]
  /\ rest \in [Directions -> [Sockets -> Seq(Message)]]
  /\ torn \in [Directions -> SUBSET Sockets]
  /\ shorts \in Nat
  /\ restarts \in 0 .. MaxFaults
  /\ receive_sockets_ \in Seq(Sockets)
  /\ turn \in 1 .. Len(receive_sockets_) + 2
  /\ cid_tcp_socket_ \in [Clients -> Sockets \cup {nullptr}]
  /\ cid_next_exp_seq_num_ \in [Clients -> Nat]
  /\ cid_next_outgoing_seq_num_ \in [Clients -> Nat]
  /\ server_outbound \in [Sockets -> Seq(Message)]
  /\ IsSequence(pending_client_requests_)
  /\ published \in Seq([socket : Sockets, request : Message, poll : Nat])
  /\ responded \in [Clients -> Nat]
  /\ outgoing_responses_ \in Seq([client_id_ : Clients, number : Nat])

(* The sessions of a client are its first connection and one for each restart. *)
Sessions == \A c \in Clients : session[c] \in 1 .. restarts + 1

(* Only behind a send that was cut inside a message a fragment waits. *)
Nameless(q) == \A i \in DOMAIN q : q[i].number = 0
Fragments ==
  \A d \in Directions : \A s \in Sockets :
    Nameless(rest[d][s]) /\ (rest[d][s] # << >> => s \in torn[d])

(* What comes from a socket is what its client sent, unless it is torn. *)
SentBy(c, request) == request.client_id_ = c /\ request.number = request.seq_num_
Intact(socket, request) == socket \notin torn["requests"] => SentBy(socket[1], request)
Requests(q) ==
  \A i \in DOMAIN q : q[i].socket \in Sockets /\ q[i].request \in Message /\ Intact(q[i].socket, q[i].request)
Genuine ==
  /\ \A c \in Clients : \A i \in DOMAIN outbound[c] : SentBy(c, outbound[c][i])
  /\ \A s \in Sockets : \A i \in DOMAIN to_server[s] :
       to_server[s][i].request \in Message /\ Intact(s, to_server[s][i].request)
  /\ Requests(pending_client_requests_)
  /\ Requests(published)

(* Connections are accepted once, and pending requests are of the sockets  *)
(* that were served in this round, one read of each.                       *)
Round ==
  /\ \A i \in DOMAIN receive_sockets_ : receive_sockets_[i][2] <= session[receive_sockets_[i][1]]
  /\ \A i \in DOMAIN backlog : backlog[i][2] <= session[backlog[i][1]]
  /\ \A i, j \in DOMAIN receive_sockets_ : receive_sockets_[i] = receive_sockets_[j] => i = j
  /\ \A i, j \in DOMAIN backlog : backlog[i] = backlog[j] => i = j
  /\ \A i \in DOMAIN receive_sockets_, j \in DOMAIN backlog : receive_sockets_[i] # backlog[j]
  /\ \A i \in DOMAIN pending_client_requests_ :
       \E k \in DOMAIN receive_sockets_ : k < turn /\ pending_client_requests_[i].socket = receive_sockets_[k]
  /\ \A i, j \in DOMAIN pending_client_requests_ :
       pending_client_requests_[i].socket = pending_client_requests_[j].socket
         => pending_client_requests_[i].recv_time_ = pending_client_requests_[j].recv_time_
  /\ turn = Len(receive_sockets_) + 2 => pending_client_requests_ = << >>

(* Requests of a client are taken from the socket it is tied to. *)
TiedIn(socket, q) == \A i \in DOMAIN q : socket[q[i].request.client_id_] = q[i].socket
TiedRequests == TiedIn(cid_tcp_socket_, pending_client_requests_) /\ TiedIn(cid_tcp_socket_, published)

(* Responses to a client go there, under the number the engine gave them.  *)
Answer(s, response) == cid_tcp_socket_[response.client_id_] = s /\ response.seq_num_ = response.number
Arrived(s, response) == Answer(s, response) \/ (response.number = 0 /\ s \in torn["responses"])
TiedResponses ==
  /\ \A s \in Sockets : \A i \in DOMAIN server_outbound[s] : Answer(s, server_outbound[s][i])
  /\ \A s \in Sockets : \A i \in DOMAIN to_client[s] : Arrived(s, to_client[s][i])
  /\ \A i \in DOMAIN outgoing_responses_ : cid_tcp_socket_[outgoing_responses_[i].client_id_] # nullptr

(* Of each client the numbers below the next expected one were accepted,   *)
(* each once, and what is pending comes after what has been published.     *)
AcceptedIn(next, pending) ==
  /\ \A i \in DOMAIN published :
       published[i].request.seq_num_ \in 1 .. next[published[i].request.client_id_] - 1
  /\ \A i \in DOMAIN pending :
       pending[i].request.seq_num_ \in 1 .. next[pending[i].request.client_id_] - 1
  /\ \A c \in Clients : \A n \in 1 .. next[c] - 1 :
       \/ \E i \in DOMAIN published :
            published[i].request.client_id_ = c /\ published[i].request.seq_num_ = n
       \/ \E i \in DOMAIN pending : pending[i].request.client_id_ = c /\ pending[i].request.seq_num_ = n
  /\ \A i \in DOMAIN published, j \in DOMAIN pending :
       published[i].request.client_id_ = pending[j].request.client_id_
         => published[i].request.seq_num_ < pending[j].request.seq_num_
  /\ \A i, j \in DOMAIN pending :
       i < j /\ pending[i].request.client_id_ = pending[j].request.client_id_
         => pending[i].request.seq_num_ < pending[j].request.seq_num_
  /\ \A c \in Clients : next[c] >= 1
Accepted == AcceptedIn(cid_next_exp_seq_num_, pending_client_requests_)

(* What was published keeps the order, but for what the sort exchanges.    *)
Ordered ==
  \A i, j \in DOMAIN published :
    published[i].request.client_id_ = published[j].request.client_id_ =>
      /\ i # j => published[i].request.seq_num_ # published[j].request.seq_num_
      /\ i < j => \/ published[i].request.seq_num_ < published[j].request.seq_num_
                  \/ published[i].poll = published[j].poll /\ published[i].poll # 0

(* The engine's responses to a client that wait for the server have the    *)
(* next numbers, one after the other, so that a response keeps its number. *)
Waiting ==
  /\ \A i \in DOMAIN outgoing_responses_ :
       outgoing_responses_[i].number
         \in cid_next_outgoing_seq_num_[outgoing_responses_[i].client_id_]
             .. responded[outgoing_responses_[i].client_id_]
  /\ \A i, j \in DOMAIN outgoing_responses_ :
       i < j /\ outgoing_responses_[i].client_id_ = outgoing_responses_[j].client_id_
         => outgoing_responses_[i].number < outgoing_responses_[j].number
  /\ \A c \in Clients : \A n \in cid_next_outgoing_seq_num_[c] .. responded[c] :
       \E i \in DOMAIN outgoing_responses_ :
         outgoing_responses_[i].client_id_ = c /\ outgoing_responses_[i].number = n

(* The server does not run ahead of the engine. *)
Ahead == \A c \in Clients : cid_next_outgoing_seq_num_[c] <= responded[c] + 1

(* What a gateway has passed on: each response in its place, or something  *)
(* that came behind a send cut inside a message.                           *)
InPlace(c, i, number) ==
  \/ number = i /\ cid_tcp_socket_[c] = socketOf(c)
  \/ number = 0 /\ socketOf(c) \in torn["responses"]
PassedOn(c, next, passed) ==
  /\ passed \in Seq(Nat)
  /\ next = Len(passed) + 1
  /\ \A i \in DOMAIN passed : InPlace(c, i, passed[i])
Delivered == \A c \in Clients : PassedOn(c, next_exp_seq_num_[c], received[c])

IInv ==
  /\ Types /\ Sessions /\ Fragments /\ Genuine /\ Round
  /\ TiedRequests /\ TiedResponses /\ Accepted /\ Ordered
  /\ Waiting /\ Ahead /\ Delivered

-----------------------------------------------------------------------------
(* Sequences *)

(* < on the natural numbers as a set of pairs *)
Less == {p \in Nat \X Nat : p[1] < p[2]}

(* Every set of naturals has a least element: claims about the loops of    *)
(* recvCallback are proved from the first iteration at which they fail.    *)
LEMMA LeastElement ==
  ASSUME NEW T \in SUBSET Nat, T # {}
  PROVE  \E n \in T : \A m \in T : n <= m
<1>1. IsWellFoundedOn(Less, Nat)
  BY NatLessThanWellFounded DEF OpToRel, Less
<1>2. PICK n \in T : \A m \in T : ~(<<m, n>> \in Less)
  BY <1>1, WFMin, Zenon
<1>3. ASSUME NEW m \in T, m < n PROVE FALSE
  <2>1. <<m, n>> \in Nat \X Nat
    OBVIOUS
  <2>2. <<m, n>>[1] < <<m, n>>[2]
    BY <1>3
  <2> QED BY <2>1, <2>2, <1>2 DEF Less
<1> QED BY <1>3

(* The domain of a sequence. *)
LEMMA SequenceIs ==
  ASSUME NEW q, IsSequence(q)
  PROVE  /\ Len(q) \in Nat
         /\ DOMAIN q = 1 .. Len(q)
         /\ q = << >> <=> Len(q) = 0
<1>1. PICK S : q \in Seq(S)
  BY DEF IsSequence
<1> QED BY <1>1

(* The elements of a sequence. *)
LEMMA ElementOf ==
  ASSUME NEW S, NEW q \in Seq(S)
  PROVE  Len(q) \in Nat /\ DOMAIN q = 1 .. Len(q) /\ \A i \in 1 .. Len(q) : q[i] \in S
OBVIOUS

(* The concatenation of sequences of one kind. *)
LEMMA ConcatOf ==
  ASSUME NEW S, NEW q \in Seq(S), NEW r \in Seq(S)
  PROVE  q \o r \in Seq(S) /\ Len(q \o r) = Len(q) + Len(r) /\ DOMAIN (q \o r) = 1 .. Len(q) + Len(r)
OBVIOUS

(* What Append does to a sequence of anything. *)
LEMMA AppendIs ==
  ASSUME NEW q, IsSequence(q), NEW x
  PROVE  /\ IsSequence(Append(q, x))
         /\ Len(Append(q, x)) = Len(q) + 1
         /\ \A i \in 1 .. Len(q) : Append(q, x)[i] = q[i]
         /\ Append(q, x)[Len(q) + 1] = x
<1>1. PICK S : q \in Seq(S)
  BY DEF IsSequence
<1>2. q \in Seq(S \cup {x}) /\ x \in S \cup {x}
  BY <1>1
<1>3. Append(q, x) \in Seq(S \cup {x})
  BY <1>2
<1> QED BY <1>2, <1>3 DEF IsSequence

(* What concatenation does. *)
LEMMA ConcatIs ==
  ASSUME NEW q, IsSequence(q), NEW r, IsSequence(r)
  PROVE  /\ IsSequence(q \o r)
         /\ Len(q \o r) = Len(q) + Len(r)
         /\ \A i \in 1 .. Len(q) : (q \o r)[i] = q[i]
         /\ \A i \in Len(q) + 1 .. Len(q) + Len(r) : (q \o r)[i] = r[i - Len(q)]
<1>1. PICK S : q \in Seq(S)
  BY DEF IsSequence
<1>2. PICK T : r \in Seq(T)
  BY DEF IsSequence
<1>3. q \in Seq(S \cup T) /\ r \in Seq(S \cup T)
  BY <1>1, <1>2
<1>4. q \o r \in Seq(S \cup T)
  BY <1>3
<1> QED BY <1>3, <1>4 DEF IsSequence

-----------------------------------------------------------------------------
(* Sockets *)

(* The sockets of a client. *)
LEMMA SocketsAre ==
  ASSUME Types, Sessions, NEW c \in Clients
  PROVE  socketOf(c) \in Sockets /\ socketOf(c)[1] = c /\ socketOf(c)[2] = session[c]
<1>1. session[c] \in 1 .. restarts + 1 /\ restarts \in 0 .. MaxFaults
  BY DEF Types, Sessions
<1>2. session[c] \in 1 .. MaxFaults + 1
  BY <1>1, BoundsAssumption
<1> QED BY <1>2 DEF Sockets, socketOf

(* No socket is nullptr. *)
LEMMA SocketNotNull ==
  ASSUME NEW s \in Sockets
  PROVE  s # nullptr /\ s[1] \in Clients /\ s[2] \in Nat /\ s = <<s[1], s[2]>>
<1>1. s \in Clients \X (1 .. MaxFaults + 1)
  BY DEF Sockets
<1>2. PICK c \in Clients, n \in 1 .. MaxFaults + 1 : s = <<c, n>>
  BY <1>1
<1>3. s[1] = c /\ s[2] = n /\ n \in Nat
  BY <1>2, BoundsAssumption
<1>4. s # << >>
  BY <1>2
<1> QED BY <1>2, <1>3, <1>4 DEF nullptr

-----------------------------------------------------------------------------
(* The loop of the server's recvCallback *)

(* A state of the loop that reads socket s at time t: the tables and the   *)
(* array are as the invariant wants them, and requests of s were added.    *)
ReadState(x, s, t) ==
  /\ x = [socket |-> x.socket, next |-> x.next, pending |-> x.pending]
  /\ x.socket \in [Clients -> Sockets \cup {nullptr}]
  /\ \A c \in Clients : cid_tcp_socket_[c] # nullptr => x.socket[c] = cid_tcp_socket_[c]
  /\ x.next \in [Clients -> Nat]
  /\ IsSequence(x.pending)
  /\ Requests(x.pending)
  /\ TiedIn(x.socket, x.pending)
  /\ AcceptedIn(x.next, x.pending)
  /\ Len(pending_client_requests_) <= Len(x.pending)
  /\ \A i \in 1 .. Len(pending_client_requests_) : x.pending[i] = pending_client_requests_[i]
  /\ \A i \in Len(pending_client_requests_) + 1 .. Len(x.pending) :
       x.pending[i].socket = s /\ x.pending[i].recv_time_ = t

(* A request with the next number, appended to what is pending. *)
LEMMA AcceptOne ==
  ASSUME NEW next \in [Clients -> Nat], NEW pending, IsSequence(pending), Requests(pending),
         Requests(published), AcceptedIn(next, pending),
         NEW c \in Clients, NEW r, r.request.client_id_ = c, r.request.seq_num_ = next[c]
  PROVE  AcceptedIn([next EXCEPT ![c] = next[c] + 1], Append(pending, r))
<1> DEFINE n == Len(pending)
           p == Append(pending, r)
           after == [next EXCEPT ![c] = next[c] + 1]
<1>1. /\ n \in Nat /\ DOMAIN pending = 1 .. n /\ IsSequence(p) /\ Len(p) = n + 1
      /\ p[n + 1] = r /\ \A i \in 1 .. n : p[i] = pending[i]
  BY SequenceIs, AppendIs
<1>2. DOMAIN p = 1 .. n + 1
  BY <1>1, SequenceIs
<1> HIDE DEF p, n
<1>3. /\ after[c] = next[c] + 1 /\ next[c] \in Nat /\ next[c] >= 1
      /\ \A d \in Clients : d # c => after[d] = next[d]
      /\ \A d \in Clients : next[d] \in Nat /\ after[d] \in Nat /\ after[d] >= next[d] /\ next[d] >= 1
  BY DEF AcceptedIn
<1> HIDE DEF after
<1>4. /\ \A i \in 1 .. n : pending[i].request.client_id_ \in Clients /\ pending[i].request.seq_num_ \in Nat
      /\ \A i \in DOMAIN published :
           published[i].request.client_id_ \in Clients /\ published[i].request.seq_num_ \in Nat
  BY <1>1 DEF Requests, Message
<1>5. /\ \A i \in 1 .. n :
           pending[i].request.seq_num_ \in 1 .. next[pending[i].request.client_id_] - 1
      /\ \A i \in DOMAIN published :
           published[i].request.seq_num_ \in 1 .. next[published[i].request.client_id_] - 1
  BY <1>1 DEF AcceptedIn
<1>6. \A i \in DOMAIN published :
        published[i].request.seq_num_ \in 1 .. after[published[i].request.client_id_] - 1
  BY <1>3, <1>4, <1>5
<1>7. ASSUME NEW i \in 1 .. n + 1
      PROVE  p[i].request.seq_num_ \in 1 .. after[p[i].request.client_id_] - 1
  <2>1. CASE i = n + 1
    BY <2>1, <1>1, <1>3
  <2>2. CASE i \in 1 .. n
    BY <2>2, <1>1, <1>3, <1>4, <1>5
  <2> QED BY <2>1, <2>2, <1>1
<1>8. ASSUME NEW d \in Clients, NEW m \in 1 .. after[d] - 1
      PROVE  \/ \E i \in DOMAIN published :
                  published[i].request.client_id_ = d /\ published[i].request.seq_num_ = m
             \/ \E i \in 1 .. n + 1 : p[i].request.client_id_ = d /\ p[i].request.seq_num_ = m
  <2>1. CASE d = c /\ m = next[c]
    BY <2>1, <1>1
  <2>2. CASE ~(d = c /\ m = next[c])
    <3>1. m \in 1 .. next[d] - 1
      BY <2>2, <1>3
    <3>2. \/ \E i \in DOMAIN published :
               published[i].request.client_id_ = d /\ published[i].request.seq_num_ = m
          \/ \E i \in 1 .. n : pending[i].request.client_id_ = d /\ pending[i].request.seq_num_ = m
      <4>1. \A k \in 1 .. next[d] - 1 :
              \/ \E i \in DOMAIN published :
                   published[i].request.client_id_ = d /\ published[i].request.seq_num_ = k
              \/ \E i \in DOMAIN pending :
                   pending[i].request.client_id_ = d /\ pending[i].request.seq_num_ = k
        BY Zenon DEF AcceptedIn
      <4>2. DOMAIN pending = 1 .. n
        BY <1>1
      <4> QED BY <3>1, <4>1, <4>2, Zenon
    <3>3. \A i \in 1 .. n : i \in 1 .. n + 1 /\ p[i] = pending[i]
      BY <1>1
    <3> QED BY <3>2, <3>3
  <2> QED BY <2>1, <2>2
<1>9. ASSUME NEW i \in DOMAIN published, NEW j \in 1 .. n + 1,
             published[i].request.client_id_ = p[j].request.client_id_
      PROVE  published[i].request.seq_num_ < p[j].request.seq_num_
  <2>1. CASE j = n + 1
    BY <2>1, <1>1, <1>3, <1>4, <1>5, <1>9
  <2>2. CASE j \in 1 .. n
    BY <2>2, <1>1, <1>9 DEF AcceptedIn
  <2> QED BY <2>1, <2>2, <1>1
<1>10. ASSUME NEW i \in 1 .. n + 1, NEW j \in 1 .. n + 1, i < j,
              p[i].request.client_id_ = p[j].request.client_id_
       PROVE  p[i].request.seq_num_ < p[j].request.seq_num_
  <2>0. i \in 1 .. n
    BY <1>1, <1>10
  <2>1. CASE j = n + 1
    BY <2>0, <2>1, <1>1, <1>3, <1>4, <1>5, <1>10
  <2>2. CASE j \in 1 .. n
    BY <2>0, <2>2, <1>1, <1>10 DEF AcceptedIn
  <2> QED BY <2>1, <2>2, <1>1
<1>11. \A d \in Clients : after[d] >= 1
  <2>1. ASSUME NEW d \in Clients PROVE after[d] >= 1
    BY <1>3
  <2> QED BY <2>1
<1>12. AcceptedIn(after, p)
  <2>1. \A d \in Clients : \A m \in 1 .. after[d] - 1 :
          \/ \E i \in DOMAIN published :
               published[i].request.client_id_ = d /\ published[i].request.seq_num_ = m
          \/ \E i \in DOMAIN p : p[i].request.client_id_ = d /\ p[i].request.seq_num_ = m
    BY <1>2, <1>8
  <2>2. \A i \in DOMAIN p : p[i].request.seq_num_ \in 1 .. after[p[i].request.client_id_] - 1
    BY <1>2, <1>7, Zenon
  <2>3. \A i \in DOMAIN published, j \in DOMAIN p :
          published[i].request.client_id_ = p[j].request.client_id_
            => published[i].request.seq_num_ < p[j].request.seq_num_
    BY <1>2, <1>9, Zenon
  <2>4. \A i, j \in DOMAIN p :
          i < j /\ p[i].request.client_id_ = p[j].request.client_id_
            => p[i].request.seq_num_ < p[j].request.seq_num_
    BY <1>2, <1>10, Zenon
  <2> QED BY <1>6, <1>11, <2>1, <2>2, <2>3, <2>4, Zenon DEF AcceptedIn
<1> QED BY <1>12 DEF after, p

(* One request is dropped, ties its client to the socket, or is accepted.  *)
LEMMA ReadOne ==
  ASSUME Types, Genuine, NEW s \in Sockets, NEW t, NEW m \in Message, Intact(s, m),
         NEW x, ReadState(x, s, t)
  PROVE  ReadState(recvRequest(x, s, t, m), s, t)
<1> DEFINE c == m.client_id_
           P == pending_client_requests_
           r == [recv_time_ |-> t, socket |-> s, request |-> m]
<1>1. PICK socket, next, pending :
        /\ x = [socket |-> socket, next |-> next, pending |-> pending]
        /\ socket = x.socket /\ next = x.next /\ pending = x.pending
  BY DEF ReadState
<1>2. /\ socket \in [Clients -> Sockets \cup {nullptr}] /\ next \in [Clients -> Nat]
      /\ IsSequence(pending) /\ Requests(pending) /\ TiedIn(socket, pending) /\ AcceptedIn(next, pending)
      /\ Len(P) <= Len(pending) /\ \A i \in 1 .. Len(P) : pending[i] = P[i]
      /\ \A i \in Len(P) + 1 .. Len(pending) : pending[i].socket = s /\ pending[i].recv_time_ = t
      /\ \A d \in Clients : cid_tcp_socket_[d] # nullptr => socket[d] = cid_tcp_socket_[d]
  BY <1>1 DEF ReadState
<1>3. c \in Clients /\ m.seq_num_ \in Nat
  BY DEF Message
<1>4. CASE socket[c] \notin {nullptr, s}
  BY <1>1, <1>4 DEF recvRequest
<1>5. CASE socket[c] \in {nullptr, s}
  <2> DEFINE tied == [socket EXCEPT ![c] = s]
  <2>1. /\ tied \in [Clients -> Sockets \cup {nullptr}] /\ tied[c] = s
        /\ \A d \in Clients : socket[d] # nullptr => tied[d] = socket[d]
    BY <1>2, <1>3, <1>5
  <2>2. \A d \in Clients : cid_tcp_socket_[d] # nullptr => tied[d] = cid_tcp_socket_[d]
    BY <1>2, <2>1
  <2>3. TiedIn(tied, pending)
    <3>1. ASSUME NEW i \in DOMAIN pending PROVE tied[pending[i].request.client_id_] = pending[i].socket
      <4>1. pending[i].request.client_id_ \in Clients /\ pending[i].socket \in Sockets
        BY <1>2 DEF Requests, Message
      <4>2. socket[pending[i].request.client_id_] = pending[i].socket /\ pending[i].socket # nullptr
        BY <1>2, <4>1, SocketNotNull DEF TiedIn
      <4> HIDE DEF tied
      <4> QED BY <2>1, <4>1, <4>2
    <3> QED BY <3>1 DEF TiedIn
  <2>4. CASE m.seq_num_ # next[c]
    <3>1. recvRequest(x, s, t, m) = [socket |-> tied, next |-> next, pending |-> pending]
      BY <1>1, <1>5, <2>4 DEF recvRequest
    <3> HIDE DEF tied
    <3> QED BY <1>2, <2>1, <2>2, <2>3, <3>1 DEF ReadState
  <2>5. CASE m.seq_num_ = next[c]
    <3> DEFINE after == [next EXCEPT ![c] = next[c] + 1]
               p == Append(pending, r)
               n == Len(pending)
    <3>1. recvRequest(x, s, t, m) = [socket |-> tied, next |-> after, pending |-> p]
      BY <1>1, <1>5, <2>5 DEF recvRequest, Received
    <3>2. after \in [Clients -> Nat]
      BY <1>2, <1>3
    <3>3. r.request = m /\ r.socket = s /\ r.recv_time_ = t
      OBVIOUS
    <3>4. AcceptedIn(after, p)
      <4> HIDE DEF r
      <4> QED BY <1>2, <1>3, <2>5, <3>3, AcceptOne DEF Genuine
    <3> HIDE DEF r
    <3>5. /\ n \in Nat /\ DOMAIN pending = 1 .. n /\ IsSequence(p) /\ Len(p) = n + 1 /\ DOMAIN p = 1 .. n + 1
          /\ p[n + 1] = r /\ \A i \in 1 .. n : p[i] = pending[i]
      BY <1>2, SequenceIs, AppendIs
    <3> HIDE DEF p, n, after, tied
    <3>6. ASSUME NEW i \in 1 .. n + 1 PROVE i \in 1 .. n \/ i = n + 1
      BY <3>5
    <3>7. Requests(p)
      BY <1>2, <3>3, <3>5, <3>6 DEF Requests
    <3>8. TiedIn(tied, p)
      BY <2>1, <2>3, <3>3, <3>5, <3>6 DEF TiedIn
    <3>9. Len(P) \in Nat /\ n = Len(pending)
      BY SequenceIs DEF Types, n
    <3>10. Len(P) <= n + 1 /\ \A i \in 1 .. Len(P) : p[i] = P[i]
      BY <1>2, <3>5, <3>9
    <3>11. ASSUME NEW i \in Len(P) + 1 .. n + 1 PROVE p[i].socket = s /\ p[i].recv_time_ = t
      <4>1. (i \in Len(P) + 1 .. n /\ i \in 1 .. n) \/ i = n + 1
        BY <3>5, <3>9
      <4> QED BY <1>2, <3>3, <3>5, <3>9, <4>1
    <3> QED BY <2>1, <2>2, <3>1, <3>2, <3>4, <3>5, <3>7, <3>8, <3>10, <3>11 DEF ReadState
  <2> QED BY <2>4, <2>5
<1> QED BY <1>4, <1>5

(* u holds the states of the first n iterations of the server's loop. *)
RequestStates(u, state, s, messages, n) ==
  u = [k \in 0 .. n |->
         IF k = 0 THEN state
         ELSE recvRequest(u[k - 1], s, Last(messages).arrival, messages[k].request)]

(* The states of the loop exist. *)
LEMMA RequestStatesExist ==
  ASSUME NEW state, NEW s, NEW messages, NEW n \in Nat
  PROVE  \E u : RequestStates(u, state, s, messages, n)
<1> DEFINE T == {k \in Nat : ~\E u : RequestStates(u, state, s, messages, k)}
<1> SUFFICES ASSUME T # {} PROVE FALSE
  OBVIOUS
<1>1. PICK k \in T : \A m \in T : k <= m
  BY LeastElement
<1>2. CASE k = 0
  <2>1. RequestStates([i \in 0 .. 0 |-> state], state, s, messages, 0)
    BY DEF RequestStates
  <2> QED BY <2>1, <1>1, <1>2
<1>3. CASE k # 0
  <2>1. k - 1 \in Nat /\ k - 1 \notin T
    BY <1>1, <1>3
  <2>2. PICK u : RequestStates(u, state, s, messages, k - 1)
    BY <2>1
  <2> DEFINE F(g, i) == recvRequest(g[i - 1], s, Last(messages).arrival, messages[i].request)
  <2>3. u = [i \in 0 .. k - 1 |-> IF i = 0 THEN state ELSE F(u, i)]
    BY <2>2 DEF RequestStates
  <2> DEFINE v == [i \in 0 .. k |-> IF i = k THEN F(u, k) ELSE u[i]]
  <2>4. ASSUME NEW i \in 0 .. k PROVE v[i] = IF i = 0 THEN state ELSE F(v, i)
    <3>1. CASE i = 0
      <4> HIDE DEF F
      <4> QED BY <3>1, <2>3, <1>3
    <3>2. CASE i # 0
      <4>1. i - 1 \in 0 .. k - 1 /\ v[i - 1] = u[i - 1]
        BY <3>2
      <4>2. F(v, i) = F(u, i)
        BY <4>1
      <4>3. v[i] = F(u, i)
        <5> HIDE DEF F
        <5> QED BY <3>2, <2>3
      <4> QED BY <4>2, <4>3, <3>2
    <3> QED BY <3>1, <3>2
  <2>5. v = [i \in 0 .. k |-> v[i]]
    OBVIOUS
  <2>6. RequestStates(v, state, s, messages, k)
    <3> HIDE DEF v
    <3>1. v = [i \in 0 .. k |-> IF i = 0 THEN state ELSE F(v, i)]
      <4> HIDE DEF F
      <4> QED BY <2>4, <2>5
    <3> QED BY <3>1 DEF RequestStates
  <2> QED BY <2>6, <1>1
<1> QED BY <1>2, <1>3

(* What one read of a socket leaves. *)
LEMMA ReadAll ==
  ASSUME Types, Genuine, NEW s \in Sockets,
         ReadState([socket |-> cid_tcp_socket_, next |-> cid_next_exp_seq_num_,
                    pending |-> pending_client_requests_], s, Last(to_server[s]).arrival)
  PROVE  ReadState(recvRequests([socket |-> cid_tcp_socket_, next |-> cid_next_exp_seq_num_,
                                 pending |-> pending_client_requests_], s, to_server[s]),
                   s, Last(to_server[s]).arrival)
<1> DEFINE state == [socket |-> cid_tcp_socket_, next |-> cid_next_exp_seq_num_,
                     pending |-> pending_client_requests_]
           messages == to_server[s]
           t == Last(messages).arrival
           n == Len(messages)
           F(g) == [k \in 0 .. n |-> IF k = 0 THEN state
                                     ELSE recvRequest(g[k - 1], s, t, messages[k].request)]
           it == CHOOSE g : g = F(g)
           Good(x) == ReadState(x, s, t)
<1>1. n \in Nat /\ DOMAIN messages = 1 .. n
  BY SequenceIs DEF Types
<1>2. PICK u : RequestStates(u, state, s, messages, n)
  BY <1>1, RequestStatesExist
<1>3. u = F(u)
  BY <1>2 DEF RequestStates
<1>4. it = F(it)
  <2> HIDE DEF F
  <2> QED BY <1>3
<1>5. recvRequests(state, s, messages) = it[n]
  BY DEF recvRequests
<1>6. it[0] = state /\ \A k \in 1 .. n : it[k] = recvRequest(it[k - 1], s, t, messages[k].request)
  <2> HIDE DEF it, state, t, messages, n
  <2> QED BY <1>4, <1>1
<1>7. Good(state)
  OBVIOUS
<1>8. ASSUME NEW x, Good(x), NEW m \in Message, Intact(s, m) PROVE Good(recvRequest(x, s, t, m))
  <2> HIDE DEF t
  <2> QED BY <1>8, ReadOne
<1>m. \A k \in 1 .. n : messages[k].request \in Message /\ Intact(s, messages[k].request)
  BY <1>1 DEF Genuine
<1> DEFINE T == {k \in 0 .. n : ~Good(it[k])}
<1> HIDE DEF it, state, t, Good, messages, n
<1>9. ASSUME T # {} PROVE FALSE
  <2>1. T \in SUBSET Nat
    OBVIOUS
  <2>2. PICK k \in T : \A m \in T : k <= m
    BY <2>1, <1>9, LeastElement
  <2>3. k # 0
    BY <1>6, <1>7
  <2>4. k - 1 \in 0 .. n /\ k - 1 \notin T
    BY <2>2, <2>3, <1>1
  <2>5. k \in 1 .. n /\ Good(it[k - 1])
    BY <2>3, <2>4, <1>1
  <2> QED BY <2>5, <1>6, <1>8, <1>m
<1>10. Good(it[n])
  BY <1>9, <1>1
<1> QED BY <1>10, <1>5 DEF Good, state, t, messages

-----------------------------------------------------------------------------
(* The loop of the gateway's recvCallback *)

(* One response is dropped, or it is the next one. *)
LEMMA PassOne ==
  ASSUME NEW c \in Clients, NEW next, NEW passed, PassedOn(c, next, passed),
         NEW response \in Message, Arrived(socketOf(c), response)
  PROVE  \E next1, passed1 :
           /\ recvResponse(c, [next |-> next, received |-> passed], response)
                = [next |-> next1, received |-> passed1]
           /\ PassedOn(c, next1, passed1)
<1>1. CASE response.client_id_ # c \/ response.seq_num_ # next
  BY <1>1 DEF recvResponse
<1>2. CASE response.client_id_ = c /\ response.seq_num_ = next
  <2> DEFINE p == Append(passed, response.number)
  <2>1. recvResponse(c, [next |-> next, received |-> passed], response) = [next |-> next + 1, received |-> p]
    BY <1>2 DEF recvResponse
  <2>2. response.number \in Nat /\ passed \in Seq(Nat) /\ next = Len(passed) + 1 /\ Len(passed) \in Nat
    BY DEF Message, PassedOn
  <2>3. /\ p \in Seq(Nat) /\ Len(p) = Len(passed) + 1 /\ p[Len(passed) + 1] = response.number
        /\ DOMAIN p = 1 .. Len(passed) + 1 /\ DOMAIN passed = 1 .. Len(passed)
    BY <2>2
  <2>4. \A i \in 1 .. Len(passed) : p[i] = passed[i]
    BY <2>2
  <2> HIDE DEF p
  <2>5. InPlace(c, Len(passed) + 1, response.number)
    BY <1>2, <2>2 DEF Arrived, Answer, InPlace
  <2>6. ASSUME NEW i \in DOMAIN p PROVE InPlace(c, i, p[i])
    <3>1. i \in 1 .. Len(passed) \/ i = Len(passed) + 1
      BY <2>2, <2>3
    <3> QED BY <3>1, <2>3, <2>4, <2>5 DEF PassedOn
  <2>7. PassedOn(c, next + 1, p)
    BY <2>2, <2>3, <2>6 DEF PassedOn
  <2> QED BY <2>1, <2>7
<1> QED BY <1>1, <1>2

(* u holds the states of the first n iterations of the gateway's loop. *)
ResponseStates(c, u, state, responses, n) ==
  u = [k \in 0 .. n |-> IF k = 0 THEN state ELSE recvResponse(c, u[k - 1], responses[k])]

(* The states of the loop exist. *)
LEMMA ResponseStatesExist ==
  ASSUME NEW c, NEW state, NEW responses, NEW n \in Nat
  PROVE  \E u : ResponseStates(c, u, state, responses, n)
<1> DEFINE T == {k \in Nat : ~\E u : ResponseStates(c, u, state, responses, k)}
<1> SUFFICES ASSUME T # {} PROVE FALSE
  OBVIOUS
<1>1. PICK k \in T : \A m \in T : k <= m
  BY LeastElement
<1>2. CASE k = 0
  <2>1. ResponseStates(c, [i \in 0 .. 0 |-> state], state, responses, 0)
    BY DEF ResponseStates
  <2> QED BY <2>1, <1>1, <1>2
<1>3. CASE k # 0
  <2>1. k - 1 \in Nat /\ k - 1 \notin T
    BY <1>1, <1>3
  <2>2. PICK u : ResponseStates(c, u, state, responses, k - 1)
    BY <2>1
  <2> DEFINE F(g, i) == recvResponse(c, g[i - 1], responses[i])
  <2>3. u = [i \in 0 .. k - 1 |-> IF i = 0 THEN state ELSE F(u, i)]
    BY <2>2 DEF ResponseStates
  <2> DEFINE v == [i \in 0 .. k |-> IF i = k THEN F(u, k) ELSE u[i]]
  <2>4. ASSUME NEW i \in 0 .. k PROVE v[i] = IF i = 0 THEN state ELSE F(v, i)
    <3>1. CASE i = 0
      <4> HIDE DEF F
      <4> QED BY <3>1, <2>3, <1>3
    <3>2. CASE i # 0
      <4>1. i - 1 \in 0 .. k - 1 /\ v[i - 1] = u[i - 1]
        BY <3>2
      <4>2. F(v, i) = F(u, i)
        BY <4>1
      <4>3. v[i] = F(u, i)
        <5> HIDE DEF F
        <5> QED BY <3>2, <2>3
      <4> QED BY <4>2, <4>3, <3>2
    <3> QED BY <3>1, <3>2
  <2>5. v = [i \in 0 .. k |-> v[i]]
    OBVIOUS
  <2>6. ResponseStates(c, v, state, responses, k)
    <3> HIDE DEF v
    <3>1. v = [i \in 0 .. k |-> IF i = 0 THEN state ELSE F(v, i)]
      <4> HIDE DEF F
      <4> QED BY <2>4, <2>5
    <3> QED BY <3>1 DEF ResponseStates
  <2> QED BY <2>6, <1>1
<1> QED BY <1>2, <1>3

(* Whatever a read brings, a gateway passes responses on in their order. *)
LEMMA PassAll ==
  ASSUME NEW c \in Clients, NEW next0, NEW passed0, PassedOn(c, next0, passed0),
         NEW responses \in Seq(Message), \A i \in DOMAIN responses : Arrived(socketOf(c), responses[i])
  PROVE  \E next, passed :
           /\ recvResponses(c, [next |-> next0, received |-> passed0], responses)
                = [next |-> next, received |-> passed]
           /\ PassedOn(c, next, passed)
<1> DEFINE state == [next |-> next0, received |-> passed0]
           n == Len(responses)
           F(g) == [k \in 0 .. n |-> IF k = 0 THEN state ELSE recvResponse(c, g[k - 1], responses[k])]
           it == CHOOSE g : g = F(g)
           Good(x) == \E next, passed : x = [next |-> next, received |-> passed] /\ PassedOn(c, next, passed)
<1>1. n \in Nat /\ \A k \in 1 .. n : responses[k] \in Message /\ Arrived(socketOf(c), responses[k])
  OBVIOUS
<1>2. PICK u : ResponseStates(c, u, state, responses, n)
  BY <1>1, ResponseStatesExist
<1>3. u = F(u)
  BY <1>2 DEF ResponseStates
<1>4. it = F(it)
  <2> HIDE DEF F
  <2> QED BY <1>3
<1>5. recvResponses(c, state, responses) = it[n]
  BY DEF recvResponses
<1>6. it[0] = state /\ \A k \in 1 .. n : it[k] = recvResponse(c, it[k - 1], responses[k])
  <2> HIDE DEF it, state
  <2> QED BY <1>4, <1>1
<1>7. Good(state)
  OBVIOUS
<1>8. ASSUME NEW x, Good(x), NEW m \in Message, Arrived(socketOf(c), m) PROVE Good(recvResponse(c, x, m))
  BY <1>8, PassOne
<1> DEFINE T == {k \in 0 .. n : ~Good(it[k])}
<1> HIDE DEF it, state, Good, n
<1>9. ASSUME T # {} PROVE FALSE
  <2>1. T \in SUBSET Nat
    OBVIOUS
  <2>2. PICK k \in T : \A m \in T : k <= m
    BY <2>1, <1>9, LeastElement
  <2>3. k # 0
    BY <1>6, <1>7
  <2>4. k - 1 \in 0 .. n /\ k - 1 \notin T
    BY <2>2, <2>3, <1>1
  <2>5. k \in 1 .. n /\ Good(it[k - 1])
    BY <2>3, <2>4, <1>1
  <2> QED BY <2>5, <1>1, <1>6, <1>8
<1>10. Good(it[n])
  BY <1>9, <1>1
<1> QED BY <1>10, <1>5 DEF Good, state

-----------------------------------------------------------------------------
(* What ::send takes of a buffer *)

(* Bytes out of frame are never what somebody sent. *)
LEMMA StrayIs ==
  ASSUME NEW m \in Stray
  PROVE  m \in Message /\ m.number = 0
<1>1. PICK n \in StrayNumbers, c \in Clients : m = [seq_num_ |-> n, client_id_ |-> c, number |-> 0]
  BY DEF Stray
<1>2. n \in Nat
  BY BoundsAssumption
<1> QED BY <1>1, <1>2 DEF Message

(* Nor are several of them. *)
LEMMA StraysAre ==
  ASSUME NEW n \in Nat, NEW strays \in Strays(n)
  PROVE  strays \in Seq(Message) /\ Len(strays) = n /\ Nameless(strays)
<1>1. \A i \in 1 .. n : strays[i] \in Stray
  BY DEF Strays
<1>2. \A i \in 1 .. n : strays[i] \in Message /\ strays[i].number = 0
  BY <1>1, StrayIs
<1>3. strays \in [1 .. n -> Message]
  BY <1>2 DEF Strays
<1> QED BY <1>2, <1>3 DEF Nameless

(* The messages that come behind a fragment. *)
LEMMA FragmentAndStrays ==
  ASSUME NEW fragment \in Seq(Message), Nameless(fragment), fragment # << >>,
         NEW n \in Nat, NEW strays \in Strays(n)
  PROVE  /\ fragment \o strays \in Seq(Message) /\ Nameless(fragment \o strays)
         /\ Len(fragment \o strays) >= n + 1 /\ Len(fragment \o strays) \in Nat
<1>1. strays \in Seq(Message) /\ Len(strays) = n /\ Nameless(strays)
  BY StraysAre
<1> DEFINE q == fragment \o strays
<1>2. /\ q \in Seq(Message) /\ Len(q) = Len(fragment) + n /\ Len(fragment) \in Nat /\ Len(fragment) >= 1
      /\ DOMAIN q = 1 .. Len(q)
  BY <1>1
<1>3. ASSUME NEW i \in 1 .. Len(q) PROVE q[i].number = 0
  <2>1. CASE i \in 1 .. Len(fragment)
    <3>1. q[i] = fragment[i] /\ i \in DOMAIN fragment
      BY <2>1, <1>1
    <3> QED BY <3>1 DEF Nameless
  <2>2. CASE i \notin 1 .. Len(fragment)
    <3>1. i - Len(fragment) \in DOMAIN strays /\ q[i] = strays[i - Len(fragment)]
      BY <2>2, <1>1, <1>2
    <3> QED BY <3>1, <1>1 DEF Nameless
  <2> QED BY <2>1, <2>2
<1> HIDE DEF q
<1>4. Nameless(q)
  BY <1>2, <1>3 DEF Nameless
<1> QED BY <1>2, <1>4 DEF q

(* What of a buffer arrives behind a fragment, and what waits then.        *)
Piece(fragment, buffer, taken) ==
  /\ taken[1] \in Seq(Message) /\ taken[2] \in Seq(Message)
  /\ Nameless(taken[2])
  /\ \A i \in DOMAIN taken[1] : \/ \E j \in DOMAIN buffer : taken[1][i] = buffer[j]
                                \/ taken[1][i].number = 0 /\ fragment # << >>

(* The nameless messages behind a fragment are such a piece. *)
LEMMA NamelessPiece ==
  ASSUME NEW fragment, fragment # << >>, NEW buffer, NEW q \in Seq(Message), Nameless(q),
         NEW r \in Seq(Message), Nameless(r)
  PROVE  Piece(fragment, buffer, <<q, r>>)
BY DEF Piece, Nameless

(* So is a first part of a buffer without one. *)
LEMMA PrefixPiece ==
  ASSUME NEW fragment, NEW buffer \in Seq(Message), NEW k \in 0 .. Len(buffer),
         NEW r \in Seq(Message), Nameless(r)
  PROVE  Piece(fragment, buffer, <<SubSeq(buffer, 1, k), r>>)
<1> DEFINE q == SubSeq(buffer, 1, k)
<1>1. q \in Seq(Message) /\ DOMAIN q = 1 .. k /\ \A i \in 1 .. k : q[i] = buffer[i] /\ i \in DOMAIN buffer
  OBVIOUS
<1> HIDE DEF q
<1>2. Piece(fragment, buffer, <<q, r>>)
  BY <1>1 DEF Piece
<1> QED BY <1>2 DEF q

(* A first part of the nameless messages, and the one that follows.        *)
LEMMA NamelessPrefix ==
  ASSUME NEW q \in Seq(Message), Nameless(q), NEW k \in Nat, Len(q) >= k + 1
  PROVE  /\ SubSeq(q, 1, k) \in Seq(Message) /\ Nameless(SubSeq(q, 1, k))
         /\ <<q[k + 1]>> \in Seq(Message) /\ Nameless(<<q[k + 1]>>)
<1>1. k + 1 \in DOMAIN q /\ q[k + 1] \in Message /\ q[k + 1].number = 0
  BY DEF Nameless
<1> DEFINE p == SubSeq(q, 1, k)
<1>2. p \in Seq(Message) /\ DOMAIN p = 1 .. k /\ \A i \in 1 .. k : p[i] = q[i] /\ i \in DOMAIN q
  OBVIOUS
<1> HIDE DEF p
<1>3. Nameless(p)
  BY <1>2 DEF Nameless
<1>4. <<q[k + 1]>> \in Seq(Message) /\ Nameless(<<q[k + 1]>>)
  BY <1>1 DEF Nameless
<1> QED BY <1>2, <1>3, <1>4 DEF p

(* Nothing waits behind whole messages. *)
LEMMA EmptyNameless == << >> \in Seq(Message) /\ Nameless(<< >>)
BY DEF Nameless

(* What arrives of k messages. *)
LEMMA ArrivesPiece ==
  ASSUME NEW fragment \in Seq(Message), Nameless(fragment), NEW buffer \in Seq(Message),
         NEW k \in 0 .. Len(buffer), NEW taken \in Arrives(fragment, buffer, k)
  PROVE  Piece(fragment, buffer, taken)
<1>1. CASE fragment = << >>
  <2>1. taken = <<SubSeq(buffer, 1, k), << >>>>
    BY <1>1 DEF Arrives
  <2> QED BY <2>1, PrefixPiece, EmptyNameless
<1>2. CASE fragment # << >>
  <2>1. PICK strays \in Strays(k) :
          taken = <<SubSeq(fragment \o strays, 1, k), <<(fragment \o strays)[k + 1]>>>>
    BY <1>2 DEF Arrives
  <2>2. PICK q : q = fragment \o strays
    OBVIOUS
  <2>3. k \in Nat
    OBVIOUS
  <2>4. q \in Seq(Message) /\ Nameless(q) /\ Len(q) >= k + 1
    BY <1>2, <2>2, <2>3, FragmentAndStrays
  <2>5. taken = <<SubSeq(q, 1, k), <<q[k + 1]>>>>
    BY <2>1, <2>2
  <2> QED BY <1>2, <2>3, <2>4, <2>5, NamelessPrefix, NamelessPiece
<1> QED BY <1>1, <1>2

(* What arrives of k messages and a part of the next.                      *)
LEMMA ArrivesCutPiece ==
  ASSUME NEW fragment \in Seq(Message), Nameless(fragment), NEW buffer \in Seq(Message),
         NEW k \in 0 .. Len(buffer) - 1, NEW taken \in ArrivesCut(fragment, buffer, k)
  PROVE  Piece(fragment, buffer, taken)
<1>1. CASE fragment = << >>
  <2>1. PICK m \in {[buffer[k + 1] EXCEPT !.number = 0]} \cup Stray :
          taken = <<SubSeq(buffer, 1, k), <<m>>>>
    BY <1>1 DEF ArrivesCut
  <2>2. m \in Message /\ m.number = 0
    <3>1. CASE m \in Stray
      BY <3>1, StrayIs
    <3>2. CASE m = [buffer[k + 1] EXCEPT !.number = 0]
      <4>1. buffer[k + 1] \in Message
        OBVIOUS
      <4> QED BY <3>2, <4>1 DEF Message
    <3> QED BY <2>1, <3>1, <3>2
  <2>3. <<m>> \in Seq(Message) /\ Nameless(<<m>>)
    BY <2>2 DEF Nameless
  <2>4. k \in 0 .. Len(buffer)
    OBVIOUS
  <2> QED BY <2>1, <2>3, <2>4, PrefixPiece
<1>2. CASE fragment # << >>
  <2>1. CASE taken \in Arrives(fragment, buffer, k + 1)
    <3>1. k + 1 \in 0 .. Len(buffer)
      OBVIOUS
    <3> QED BY <2>1, <3>1, ArrivesPiece
  <2>2. CASE taken \notin Arrives(fragment, buffer, k + 1)
    <3>1. PICK strays \in Strays(k) : taken = <<fragment \o strays, << >>>>
      BY <1>2, <2>2 DEF ArrivesCut
    <3>2. k \in Nat
      OBVIOUS
    <3>3. fragment \o strays \in Seq(Message) /\ Nameless(fragment \o strays)
      BY <1>2, <3>2, FragmentAndStrays
    <3> QED BY <1>2, <3>1, <3>3, NamelessPiece, EmptyNameless
  <2> QED BY <2>1, <2>2
<1> QED BY <1>1, <1>2

(* Of a buffer arrive messages of it and, behind a fragment, what nobody   *)
(* sent.                                                                   *)
LEMMA SendsAre ==
  ASSUME Types, Fragments, NEW d \in Directions, NEW s \in Sockets, NEW buffer \in Seq(Message),
         NEW sent \in Sends(d, s, buffer)
  PROVE  /\ Piece(rest[d][s], buffer, <<sent.arrived, sent.rest>>)
         /\ sent.short \in {0, 1}
<1> DEFINE fragment == rest[d][s]
           outcome(taken, short) == [arrived |-> taken[1], rest |-> taken[2], short |-> short]
<1>1. fragment \in Seq(Message) /\ Nameless(fragment)
  BY DEF Types, Fragments
<1>2. PICK taken, short :
        /\ sent = outcome(taken, short) /\ short \in {0, 1}
        /\ \/ taken \in Arrives(fragment, buffer, Len(buffer))
           \/ \E k \in 0 .. Len(buffer) - 1 :
                taken \in Arrives(fragment, buffer, k) \cup ArrivesCut(fragment, buffer, k)
  BY DEF Sends
<1>3. Len(buffer) \in 0 .. Len(buffer) /\ \A k \in 0 .. Len(buffer) - 1 : k \in 0 .. Len(buffer)
  OBVIOUS
<1> HIDE DEF fragment
<1>4. Piece(fragment, buffer, taken)
  BY <1>1, <1>2, <1>3, ArrivesPiece, ArrivesCutPiece
<1>5. sent.arrived = taken[1] /\ sent.rest = taken[2] /\ sent.short = short
  BY <1>2
<1>6. Piece(fragment, buffer, <<sent.arrived, sent.rest>>)
  BY <1>4, <1>5 DEF Piece
<1> QED BY <1>2, <1>5, <1>6 DEF fragment

(* What a transmission leaves of the fragments. *)
LEMMA TransmittedKeeps ==
  ASSUME Types, Fragments, NEW d \in Directions, NEW s \in Sockets, NEW buffer \in Seq(Message),
         NEW sent \in Sends(d, s, buffer), Transmitted(d, s, sent)
  PROVE  /\ shorts' \in Nat
         /\ rest' \in [Directions -> [Sockets -> Seq(Message)]]
         /\ torn' \in [Directions -> SUBSET Sockets]
         /\ \A x \in Directions : torn[x] \subseteq torn'[x] /\ (x # d => torn'[x] = torn[x])
         /\ Fragments'
<1>1. /\ sent.rest \in Seq(Message) /\ Nameless(sent.rest) /\ sent.short \in {0, 1}
  <2>1. Piece(rest[d][s], buffer, <<sent.arrived, sent.rest>>) /\ sent.short \in {0, 1}
    BY SendsAre
  <2> QED BY <2>1 DEF Piece
<1>2. /\ shorts' = shorts + sent.short
      /\ rest' = [rest EXCEPT ![d][s] = sent.rest]
      /\ torn' = IF sent.rest = << >> THEN torn ELSE [torn EXCEPT ![d] = torn[d] \cup {s}]
  BY DEF Transmitted
<1>3. /\ shorts \in Nat /\ rest \in [Directions -> [Sockets -> Seq(Message)]]
      /\ torn \in [Directions -> SUBSET Sockets]
  BY DEF Types
<1>4. shorts' \in Nat
  BY <1>1, <1>2, <1>3
<1>5. rest' \in [Directions -> [Sockets -> Seq(Message)]]
  BY <1>1, <1>2, <1>3
<1>6. torn' \in [Directions -> SUBSET Sockets]
  BY <1>2, <1>3
<1>7. \A x \in Directions : torn[x] \subseteq torn'[x] /\ (x # d => torn'[x] = torn[x])
  BY <1>2, <1>3
<1>8. ASSUME NEW x \in Directions, NEW y \in Sockets
      PROVE  Nameless(rest'[x][y]) /\ (rest'[x][y] # << >> => y \in torn'[x])
  <2>1. CASE x = d /\ y = s
    <3>1. rest'[x][y] = sent.rest
      BY <2>1, <1>2, <1>3
    <3>2. sent.rest # << >> => s \in torn'[d]
      BY <1>2, <1>3
    <3> QED BY <2>1, <3>1, <3>2, <1>1
  <2>2. CASE ~(x = d /\ y = s)
    <3>1. rest'[x][y] = rest[x][y]
      BY <2>2, <1>2, <1>3
    <3> QED BY <3>1, <1>7 DEF Fragments
  <2> QED BY <2>1, <2>2
<1> QED BY <1>4, <1>5, <1>6, <1>7, <1>8 DEF Fragments

-----------------------------------------------------------------------------
(* What an action leaves alone: no part of the invariant changes unless a *)
(* variable of it does.                                                    *)

(* The numbers of the next responses. *)
LEMMA AheadFrame == Ahead /\ UNCHANGED <<cid_next_outgoing_seq_num_, responded>> => Ahead'
BY DEF Ahead

(* The round of run(). *)
LEMMA RoundFrame ==
  Round /\ UNCHANGED <<session, backlog, receive_sockets_, pending_client_requests_, turn>> => Round'
BY DEF Round

(* The requests accepted. *)
LEMMA AcceptedFrame ==
  Accepted /\ UNCHANGED <<published, pending_client_requests_, cid_next_exp_seq_num_>> => Accepted'
BY DEF Accepted, AcceptedIn

(* The requests published. *)
LEMMA OrderedFrame == Ordered /\ UNCHANGED published => Ordered'
BY DEF Ordered

(* The responses that wait for the server. *)
LEMMA WaitingFrame ==
  Waiting /\ UNCHANGED <<outgoing_responses_, cid_next_outgoing_seq_num_, responded>> => Waiting'
BY DEF Waiting

(* The requests that belong to the sockets the clients are tied to. *)
LEMMA TiedRequestsFrame ==
  TiedRequests /\ UNCHANGED <<pending_client_requests_, published, cid_tcp_socket_>> => TiedRequests'
BY DEF TiedRequests, TiedIn

(* The requests on their way. *)
LEMMA GenuineFrame ==
  Genuine /\ UNCHANGED <<outbound, to_server, pending_client_requests_, published, torn>> => Genuine'
BY DEF Genuine, Requests, Intact

(* The fragments. *)
LEMMA FragmentsFrame == Fragments /\ UNCHANGED <<rest, torn>> => Fragments'
BY DEF Fragments

(* The responses on their way. *)
LEMMA TiedResponsesFrame ==
  TiedResponses /\ UNCHANGED <<server_outbound, to_client, outgoing_responses_, cid_tcp_socket_, torn>>
    => TiedResponses'
BY DEF TiedResponses, Answer, Arrived

(* The responses passed on, if no client moves to another socket.          *)
LEMMA DeliveredFrame ==
  ASSUME Types, Sessions, Delivered, UNCHANGED <<next_exp_seq_num_, received, session>>,
         \A d \in Clients : cid_tcp_socket_[d] # nullptr => cid_tcp_socket_'[d] = cid_tcp_socket_[d],
         torn["responses"] \subseteq torn'["responses"]
  PROVE  Delivered'
<1> SUFFICES ASSUME NEW d \in Clients
             PROVE  PassedOn(d, next_exp_seq_num_[d], received[d])'
  BY DEF Delivered
<1>1. PassedOn(d, next_exp_seq_num_[d], received[d])
  BY DEF Delivered
<1>2. socketOf(d)' = socketOf(d) /\ socketOf(d) # nullptr
  BY SocketsAre, SocketNotNull DEF socketOf
<1>3. ASSUME NEW i \in DOMAIN received[d] PROVE InPlace(d, i, received[d][i])'
  <2>1. InPlace(d, i, received[d][i])
    BY <1>1 DEF PassedOn
  <2> QED BY <2>1, <1>2 DEF InPlace
<1> QED BY <1>1, <1>3 DEF PassedOn

-----------------------------------------------------------------------------
(* Initially *)

(* Every client has connected once, in some order. *)
LEMMA BacklogAtStart ==
  LET q == SetToSeq(Clients \X {1}) IN
  /\ q \in Seq(Clients \X {1})
  /\ \A i, j \in DOMAIN q : q[i] = q[j] => i = j
<1> DEFINE S == Clients \X {1}
           n == Cardinality(S)
<1>1. IsFiniteSet({1})
  BY FS_Singleton
<1>2. IsFiniteSet(S)
  BY <1>1, ClientsAssumption, FS_Product
<1>3. n \in Nat /\ ExistsBijection(1 .. n, S)
  BY <1>2, FS_CardinalityType
<1> HIDE DEF n
<1>4. PICK f \in [1 .. n -> S] : IsInjective(f)
  BY <1>3 DEF ExistsBijection, Bijection, Injection
<1>5. SetToSeq(S) \in [1 .. n -> S] /\ IsInjective(SetToSeq(S))
  BY <1>4 DEF SetToSeq, n
<1>6. SetToSeq(S) \in Seq(S)
  <2> HIDE DEF S
  <2> QED BY <1>5, <1>3
<1> QED BY <1>5, <1>6 DEF IsInjective

(* The empty buffer is a sequence. *)
LEMMA EmptyIsSequence == IsSequence(<< >>)
<1>1. << >> \in Seq({})
  OBVIOUS
<1> QED BY <1>1 DEF IsSequence

(* The invariant holds before the first poll. *)
LEMMA InitIInv == Init => IInv
<1> SUFFICES ASSUME Init PROVE IInv
  OBVIOUS
<1>1. Types
  <2>1. backlog \in Seq(Sockets)
    <3>1. Clients \X {1} \subseteq Sockets
      BY BoundsAssumption DEF Sockets
    <3> QED BY <3>1, BacklogAtStart DEF Init
  <2>2. DOMAIN to_server = Sockets /\ to_server = [s \in Sockets |-> to_server[s]]
    BY DEF Init
  <2>3. \A s \in Sockets : IsSequence(to_server[s])
    BY EmptyIsSequence DEF Init
  <2>4. IsSequence(pending_client_requests_)
    BY EmptyIsSequence DEF Init
  <2>5. turn \in 1 .. Len(receive_sockets_) + 2
    BY DEF Init
  <2>6. rest \in [Directions -> [Sockets -> Seq(Message)]] /\ torn \in [Directions -> SUBSET Sockets]
    BY DEF Init
  <2> QED BY <2>1, <2>2, <2>3, <2>4, <2>5, <2>6, BoundsAssumption DEF Init, Types
<1>2. Sessions
  BY DEF Init, Sessions
<1>3. Round
  <2>1. \A i \in DOMAIN backlog : backlog[i] \in Clients \X {1}
    BY BacklogAtStart DEF Init
  <2>2. ASSUME NEW i \in DOMAIN backlog PROVE backlog[i][2] <= session[backlog[i][1]]
    <3>1. PICK c \in Clients : backlog[i] = <<c, 1>>
      BY <2>1
    <3>2. session[c] = 1
      BY DEF Init
    <3> QED BY <3>1, <3>2
  <2>3. \A i, j \in DOMAIN backlog : backlog[i] = backlog[j] => i = j
    BY BacklogAtStart DEF Init
  <2>4. DOMAIN receive_sockets_ = {} /\ DOMAIN pending_client_requests_ = {}
    BY DEF Init
  <2>5. pending_client_requests_ = << >>
    BY DEF Init
  <2> QED BY <2>2, <2>3, <2>4, <2>5, Zenon DEF Round
<1>4. TiedRequests /\ TiedResponses
  BY DEF Init, TiedRequests, TiedResponses, TiedIn
<1>5. Accepted /\ Ordered
  BY DEF Init, Accepted, AcceptedIn, Ordered
<1>6. Waiting
  BY DEF Init, Waiting
<1>7. Delivered
  <2>1. \A c \in Clients : received[c] = << >> /\ next_exp_seq_num_[c] = 1
    BY DEF Init
  <2>2. \A c \in Clients : PassedOn(c, 1, << >>)
    BY DEF PassedOn
  <2> QED BY <2>1, <2>2 DEF Delivered
<1>8. Ahead
  BY DEF Init, Ahead
<1>9. Fragments
  BY DEF Init, Fragments, Nameless
<1>10. Genuine
  BY DEF Init, Genuine, Requests
<1> QED BY <1>1, <1>2, <1>3, <1>4, <1>5, <1>6, <1>7, <1>8, <1>9, <1>10 DEF IInv

-----------------------------------------------------------------------------
(* The gateways *)

(* A client starts anew: a connection that was never there before. *)
LEMMA StartKeeps ==
  ASSUME IInv, NEW c \in Clients, start(c)
  PROVE  IInv'
<1> USE DEF IInv
<1>0. /\ MayFail
      /\ session' = [session EXCEPT ![c] = session[c] + 1]
      /\ next_outgoing_seq_num_' = [next_outgoing_seq_num_ EXCEPT ![c] = 1]
      /\ next_exp_seq_num_' = [next_exp_seq_num_ EXCEPT ![c] = 1]
      /\ outbound' = [outbound EXCEPT ![c] = << >>]
      /\ received' = [received EXCEPT ![c] = << >>]
      /\ backlog' = Append(backlog, <<c, session[c] + 1>>)
      /\ to_client' = [s \in Sockets |-> IF s = socketOf(c) THEN << >> ELSE to_client[s]]
      /\ restarts' = restarts + 1
      /\ UNCHANGED <<rest, torn, shorts, server, engine>>
  BY Zenon DEF start
<1>1. PICK kept \in BOOLEAN :
        to_server' = [s \in Sockets |-> IF s = socketOf(c) /\ ~kept THEN << >> ELSE to_server[s]]
  BY DEF start
<1>a. /\ session \in [Clients -> Nat] /\ next_outgoing_seq_num_ \in [Clients -> Nat]
      /\ next_exp_seq_num_ \in [Clients -> Nat] /\ outbound \in [Clients -> Seq(Message)]
      /\ received \in [Clients -> Seq(Nat)] /\ shorts \in Nat /\ restarts \in 0 .. MaxFaults
  BY DEF Types
<1>b. \A d \in Clients : session[d] \in 1 .. restarts + 1
  BY DEF Sessions
<1>2. restarts \in Nat /\ restarts + 1 \in 0 .. MaxFaults /\ session[c] \in Nat /\ session[c] <= restarts + 1
  <2>1. shorts + restarts < MaxFaults
    BY <1>0 DEF MayFail
  <2> QED BY <2>1, <1>a, <1>b, BoundsAssumption
<1> DEFINE s1 == <<c, session[c] + 1>>
<1>3. s1 \in Sockets
  BY <1>2, BoundsAssumption DEF Sockets
<1>4. Types'
  <2>1. backlog' \in Seq(Sockets)
    <3> HIDE DEF s1
    <3> QED BY <1>0, <1>3 DEF Types, s1
  <2>2. /\ DOMAIN to_server' = Sockets /\ to_server' = [s \in Sockets |-> to_server'[s]]
        /\ \A s \in Sockets : IsSequence(to_server'[s])
    BY <1>1, EmptyIsSequence DEF Types
  <2>3. to_client' \in [Sockets -> Seq(Message)]
    BY <1>0 DEF Types
  <2>4. /\ session' \in [Clients -> Nat] /\ next_outgoing_seq_num_' \in [Clients -> Nat]
        /\ next_exp_seq_num_' \in [Clients -> Nat] /\ outbound' \in [Clients -> Seq(Message)]
        /\ received' \in [Clients -> Seq(Nat)] /\ shorts' \in Nat /\ restarts' \in 0 .. MaxFaults
    BY <1>0, <1>2, <1>a
  <2> QED BY <1>0, <2>1, <2>2, <2>3, <2>4 DEF Types, server, engine, sessions
<1>5. Sessions'
  <2>1. \A d \in Clients : session'[d] \in 1 .. restarts' + 1
    BY <1>0, <1>2, <1>a, <1>b
  <2> QED BY <2>1 DEF Sessions
<1>6. \A d \in Clients : session'[d] >= session[d] /\ session[d] \in Nat /\ session'[d] \in Nat
  BY <1>0, <1>a
<1>7. session'[c] = session[c] + 1
  BY <1>0, <1>a
<1>8. Round'
  <2>1. backlog \in Seq(Sockets) /\ receive_sockets_ \in Seq(Sockets)
    BY DEF Types
  <2>2. /\ DOMAIN backlog' = 1 .. Len(backlog) + 1 /\ DOMAIN backlog = 1 .. Len(backlog)
        /\ backlog'[Len(backlog) + 1] = s1 /\ Len(backlog) \in Nat
        /\ \A i \in 1 .. Len(backlog) : backlog'[i] = backlog[i] /\ backlog[i] \in Sockets
    <3> HIDE DEF s1
    <3> QED BY <1>0, <1>3, <2>1 DEF s1
  <2>3. s1[1] = c /\ s1[2] = session[c] + 1
    OBVIOUS
  <2>4. \A i \in DOMAIN backlog : backlog[i] # s1
    BY <2>2, <2>3, <1>6 DEF Round
  <2>5. \A i \in DOMAIN receive_sockets_ : receive_sockets_[i] # s1 /\ receive_sockets_[i] \in Sockets
    BY <2>1, <2>3, <1>6 DEF Round
  <2> HIDE DEF s1
  <2>6. \A i \in DOMAIN receive_sockets_ : receive_sockets_[i][2] <= session'[receive_sockets_[i][1]]
    BY <2>5, <1>6, SocketNotNull DEF Round
  <2>7. ASSUME NEW i \in DOMAIN backlog' PROVE backlog'[i][2] <= session'[backlog'[i][1]]
    <3>1. CASE i = Len(backlog) + 1
      BY <3>1, <2>2, <2>3, <1>7, <1>6
    <3>2. CASE i # Len(backlog) + 1
      <4>1. i \in DOMAIN backlog /\ backlog'[i] = backlog[i] /\ backlog[i] \in Sockets
        BY <3>2, <2>2
      <4> QED BY <4>1, <1>6, SocketNotNull DEF Round
    <3> QED BY <3>1, <3>2
  <2>8. ASSUME NEW i \in DOMAIN backlog', NEW j \in DOMAIN backlog', backlog'[i] = backlog'[j] PROVE i = j
    <3>1. CASE i = Len(backlog) + 1 \/ j = Len(backlog) + 1
      BY <3>1, <2>2, <2>4, <2>8
    <3>2. CASE i # Len(backlog) + 1 /\ j # Len(backlog) + 1
      BY <3>2, <2>2, <2>8 DEF Round
    <3> QED BY <3>1, <3>2
  <2>9. ASSUME NEW i \in DOMAIN receive_sockets_, NEW j \in DOMAIN backlog' PROVE receive_sockets_[i] # backlog'[j]
    BY <2>2, <2>5 DEF Round
  <2>10. UNCHANGED <<receive_sockets_, pending_client_requests_, turn>>
    BY <1>0 DEF server
  <2> QED BY <2>6, <2>7, <2>8, <2>9, <2>10 DEF Round
<1>9. TiedRequests' /\ TiedResponses'
  <2>1. UNCHANGED <<pending_client_requests_, published, server_outbound, outgoing_responses_, cid_tcp_socket_,
                    torn>>
    BY <1>0 DEF server, engine, sessions
  <2>2. \A s \in Sockets : to_client'[s] = << >> \/ to_client'[s] = to_client[s]
    BY <1>0
  <2>3. ASSUME NEW s \in Sockets, NEW i \in DOMAIN to_client'[s] PROVE Arrived(s, to_client[s][i])'
    <3>1. to_client'[s] = to_client[s]
      BY <2>2, <2>3
    <3>2. Arrived(s, to_client[s][i])
      BY <2>3, <3>1 DEF TiedResponses
    <3> QED BY <2>1, <3>1, <3>2 DEF Arrived, Answer
  <2>4. TiedResponses'
    BY <2>1, <2>3 DEF TiedResponses, Answer
  <2> QED BY <2>1, <2>4, TiedRequestsFrame
<1>10. Accepted' /\ Ordered' /\ Waiting' /\ Ahead' /\ Fragments'
  <2>1. UNCHANGED <<published, pending_client_requests_, cid_next_exp_seq_num_, outgoing_responses_,
                    cid_next_outgoing_seq_num_, responded, rest, torn>>
    BY <1>0 DEF server, engine, sessions
  <2> QED BY <2>1, AcceptedFrame, OrderedFrame, WaitingFrame, AheadFrame, FragmentsFrame
<1>11. Genuine'
  <2>1. UNCHANGED <<pending_client_requests_, published, torn>>
    BY <1>0 DEF server, engine
  <2>2. ASSUME NEW d \in Clients, NEW i \in DOMAIN outbound'[d] PROVE SentBy(d, outbound'[d][i])
    <3>1. d # c /\ outbound'[d] = outbound[d]
      BY <2>2, <1>0, <1>a
    <3> QED BY <2>2, <3>1 DEF Genuine
  <2>3. ASSUME NEW s \in Sockets, NEW i \in DOMAIN to_server'[s]
        PROVE  to_server'[s][i].request \in Message /\ Intact(s, to_server[s][i].request)'
    <3>1. to_server'[s] = to_server[s]
      BY <2>3, <1>1
    <3>2. to_server[s][i].request \in Message /\ Intact(s, to_server[s][i].request)
      BY <2>3, <3>1 DEF Genuine
    <3> QED BY <2>1, <3>1, <3>2 DEF Intact
  <2>4. Requests(pending_client_requests_)' /\ Requests(published)'
    BY <2>1 DEF Genuine, Requests, Intact
  <2> QED BY <2>2, <2>3, <2>4 DEF Genuine
<1>12. Delivered'
  <2>1. UNCHANGED <<cid_tcp_socket_, torn>>
    BY <1>0 DEF server, sessions
  <2>2. ASSUME NEW d \in Clients PROVE PassedOn(d, next_exp_seq_num_[d], received[d])'
    <3>1. CASE d = c
      <4>1. received'[d] = << >> /\ next_exp_seq_num_'[d] = 1
        BY <3>1, <1>0, <1>a
      <4> QED BY <4>1 DEF PassedOn
    <3>2. CASE d # c
      <4>1. received'[d] = received[d] /\ next_exp_seq_num_'[d] = next_exp_seq_num_[d] /\ socketOf(d)' = socketOf(d)
        BY <3>2, <1>0, <1>a DEF socketOf
      <4>2. PassedOn(d, next_exp_seq_num_[d], received[d])
        BY DEF Delivered
      <4> QED BY <2>1, <4>1, <4>2 DEF PassedOn, InPlace
    <3> QED BY <3>1, <3>2
  <2> QED BY <2>2 DEF Delivered
<1> QED BY <1>4, <1>5, <1>8, <1>9, <1>10, <1>11, <1>12

(* A request waits in the gateway. *)
LEMMA SendRequestKeeps ==
  ASSUME IInv, NEW c \in Clients, SendRequest(c)
  PROVE  IInv'
<1> USE DEF IInv
<1> DEFINE m == [seq_num_ |-> next_outgoing_seq_num_[c], client_id_ |-> c, number |-> next_outgoing_seq_num_[c]]
<1>0. /\ outbound' = [outbound EXCEPT ![c] = Append(outbound[c], m)]
      /\ next_outgoing_seq_num_' = [next_outgoing_seq_num_ EXCEPT ![c] = next_outgoing_seq_num_[c] + 1]
      /\ UNCHANGED <<session, next_exp_seq_num_, received, backlog, to_server, to_client, rest, torn, shorts,
                     restarts, server, engine>>
  BY Zenon DEF SendRequest
<1>a. outbound \in [Clients -> Seq(Message)] /\ next_outgoing_seq_num_ \in [Clients -> Nat]
  BY DEF Types
<1>b. m \in Message /\ SentBy(c, m)
  BY <1>a DEF Message, SentBy
<1> HIDE DEF m
<1>1. Types'
  <2>1. outbound' \in [Clients -> Seq(Message)] /\ next_outgoing_seq_num_' \in [Clients -> Nat]
    BY <1>0, <1>a, <1>b
  <2> QED BY <1>0, <2>1 DEF Types, server, engine, sessions
<1>2. Sessions'
  BY <1>0 DEF Sessions
<1>3. UNCHANGED <<receive_sockets_, pending_client_requests_, turn, published, cid_tcp_socket_,
                  cid_next_exp_seq_num_, outgoing_responses_, cid_next_outgoing_seq_num_, responded,
                  server_outbound>>
  BY <1>0 DEF server, engine, sessions
<1>4. Genuine'
  <2>1. ASSUME NEW d \in Clients, NEW i \in DOMAIN outbound'[d] PROVE SentBy(d, outbound'[d][i])
    <3>1. outbound[d] \in Seq(Message)
      BY <1>a
    <3>2. CASE d = c
      <4>1. outbound'[d] = Append(outbound[d], m)
        BY <3>2, <1>0, <1>a
      <4>2. (i \in DOMAIN outbound[d] /\ outbound'[d][i] = outbound[d][i]) \/ outbound'[d][i] = m
        BY <2>1, <3>1, <4>1, <1>b
      <4> QED BY <3>2, <4>2, <1>b DEF Genuine
    <3>3. CASE d # c
      <4>1. outbound'[d] = outbound[d]
        BY <3>3, <1>0, <1>a
      <4> QED BY <2>1, <4>1 DEF Genuine
    <3> QED BY <3>2, <3>3
  <2>2. Requests(pending_client_requests_)' /\ Requests(published)'
    BY <1>0, <1>3 DEF Genuine, Requests, Intact
  <2>3. \A s \in Sockets : \A i \in DOMAIN to_server'[s] :
          to_server'[s][i].request \in Message /\ Intact(s, to_server[s][i].request)'
    BY <1>0 DEF Genuine, Intact
  <2> QED BY <2>1, <2>2, <2>3 DEF Genuine
<1>5. Delivered'
  BY <1>0, <1>3, DeliveredFrame
<1>6. Round' /\ TiedRequests' /\ TiedResponses' /\ Accepted' /\ Ordered' /\ Waiting' /\ Ahead' /\ Fragments'
  BY <1>0, <1>3, RoundFrame, AheadFrame, TiedRequestsFrame, TiedResponsesFrame, AcceptedFrame, OrderedFrame,
     WaitingFrame, FragmentsFrame
<1> QED BY <1>1, <1>2, <1>4, <1>5, <1>6

(* A gateway reads and sends. *)
LEMMA GatewaySocketKeeps ==
  ASSUME IInv, NEW c \in Clients, GatewaySocket(c)
  PROVE  IInv'
<1> USE DEF IInv
<1> DEFINE k == socketOf(c)
           after == recvResponses(c, [next |-> next_exp_seq_num_[c], received |-> received[c]], to_client[k])
           wire(sent) == [i \in DOMAIN sent.arrived |-> [request |-> sent.arrived[i], arrival |-> now]]
<1>0. /\ next_exp_seq_num_' = [next_exp_seq_num_ EXCEPT ![c] = after.next]
      /\ received' = [received EXCEPT ![c] = after.received]
      /\ to_client' = [to_client EXCEPT ![k] = << >>]
      /\ outbound' = [outbound EXCEPT ![c] = << >>]
      /\ \E sent \in Sends("requests", k, outbound[c]) :
           /\ Transmitted("requests", k, sent)
           /\ to_server' = [to_server EXCEPT ![k] = to_server[k] \o wire(sent)]
      /\ UNCHANGED <<session, next_outgoing_seq_num_, backlog, restarts, server, engine>>
  BY Zenon DEF GatewaySocket
<1>1. k \in Sockets /\ k[1] = c
  BY SocketsAre
<1>2. PICK sent \in Sends("requests", k, outbound[c]) :
        /\ Transmitted("requests", k, sent)
        /\ to_server' = [to_server EXCEPT ![k] = to_server[k] \o wire(sent)]
  BY <1>0
<1>3. PICK w : w = wire(sent)
  OBVIOUS
<1>a. outbound[c] \in Seq(Message) /\ outbound \in [Clients -> Seq(Message)]
  BY DEF Types
<1>b. "requests" \in Directions
  BY DEF Directions
<1> HIDE DEF k
<1>c. /\ Piece(rest["requests"][k], outbound[c], <<sent.arrived, sent.rest>>)
      /\ shorts' \in Nat
      /\ rest' \in [Directions -> [Sockets -> Seq(Message)]]
      /\ torn' \in [Directions -> SUBSET Sockets]
      /\ \A x \in Directions : torn[x] \subseteq torn'[x] /\ (x # "requests" => torn'[x] = torn[x])
      /\ Fragments'
  <2>1. Piece(rest["requests"][k], outbound[c], <<sent.arrived, sent.rest>>)
    BY <1>1, <1>2, <1>a, <1>b, SendsAre
  <2>2. /\ shorts' \in Nat
        /\ rest' \in [Directions -> [Sockets -> Seq(Message)]]
        /\ torn' \in [Directions -> SUBSET Sockets]
        /\ \A x \in Directions : torn[x] \subseteq torn'[x] /\ (x # "requests" => torn'[x] = torn[x])
        /\ Fragments'
    BY <1>1, <1>2, <1>a, <1>b, TransmittedKeeps
  <2> QED BY <2>1, <2>2
<1>d. torn'["responses"] = torn["responses"] /\ torn["requests"] \subseteq torn'["requests"]
  BY <1>b, <1>c DEF Directions
<1>e. /\ sent.arrived \in Seq(Message)
      /\ \A i \in DOMAIN sent.arrived :
           /\ sent.arrived[i] \in Message
           /\ SentBy(c, sent.arrived[i]) \/ k \in torn["requests"]
  <2>1. sent.arrived \in Seq(Message)
    BY <1>c DEF Piece
  <2>2. ASSUME NEW i \in DOMAIN sent.arrived PROVE SentBy(c, sent.arrived[i]) \/ k \in torn["requests"]
    <3>1. \/ \E j \in DOMAIN outbound[c] : sent.arrived[i] = outbound[c][j]
          \/ rest["requests"][k] # << >>
      BY <1>c DEF Piece
    <3>2. rest["requests"][k] # << >> => k \in torn["requests"]
      BY <1>1, <1>b DEF Fragments
    <3> QED BY <3>1, <3>2 DEF Genuine
  <2> QED BY <2>1, <2>2
<1>4. /\ IsSequence(w) /\ Len(w) = Len(sent.arrived) /\ Len(sent.arrived) \in Nat
      /\ \A i \in 1 .. Len(w) : w[i].request \in Message /\ (SentBy(c, w[i].request) \/ k \in torn["requests"])
  <2>1. PICK t : t = now
    OBVIOUS
  <2>2. PICK q : q = sent.arrived
    OBVIOUS
  <2>3. w = [i \in DOMAIN q |-> [request |-> q[i], arrival |-> t]]
    BY <1>3, <2>1, <2>2
  <2>4. DOMAIN q = 1 .. Len(q) /\ Len(q) \in Nat
    BY <1>e, <2>2
  <2> DEFINE S == {w[i] : i \in 1 .. Len(q)}
  <2>5. w \in [1 .. Len(q) -> S] /\ \A i \in 1 .. Len(q) : w[i].request = q[i]
    BY <2>3, <2>4
  <2>6. w \in Seq(S) /\ Len(w) = Len(q)
    <3> HIDE DEF S
    <3> QED BY <2>4, <2>5
  <2> QED BY <2>2, <2>4, <2>5, <2>6, <1>e DEF IsSequence
<1>5. PassedOn(c, next_exp_seq_num_[c], received[c])
  BY DEF Delivered
<1>6. to_client[k] \in Seq(Message) /\ \A i \in DOMAIN to_client[k] : Arrived(k, to_client[k][i])
  BY <1>1 DEF Types, TiedResponses
<1>7. PICK next, passed :
        /\ after = [next |-> next, received |-> passed]
        /\ PassedOn(c, next, passed)
  BY <1>5, <1>6, PassAll DEF k
<1> HIDE DEF after, wire
<1>8. next \in Nat /\ passed \in Seq(Nat)
  BY <1>7 DEF PassedOn
<1>9. /\ next_exp_seq_num_' = [next_exp_seq_num_ EXCEPT ![c] = next]
      /\ received' = [received EXCEPT ![c] = passed]
  BY <1>0, <1>7
<1>10. UNCHANGED <<receive_sockets_, pending_client_requests_, turn, published, cid_tcp_socket_,
                   cid_next_exp_seq_num_, outgoing_responses_, cid_next_outgoing_seq_num_, responded,
                   server_outbound, session, backlog>>
  BY <1>0 DEF server, engine, sessions
<1>11. ASSUME NEW s \in Sockets
       PROVE  /\ IsSequence(to_server'[s])
              /\ \A i \in DOMAIN to_server'[s] :
                   to_server'[s][i].request \in Message /\ Intact(s, to_server[s][i].request)'
  <2>0. IsSequence(to_server[s]) /\ DOMAIN to_server = Sockets
    BY DEF Types
  <2>1. CASE s = k
    <3> DEFINE q == to_server[s] \o w
    <3>1. to_server'[s] = q
      BY <2>0, <2>1, <1>2, <1>3
    <3>2. /\ IsSequence(q) /\ Len(to_server[s]) \in Nat /\ DOMAIN to_server[s] = 1 .. Len(to_server[s])
          /\ Len(q) = Len(to_server[s]) + Len(w)
          /\ \A i \in 1 .. Len(to_server[s]) : q[i] = to_server[s][i]
          /\ \A i \in Len(to_server[s]) + 1 .. Len(to_server[s]) + Len(w) : q[i] = w[i - Len(to_server[s])]
      BY <2>0, <1>4, ConcatIs, SequenceIs
    <3>3. DOMAIN q = 1 .. Len(q)
      BY <3>2, SequenceIs
    <3> HIDE DEF q
    <3>4. ASSUME NEW i \in DOMAIN q
          PROVE  q[i].request \in Message /\ (s \in torn'["requests"] \/ SentBy(s[1], q[i].request))
      <4>1. CASE i \in 1 .. Len(to_server[s])
        <5>1. to_server[s][i].request \in Message /\ Intact(s, to_server[s][i].request)
          BY <4>1, <3>2 DEF Genuine
        <5>2. q[i] = to_server[s][i]
          BY <4>1, <3>2
        <5> QED BY <5>1, <5>2, <1>d DEF Intact
      <4>2. CASE i \notin 1 .. Len(to_server[s])
        <5>1. i - Len(to_server[s]) \in 1 .. Len(w) /\ q[i] = w[i - Len(to_server[s])]
          <6>1. PICK l, m : l = Len(to_server[s]) /\ m = Len(w)
            OBVIOUS
          <6>2. l \in Nat /\ m \in Nat /\ i \in 1 .. l + m /\ i \notin 1 .. l
            BY <4>2, <6>1, <3>2, <3>3, <1>4
          <6>3. i \in l + 1 .. l + m /\ i - l \in 1 .. m
            BY <6>2
          <6> QED BY <6>1, <6>3, <3>2
        <5> QED BY <5>1, <1>1, <1>4, <1>d, <2>1
      <4> QED BY <4>1, <4>2
    <3> QED BY <3>1, <3>2, <3>4 DEF Intact
  <2>2. CASE s # k
    <3>1. to_server'[s] = to_server[s]
      BY <2>0, <2>2, <1>2
    <3>2. \A i \in DOMAIN to_server[s] :
            to_server[s][i].request \in Message /\ Intact(s, to_server[s][i].request)
      BY DEF Genuine
    <3> QED BY <2>0, <3>1, <3>2, <1>d DEF Intact
  <2> QED BY <2>1, <2>2
<1>12. Types'
  <2>1. /\ DOMAIN to_server' = Sockets
        /\ to_server' = [s \in Sockets |-> to_server'[s]]
        /\ \A s \in Sockets : IsSequence(to_server'[s])
    BY <1>2, <1>11 DEF Types
  <2>2. to_client \in [Sockets -> Seq(Message)] /\ outbound \in [Clients -> Seq(Message)]
    BY DEF Types
  <2>3. to_client' \in [Sockets -> Seq(Message)] /\ outbound' \in [Clients -> Seq(Message)]
    BY <1>0, <1>1, <2>2
  <2>4. next_exp_seq_num_' \in [Clients -> Nat] /\ received' \in [Clients -> Seq(Nat)]
    BY <1>8, <1>9 DEF Types
  <2> QED BY <1>0, <1>10, <1>c, <2>1, <2>3, <2>4 DEF Types
<1>13. Sessions'
  BY <1>0 DEF Sessions
<1>14. Round' /\ TiedRequests' /\ Accepted' /\ Ordered' /\ Waiting' /\ Ahead'
  BY <1>10, RoundFrame, TiedRequestsFrame, AheadFrame, AcceptedFrame, OrderedFrame, WaitingFrame
<1>15. TiedResponses'
  <2>1. ASSUME NEW s \in Sockets, NEW i \in DOMAIN to_client'[s] PROVE Arrived(s, to_client[s][i])'
    <3>1. to_client'[s] = to_client[s]
      BY <1>0, <1>1, <2>1 DEF Types
    <3>2. Arrived(s, to_client[s][i])
      BY <2>1, <3>1 DEF TiedResponses
    <3> QED BY <1>10, <1>d, <3>1, <3>2 DEF Arrived, Answer
  <2> QED BY <1>10, <2>1 DEF TiedResponses, Answer
<1>16. Delivered'
  <2>1. ASSUME NEW d \in Clients PROVE PassedOn(d, next_exp_seq_num_[d], received[d])'
    <3>0. socketOf(d)' = socketOf(d) /\ UNCHANGED cid_tcp_socket_
      BY <1>10 DEF socketOf
    <3>1. CASE d = c
      <4>1. received'[d] = passed /\ next_exp_seq_num_'[d] = next
        BY <3>1, <1>9 DEF Types
      <4> QED BY <3>0, <3>1, <4>1, <1>7, <1>d DEF PassedOn, InPlace
    <3>2. CASE d # c
      <4>1. received'[d] = received[d] /\ next_exp_seq_num_'[d] = next_exp_seq_num_[d]
        BY <3>2, <1>9 DEF Types
      <4>2. PassedOn(d, next_exp_seq_num_[d], received[d])
        BY DEF Delivered
      <4> QED BY <3>0, <4>1, <4>2, <1>d DEF PassedOn, InPlace
    <3> QED BY <3>1, <3>2
  <2> QED BY <2>1 DEF Delivered
<1>17. Genuine'
  <2>1. ASSUME NEW d \in Clients, NEW i \in DOMAIN outbound'[d] PROVE SentBy(d, outbound'[d][i])
    <3>1. outbound'[d] = outbound[d]
      BY <2>1, <1>0, <1>a
    <3> QED BY <2>1, <3>1 DEF Genuine
  <2>2. Requests(pending_client_requests_)' /\ Requests(published)'
    BY <1>d, <1>10 DEF Genuine, Requests, Intact
  <2> QED BY <1>11, <2>1, <2>2 DEF Genuine
<1> QED BY <1>12, <1>13, <1>14, <1>15, <1>16, <1>17, <1>c

-----------------------------------------------------------------------------
(* The order server and the engine *)

(* A new round begins, with nothing pending. *)
LEMMA PollKeeps ==
  ASSUME IInv, poll
  PROVE  IInv'
<1> USE DEF IInv
<1>0. /\ turn = Len(receive_sockets_) + 2
      /\ receive_sockets_' = receive_sockets_ \o backlog
      /\ backlog' = << >>
      /\ turn' = 1
      /\ UNCHANGED <<gateways, to_server, to_client, rest, torn, shorts, restarts, sessions, server_outbound,
                     pending_client_requests_, failed, engine>>
  BY DEF poll
<1>1. UNCHANGED <<session, next_exp_seq_num_, received, pending_client_requests_, published, cid_tcp_socket_,
                  cid_next_exp_seq_num_, outgoing_responses_, cid_next_outgoing_seq_num_,
                  responded, server_outbound, to_client>>
  BY <1>0 DEF gateways, engine, sessions
<1>2. receive_sockets_ \in Seq(Sockets) /\ backlog \in Seq(Sockets)
  BY DEF Types
<1> DEFINE n == Len(receive_sockets_)
           q == receive_sockets_ \o backlog
<1>3. /\ q \in Seq(Sockets) /\ n \in Nat /\ Len(backlog) \in Nat /\ Len(q) = n + Len(backlog)
      /\ DOMAIN q = 1 .. n + Len(backlog) /\ DOMAIN receive_sockets_ = 1 .. n /\ DOMAIN backlog = 1 .. Len(backlog)
      /\ \A i \in 1 .. n : q[i] = receive_sockets_[i]
      /\ \A i \in n + 1 .. n + Len(backlog) : q[i] = backlog[i - n]
  BY <1>2
<1> HIDE DEF q
<1>4. Types'
  <2>1. receive_sockets_' \in Seq(Sockets) /\ turn' \in 1 .. Len(receive_sockets_') + 2
    BY <1>0, <1>3 DEF q
  <2>2. backlog' \in Seq(Sockets)
    BY <1>0
  <2> QED BY <1>0, <2>1, <2>2 DEF Types, gateways, engine, sessions
<1>5. Sessions'
  BY <1>0, <1>1 DEF Sessions
<1>6. Round'
  <2>1. pending_client_requests_ = << >>
    BY <1>0 DEF Round
  <2>2. DOMAIN backlog' = {} /\ DOMAIN pending_client_requests_' = {}
    BY <2>1, <1>0
  <2>3. ASSUME NEW i \in DOMAIN q PROVE q[i][2] <= session[q[i][1]]
    <3>1. CASE i \in 1 .. n
      BY <3>1, <1>3 DEF Round
    <3>2. CASE i \in n + 1 .. n + Len(backlog)
      <4>1. i - n \in DOMAIN backlog /\ q[i] = backlog[i - n]
        BY <3>2, <1>3
      <4> QED BY <4>1 DEF Round
    <3> QED BY <3>1, <3>2, <1>3
  <2>4. ASSUME NEW i \in DOMAIN q, NEW j \in DOMAIN q, q[i] = q[j] PROVE i = j
    <3>1. CASE i \in 1 .. n /\ j \in 1 .. n
      BY <3>1, <1>3, <2>4 DEF Round
    <3>2. CASE i \in 1 .. n /\ j \in n + 1 .. n + Len(backlog)
      <4>1. j - n \in DOMAIN backlog /\ q[j] = backlog[j - n]
        BY <3>2, <1>3
      <4> QED BY <4>1, <3>2, <1>3, <2>4 DEF Round
    <3>3. CASE j \in 1 .. n /\ i \in n + 1 .. n + Len(backlog)
      <4>1. i - n \in DOMAIN backlog /\ q[i] = backlog[i - n]
        BY <3>3, <1>3
      <4> QED BY <4>1, <3>3, <1>3, <2>4 DEF Round
    <3>4. CASE i \in n + 1 .. n + Len(backlog) /\ j \in n + 1 .. n + Len(backlog)
      <4>1. /\ j - n \in DOMAIN backlog /\ q[j] = backlog[j - n]
            /\ i - n \in DOMAIN backlog /\ q[i] = backlog[i - n]
        BY <3>4, <1>3
      <4>2. i - n = j - n
        BY <4>1, <2>4 DEF Round
      <4> QED BY <4>2, <3>4, <1>3
    <3> QED BY <3>1, <3>2, <3>3, <3>4, <1>3
  <2>5. receive_sockets_' = q /\ UNCHANGED session
    BY <1>0, <1>1 DEF q
  <2>6. pending_client_requests_' = << >>
    BY <2>1, <1>1
  <2> QED BY <2>2, <2>3, <2>4, <2>5, <2>6, Zenon DEF Round
<1>7. /\ TiedRequests' /\ TiedResponses' /\ Accepted' /\ Ordered' /\ Waiting' /\ Ahead' /\ Delivered'
      /\ Fragments' /\ Genuine'
  <2>1. UNCHANGED <<rest, torn, outbound, to_server>>
    BY <1>0 DEF gateways
  <2> QED BY <1>1, <2>1, AheadFrame, TiedRequestsFrame, TiedResponsesFrame, AcceptedFrame, OrderedFrame,
             WaitingFrame, DeliveredFrame, FragmentsFrame, GenuineFrame
<1> QED BY <1>4, <1>5, <1>6, <1>7

(* The engine answers a client that has a request published, hence a socket. *)
LEMMA sendClientResponseKeeps ==
  ASSUME IInv, NEW c \in Clients, sendClientResponse(c)
  PROVE  IInv'
<1> USE DEF IInv
<1> DEFINE x == [client_id_ |-> c, number |-> responded[c] + 1]
           q == outgoing_responses_
           r == Append(q, x)
<1>0. /\ \E i \in DOMAIN published : published[i].request.client_id_ = c
      /\ responded' = [responded EXCEPT ![c] = responded[c] + 1]
      /\ outgoing_responses_' = r
      /\ UNCHANGED <<gateways, network, server, published>>
  BY Zenon DEF sendClientResponse
<1>1. UNCHANGED <<session, backlog, receive_sockets_, turn, next_exp_seq_num_, received,
                  pending_client_requests_, published, cid_tcp_socket_,
                  cid_next_exp_seq_num_, cid_next_outgoing_seq_num_,
                  server_outbound, to_client>>
  BY <1>0 DEF gateways, network, server, sessions
<1>2. /\ q \in Seq([client_id_ : Clients, number : Nat]) /\ responded \in [Clients -> Nat]
      /\ cid_next_outgoing_seq_num_ \in [Clients -> Nat]
  BY DEF Types
<1>3. x \in [client_id_ : Clients, number : Nat] /\ x.client_id_ = c /\ x.number = responded[c] + 1
  BY <1>2
<1> HIDE DEF x
<1>4. /\ r \in Seq([client_id_ : Clients, number : Nat]) /\ Len(q) \in Nat
      /\ DOMAIN r = 1 .. Len(q) + 1 /\ DOMAIN q = 1 .. Len(q) /\ r[Len(q) + 1] = x
      /\ \A i \in 1 .. Len(q) : r[i] = q[i]
  BY <1>2, <1>3
<1>4a. \A i \in 1 .. Len(q) : q[i].client_id_ \in Clients /\ q[i].number \in Nat
  <2>1. \A i \in 1 .. Len(q) : q[i] \in [client_id_ : Clients, number : Nat]
    BY <1>2, ElementOf, Zenon
  <2> HIDE DEF q
  <2> QED BY <2>1
<1> HIDE DEF r
<1>5. responded' \in [Clients -> Nat] /\ responded'[c] = responded[c] + 1
      /\ \A d \in Clients : d # c => responded'[d] = responded[d]
  BY <1>0, <1>2
<1>5a. ASSUME NEW d \in Clients
       PROVE  responded[d] \in Nat /\ responded'[d] \in Nat /\ responded'[d] >= responded[d]
  <2>1. responded \in [Clients -> Nat]
    BY <1>2
  <2>2. responded[d] \in Nat /\ responded'[d] \in Nat
    BY <2>1, <1>5
  <2>3. responded'[d] = responded[d] + 1 \/ responded'[d] = responded[d]
    BY <1>5
  <2> QED BY <2>2, <2>3
<1>6. Types'
  BY <1>0, <1>4, <1>5 DEF Types, gateways, network, server, sessions
<1>7. Sessions'
  BY <1>0, <1>1 DEF Sessions, network
<1>8. Round' /\ Accepted' /\ Ordered' /\ Delivered' /\ TiedRequests' /\ Fragments' /\ Genuine'
  <2>1. UNCHANGED <<rest, torn, outbound, to_server>>
    BY <1>0 DEF gateways, network
  <2> QED BY <1>1, <2>1, RoundFrame, AcceptedFrame, OrderedFrame, DeliveredFrame, TiedRequestsFrame,
             FragmentsFrame, GenuineFrame
<1>9. TiedResponses'
  <2>1. cid_tcp_socket_[c] # nullptr
    <3>1. PICK i \in DOMAIN published : published[i].request.client_id_ = c
      BY <1>0
    <3>2. published[i].socket \in Sockets /\ cid_tcp_socket_[c] = published[i].socket
      BY <3>1 DEF Genuine, Requests, TiedRequests, TiedIn
    <3> QED BY <3>2, SocketNotNull
  <2>2. \A i \in DOMAIN r : cid_tcp_socket_[r[i].client_id_] # nullptr
    BY <2>1, <1>3, <1>4 DEF TiedResponses
  <2>3. UNCHANGED torn
    BY <1>0 DEF network
  <2> QED BY <1>0, <1>1, <2>2, <2>3 DEF TiedResponses, Answer, Arrived
<1>10. Waiting'
  <2>0. \A d \in Clients : cid_next_outgoing_seq_num_[d] <= responded[d] + 1
    BY DEF IInv, Ahead
  <2>1. ASSUME NEW i \in DOMAIN r
        PROVE  r[i].number \in cid_next_outgoing_seq_num_[r[i].client_id_] .. responded'[r[i].client_id_]
    <3>1. CASE i = Len(q) + 1
      BY <3>1, <1>3, <1>4, <1>5, <1>2, <2>0
    <3>2. CASE i \in 1 .. Len(q)
      <4>1. q[i].number \in cid_next_outgoing_seq_num_[q[i].client_id_] .. responded[q[i].client_id_]
        BY <3>2, <1>4 DEF Waiting
      <4>2. q[i].client_id_ \in Clients
        BY <3>2, <1>4a
      <4>3. responded'[q[i].client_id_] \in Nat /\ responded'[q[i].client_id_] >= responded[q[i].client_id_]
        BY <4>2, <1>5a
      <4>4. responded[q[i].client_id_] \in Nat /\ cid_next_outgoing_seq_num_[q[i].client_id_] \in Nat
        BY <4>2, <1>2
      <4>5. r[i] = q[i]
        BY <3>2, <1>4
      <4> QED BY <4>1, <4>3, <4>4, <4>5
    <3> QED BY <3>1, <3>2, <1>4
  <2>2. ASSUME NEW i \in DOMAIN r, NEW j \in DOMAIN r, i < j, r[i].client_id_ = r[j].client_id_
        PROVE  r[i].number < r[j].number
    <3>1. i \in 1 .. Len(q) /\ r[i] = q[i]
      BY <2>2, <1>4
    <3>2. CASE j = Len(q) + 1
      <4>1. q[i].client_id_ = c /\ q[i].number \in cid_next_outgoing_seq_num_[c] .. responded[c]
        BY <3>1, <3>2, <2>2, <1>3, <1>4 DEF Waiting
      <4>2. responded[c] \in Nat /\ cid_next_outgoing_seq_num_[c] \in Nat
        BY <1>2
      <4>3. r[j].number = responded[c] + 1
        BY <3>2, <1>3, <1>4
      <4> QED BY <4>1, <4>2, <4>3, <3>1
    <3>3. CASE j \in 1 .. Len(q)
      BY <3>1, <3>3, <2>2, <1>4 DEF Waiting
    <3> QED BY <3>2, <3>3, <1>4
  <2>3. ASSUME NEW d \in Clients, NEW n \in cid_next_outgoing_seq_num_[d] .. responded'[d]
        PROVE  \E i \in DOMAIN r : r[i].client_id_ = d /\ r[i].number = n
    <3>1. CASE d = c /\ n = responded[c] + 1
      BY <3>1, <1>3, <1>4
    <3>2. CASE ~(d = c /\ n = responded[c] + 1)
      <4>1. n \in cid_next_outgoing_seq_num_[d] .. responded[d]
        BY <3>2, <1>2, <1>5
      <4>2. PICK i \in DOMAIN q : q[i].client_id_ = d /\ q[i].number = n
        BY <4>1 DEF Waiting
      <4> QED BY <4>2, <1>4
    <3> QED BY <3>1, <3>2
  <2> QED BY <1>0, <1>1, <2>1, <2>2, <2>3 DEF Waiting
<1>11. Ahead'
  <2>1. ASSUME NEW d \in Clients PROVE cid_next_outgoing_seq_num_[d] <= responded'[d] + 1
    <3>1. cid_next_outgoing_seq_num_[d] <= responded[d] + 1
      BY DEF Ahead
    <3>2. /\ responded[d] \in Nat /\ responded'[d] \in Nat /\ responded'[d] >= responded[d]
          /\ cid_next_outgoing_seq_num_[d] \in Nat
      BY <1>2, <1>5a
    <3> QED BY <3>1, <3>2
  <2> QED BY <2>1, <1>1 DEF Ahead
<1> QED BY <1>6, <1>7, <1>8, <1>9, <1>10, <1>11

(* The server numbers the first response that waits as the engine did. *)
LEMMA SendResponseKeeps ==
  ASSUME IInv, SendResponse
  PROVE  IInv'
<1> USE DEF IInv
<1> DEFINE q == outgoing_responses_
           c == Head(q).client_id_
           s == cid_tcp_socket_[c]
           m == [seq_num_ |-> cid_next_outgoing_seq_num_[c], client_id_ |-> c, number |-> Head(q).number]
<1>0. /\ q # << >>
      /\ s # nullptr
      /\ server_outbound' = [server_outbound EXCEPT ![s] = Append(server_outbound[s], m)]
      /\ cid_next_outgoing_seq_num_' = [cid_next_outgoing_seq_num_ EXCEPT ![c] = cid_next_outgoing_seq_num_[c] + 1]
      /\ outgoing_responses_' = Tail(q)
      /\ UNCHANGED <<gateways, network, receive_sockets_, turn, cid_tcp_socket_,
                     cid_next_exp_seq_num_, pending_client_requests_, failed,
                     published, responded>>
  BY Zenon DEF SendResponse
<1>1. UNCHANGED <<session, backlog, receive_sockets_, turn, next_exp_seq_num_, received,
                  pending_client_requests_, published, cid_tcp_socket_,
                  cid_next_exp_seq_num_, responded, to_client>>
  BY <1>0 DEF gateways, network
<1>2. /\ q \in Seq([client_id_ : Clients, number : Nat]) /\ responded \in [Clients -> Nat]
      /\ cid_next_outgoing_seq_num_ \in [Clients -> Nat] /\ cid_tcp_socket_ \in [Clients -> Sockets \cup {nullptr}]
      /\ server_outbound \in [Sockets -> Seq(Message)]
  BY DEF Types
<1> DEFINE r == Tail(q)
<1>3. /\ Len(q) \in Nat /\ Len(q) >= 1 /\ DOMAIN q = 1 .. Len(q) /\ DOMAIN r = 1 .. Len(q) - 1
      /\ r \in Seq([client_id_ : Clients, number : Nat])
      /\ \A i \in 1 .. Len(q) - 1 : r[i] = q[i + 1]
      /\ Head(q) = q[1]
  BY <1>0, <1>2
<1>4. c \in Clients /\ c = q[1].client_id_ /\ \A i \in 1 .. Len(q) : q[i].client_id_ \in Clients /\ q[i].number \in Nat
  <2>1. \A i \in 1 .. Len(q) : q[i] \in [client_id_ : Clients, number : Nat]
    BY <1>2, ElementOf, Zenon
  <2> HIDE DEF q, r
  <2> QED BY <2>1, <1>3
<1> HIDE DEF r, c
<1>5. s \in Sockets
  BY <1>0, <1>2, <1>4
<1>6. q[1].number = cid_next_outgoing_seq_num_[c]
  <2>1. q[1].number \in cid_next_outgoing_seq_num_[c] .. responded[c]
    BY <1>3, <1>4 DEF Waiting
  <2>2. cid_next_outgoing_seq_num_[c] \in cid_next_outgoing_seq_num_[c] .. responded[c]
    BY <2>1, <1>2, <1>4
  <2>3. PICK i \in DOMAIN q : q[i].client_id_ = c /\ q[i].number = cid_next_outgoing_seq_num_[c]
    BY <2>2, <1>4 DEF Waiting
  <2>4. CASE i = 1
    BY <2>4, <2>3
  <2>5. CASE i > 1
    <3>1. 1 \in DOMAIN q
      BY <1>3
    <3>2. q[1].number < q[i].number
      BY <3>1, <2>5, <2>3, <1>4 DEF Waiting
    <3> QED BY <3>2, <2>1, <2>3, <1>2, <1>4
  <2> QED BY <2>4, <2>5, <1>3
<1>7. m \in Message /\ m.seq_num_ = m.number /\ m.client_id_ = c
  BY <1>2, <1>3, <1>4, <1>6 DEF Message
<1>8. cid_next_outgoing_seq_num_' \in [Clients -> Nat]
  <2>1. cid_next_outgoing_seq_num_' = [cid_next_outgoing_seq_num_ EXCEPT ![c] = cid_next_outgoing_seq_num_[c] + 1]
    BY <1>0
  <2>2. cid_next_outgoing_seq_num_ \in [Clients -> Nat]
    BY <1>2
  <2> QED BY <2>1, <2>2, <1>4
<1>9. server_outbound' \in [Sockets -> Seq(Message)]
  <2> HIDE DEF m, s
  <2> QED BY <1>0, <1>2, <1>5, <1>7
<1>10. Types'
  BY <1>0, <1>3, <1>8, <1>9 DEF Types, gateways, network, r
<1>11. Sessions'
  BY <1>0, <1>1 DEF Sessions, network
<1>12. Round' /\ Accepted' /\ Ordered' /\ TiedRequests' /\ Delivered' /\ Fragments' /\ Genuine'
  <2>1. UNCHANGED <<rest, torn, outbound, to_server>>
    BY <1>0 DEF gateways, network
  <2> QED BY <1>1, <2>1, RoundFrame, AcceptedFrame, OrderedFrame, TiedRequestsFrame, DeliveredFrame,
             FragmentsFrame, GenuineFrame
<1>13. TiedResponses'
  <2>1. ASSUME NEW k \in Sockets, NEW i \in DOMAIN server_outbound'[k] PROVE Answer(k, server_outbound'[k][i])
    <3>1. CASE k = s
      <4> DEFINE b == server_outbound[s]
      <4>1. b \in Seq(Message) /\ \A j \in DOMAIN b : Answer(s, b[j])
        BY <1>2, <1>5 DEF TiedResponses
      <4>2. Answer(s, m)
        BY <1>7 DEF Answer
      <4> HIDE DEF m, s
      <4>3. server_outbound'[s] = Append(b, m)
        BY <1>0, <1>2, <1>5
      <4> HIDE DEF b
      <4>4. (i \in DOMAIN b /\ Append(b, m)[i] = b[i]) \/ Append(b, m)[i] = m
        BY <2>1, <3>1, <4>1, <4>3, <1>7
      <4> QED BY <3>1, <4>1, <4>2, <4>3, <4>4
    <3>2. CASE k # s
      <4>1. server_outbound'[k] = server_outbound[k]
        BY <3>2, <1>0, <1>2
      <4> QED BY <2>1, <4>1 DEF TiedResponses
    <3> QED BY <3>1, <3>2
  <2>2. ASSUME NEW i \in DOMAIN r PROVE cid_tcp_socket_[r[i].client_id_] # nullptr
    <3>1. i + 1 \in DOMAIN q /\ r[i] = q[i + 1]
      BY <1>3
    <3> QED BY <3>1 DEF TiedResponses
  <2>3. outgoing_responses_' = r /\ UNCHANGED torn
    BY <1>0 DEF r, network
  <2> HIDE DEF s
  <2> QED BY <1>1, <2>1, <2>2, <2>3 DEF TiedResponses, Answer, Arrived
<1>14. Waiting'
  <2>0. outgoing_responses_' = r /\ UNCHANGED responded
    BY <1>0 DEF r
  <2>a. cid_next_outgoing_seq_num_'[c] = cid_next_outgoing_seq_num_[c] + 1
        /\ \A d \in Clients : d # c => cid_next_outgoing_seq_num_'[d] = cid_next_outgoing_seq_num_[d]
    BY <1>0, <1>2, <1>4
  <2>1. ASSUME NEW i \in DOMAIN r
        PROVE  r[i].number \in cid_next_outgoing_seq_num_'[r[i].client_id_] .. responded[r[i].client_id_]
    <3>1. i + 1 \in DOMAIN q /\ r[i] = q[i + 1] /\ q[i + 1].client_id_ \in Clients /\ 1 \in DOMAIN q /\ 1 < i + 1
      BY <1>3, <1>4
    <3>2. q[i + 1].number \in cid_next_outgoing_seq_num_[q[i + 1].client_id_] .. responded[q[i + 1].client_id_]
      BY <3>1 DEF Waiting
    <3>3. CASE q[i + 1].client_id_ = c
      <4>1. q[1].number < q[i + 1].number
        BY <3>1, <3>3, <1>4 DEF Waiting
      <4> QED BY <4>1, <3>1, <3>2, <3>3, <1>2, <1>6, <2>a
    <3>4. CASE q[i + 1].client_id_ # c
      BY <3>1, <3>2, <3>4, <2>a
    <3> QED BY <3>3, <3>4
  <2>2. ASSUME NEW i \in DOMAIN r, NEW j \in DOMAIN r, i < j, r[i].client_id_ = r[j].client_id_
        PROVE  r[i].number < r[j].number
    <3>1. i + 1 \in DOMAIN q /\ j + 1 \in DOMAIN q /\ i + 1 < j + 1 /\ r[i] = q[i + 1] /\ r[j] = q[j + 1]
      BY <2>2, <1>3
    <3> QED BY <3>1, <2>2 DEF Waiting
  <2>3. ASSUME NEW d \in Clients, NEW n \in cid_next_outgoing_seq_num_'[d] .. responded[d]
        PROVE  \E i \in DOMAIN r : r[i].client_id_ = d /\ r[i].number = n
    <3>1. n \in cid_next_outgoing_seq_num_[d] .. responded[d] /\ (d = c => n # q[1].number)
      BY <2>a, <1>2, <1>6
    <3>2. PICK i \in DOMAIN q : q[i].client_id_ = d /\ q[i].number = n
      BY <3>1 DEF Waiting
    <3>3. i # 1
      BY <3>1, <3>2, <1>4
    <3>4. i - 1 \in DOMAIN r /\ r[i - 1] = q[i]
      BY <3>3, <1>3
    <3> QED BY <3>2, <3>4
  <2> QED BY <2>0, <2>1, <2>2, <2>3 DEF Waiting
<1>15. Ahead'
  <2>1. q[1].number \in cid_next_outgoing_seq_num_[c] .. responded[c]
    BY <1>3, <1>4 DEF Waiting
  <2>2. cid_next_outgoing_seq_num_[c] <= responded[c]
    BY <2>1, <1>2, <1>4
  <2>3. ASSUME NEW d \in Clients PROVE cid_next_outgoing_seq_num_'[d] <= responded[d] + 1
    <3>1. CASE d = c
      <4>1. cid_next_outgoing_seq_num_'[c] = cid_next_outgoing_seq_num_[c] + 1
        BY <1>0, <1>2, <1>4
      <4> QED BY <4>1, <3>1, <2>2, <1>2, <1>4
    <3>2. CASE d # c
      <4>1. cid_next_outgoing_seq_num_'[d] = cid_next_outgoing_seq_num_[d]
        BY <3>2, <1>0, <1>2, <1>4
      <4> QED BY <4>1 DEF Ahead
    <3> QED BY <3>1, <3>2
  <2> QED BY <2>3, <1>1 DEF Ahead
<1> QED BY <1>10, <1>11, <1>12, <1>13, <1>14, <1>15

(* What the engine is given in one poll: all that is pending, each once,   *)
(* and the requests of one client in their order unless there are many.    *)
LEMMA SortedIs ==
  ASSUME NEW q, IsSequence(q), NEW r \in sorted(q)
  PROVE  \E p \in [1 .. Len(q) -> 1 .. Len(q)] :
           /\ r = [i \in 1 .. Len(q) |-> q[p[i]]]
           /\ \A i, j \in 1 .. Len(q) : i # j => p[i] # p[j]
           /\ \A k \in 1 .. Len(q) : \E i \in 1 .. Len(q) : p[i] = k
           /\ \A i, j \in 1 .. Len(q) :
                i < j /\ Len(q) <= StableUpTo /\ q[p[i]].recv_time_ = q[p[j]].recv_time_ => p[i] < p[j]
<1> DEFINE n == Len(q)
<1>1. n \in Nat
  BY SequenceIs
<1> HIDE DEF n
<1>2. PICK p \in [1 .. n -> 1 .. n] :
        /\ \A i, j \in 1 .. n : i # j => p[i] # p[j]
        /\ \A i, j \in 1 .. n : i < j =>
             /\ q[p[i]].recv_time_ <= q[p[j]].recv_time_
             /\ n <= StableUpTo /\ q[p[i]].recv_time_ = q[p[j]].recv_time_ => p[i] < p[j]
        /\ r = [i \in 1 .. n |-> q[p[i]]]
  BY DEF sorted, n
<1>3. IsFiniteSet(1 .. n)
  BY <1>1, FS_Interval
<1>4. p \in Injection(1 .. n, 1 .. n)
  BY <1>2 DEF Injection, IsInjective
<1>5. p \in Surjection(1 .. n, 1 .. n)
  BY <1>3, <1>4, FS_Injection
<1>6. \A k \in 1 .. n : \E i \in 1 .. n : p[i] = k
  BY <1>5 DEF Surjection
<1> QED BY <1>2, <1>6 DEF n

(* Publishing moves what is pending behind what was published. *)
LEMMA sequenceAndPublishKeeps ==
  ASSUME IInv, sequenceAndPublish
  PROVE  IInv'
<1> USE DEF IInv
<1> DEFINE P == pending_client_requests_
           n == Len(P)
           N == Len(published)
           batch == IF n > StableUpTo THEN N + 1 ELSE 0
           added(requests) == [i \in DOMAIN requests |->
                                 [socket |-> requests[i].socket, request |-> requests[i].request,
                                  poll |-> batch]]
<1>0. /\ turn = Len(receive_sockets_) + 1
      /\ \E requests \in sorted(P) : published' = published \o added(requests)
      /\ pending_client_requests_' = << >>
      /\ turn' = turn + 1
      /\ UNCHANGED <<gateways, network, receive_sockets_, sessions, server_outbound, failed,
                     responded, outgoing_responses_>>
  BY DEF sequenceAndPublish
<1>1. UNCHANGED <<session, backlog, receive_sockets_, next_exp_seq_num_, received,
                  cid_tcp_socket_, cid_next_exp_seq_num_, cid_next_outgoing_seq_num_,
                  responded, outgoing_responses_, server_outbound, to_client, restarts,
                  rest, torn, outbound, to_server>>
  BY <1>0 DEF gateways, network, sessions
<1>2. PICK requests \in sorted(P) : published' = published \o added(requests)
  BY <1>0
<1>3. IsSequence(P) /\ n \in Nat /\ DOMAIN P = 1 .. n
  BY SequenceIs DEF Types
<1>4. PICK p \in [1 .. n -> 1 .. n] :
        /\ requests = [i \in 1 .. n |-> P[p[i]]]
        /\ \A i, j \in 1 .. n : i # j => p[i] # p[j]
        /\ \A k \in 1 .. n : \E i \in 1 .. n : p[i] = k
        /\ \A i, j \in 1 .. n :
             i < j /\ n <= StableUpTo /\ P[p[i]].recv_time_ = P[p[j]].recv_time_ => p[i] < p[j]
  BY <1>3, SortedIs, Zenon
<1> DEFINE R == [socket : Sockets, request : Message, poll : Nat]
           w == [i \in 1 .. n |-> [socket |-> P[p[i]].socket, request |-> P[p[i]].request, poll |-> batch]]
<1>5. \A i \in 1 .. n :
        /\ P[i].socket \in Sockets /\ P[i].request \in Message /\ Intact(P[i].socket, P[i].request)
        /\ cid_tcp_socket_[P[i].request.client_id_] = P[i].socket
  BY <1>3 DEF Genuine, Requests, TiedRequests, TiedIn
<1>5a. cid_next_exp_seq_num_ \in [Clients -> Nat]
  BY DEF Types
<1>7. published \in Seq(R) /\ N \in Nat /\ DOMAIN published = 1 .. N
      /\ \A i \in 1 .. N : published[i] \in R
  <2>1. published \in Seq(R)
    BY DEF Types
  <2> HIDE DEF R
  <2> QED BY <2>1, ElementOf
<1>7a. batch \in Nat /\ (n > StableUpTo => batch # 0)
  BY <1>7
<1> HIDE DEF batch
<1>8. added(requests) = w
  <2>1. DOMAIN requests = 1 .. n
    BY <1>4
  <2>2. \A i \in 1 .. n : requests[i] = P[p[i]]
    BY <1>4
  <2> HIDE DEF P, n
  <2> QED BY <2>1, <2>2
<1>9. w \in [1 .. n -> R] /\ \A i \in 1 .. n : /\ w[i].socket = P[p[i]].socket
                                              /\ w[i].request = P[p[i]].request
                                              /\ w[i].poll = batch
  <2>1. \A i \in 1 .. n : p[i] \in 1 .. n
    BY <1>4
  <2> HIDE DEF P, n
  <2> QED BY <2>1, <1>5, <1>7a
<1> HIDE DEF w, R, P, added
<1>10. w \in Seq(R) /\ Len(w) = n
  BY <1>9, <1>3
<1>11. published' \in Seq(R) /\ Len(published') = N + n /\ DOMAIN published' = 1 .. N + n
  <2>1. published' = published \o w
    BY <1>2, <1>8
  <2>2. published \o w \in Seq(R) /\ Len(published \o w) = N + n /\ DOMAIN (published \o w) = 1 .. N + n
    BY <1>7, <1>10, ConcatOf
  <2> QED BY <2>1, <2>2
<1>12. /\ \A i \in 1 .. N : published'[i] = published[i]
       /\ \A i \in 1 .. n : /\ published'[N + i].socket = P[p[i]].socket
                            /\ published'[N + i].request = P[p[i]].request
                            /\ published'[N + i].poll = batch
  <2>1. \A i \in 1 .. N : published'[i] = published[i]
    BY <1>2, <1>7, <1>8, <1>10
  <2>2. \A i \in 1 .. n : published'[N + i] = w[i]
    <3>1. published' = published \o w
      BY <1>2, <1>8
    <3>2. ASSUME NEW i \in 1 .. n PROVE (published \o w)[N + i] = w[i]
      <4>1. N + i \in 1 .. N + n /\ N + i > N /\ N + i - N = i
        BY <1>7, <1>3
      <4> QED BY <4>1, <1>7, <1>10
    <3> QED BY <3>1, <3>2
  <2> QED BY <2>1, <2>2, <1>9
<1>13. \A i \in 1 .. n : p[i] \in 1 .. n
  BY <1>4
<1> HIDE DEF n, N
<1>13a. ASSUME NEW i \in 1 .. N + n, i \notin 1 .. N PROVE i - N \in 1 .. n /\ N + (i - N) = i
  BY <1>13a, <1>3, <1>7
<1> DEFINE Q == published'
<1>13b. ASSUME NEW i \in DOMAIN Q, i \notin 1 .. N
        PROVE  \E k \in 1 .. n : /\ k = p[i - N] /\ i - N \in 1 .. n
                                 /\ Q[i].socket = P[k].socket /\ Q[i].request = P[k].request
                                 /\ Q[i].poll = batch
  <2>1. i - N \in 1 .. n /\ N + (i - N) = i
    BY <1>13b, <1>11, <1>13a
  <2> QED BY <2>1, <1>12, <1>13
<1>14. Types'
  <2>1. turn' \in 1 .. Len(receive_sockets_) + 2
    <3>1. receive_sockets_ \in Seq(Sockets)
      BY DEF Types
    <3> QED BY <3>1, <1>0
  <2>2. published' \in Seq([socket : Sockets, request : Message, poll : Nat])
    BY <1>11 DEF R
  <2>3. IsSequence(pending_client_requests_')
    BY <1>0, EmptyIsSequence
  <2> QED BY <1>0, <2>1, <2>2, <2>3 DEF Types, gateways, network, sessions
<1>15. Sessions'
  BY <1>1 DEF Sessions
<1>16. Round'
  <2>1. pending_client_requests_' = << >> /\ DOMAIN pending_client_requests_' = {}
    BY <1>0
  <2> QED BY <2>1, <1>1, Zenon DEF Round
<1>17. TiedResponses' /\ Waiting' /\ Ahead' /\ Delivered' /\ Fragments'
  BY <1>1, TiedResponsesFrame, WaitingFrame, AheadFrame, DeliveredFrame, FragmentsFrame
<1>p. DOMAIN pending_client_requests_' = {}
  BY <1>0
<1> HIDE DEF Q
<1>18. ASSUME NEW i \in DOMAIN Q
       PROVE  /\ Q[i].socket \in Sockets /\ Q[i].request \in Message /\ Intact(Q[i].socket, Q[i].request)
              /\ cid_tcp_socket_[Q[i].request.client_id_] = Q[i].socket
  <2>1. CASE i \in 1 .. N
    <3>1. Q[i] = published[i] /\ i \in DOMAIN published
      BY <2>1, <1>7, <1>12 DEF Q
    <3> QED BY <3>1 DEF Genuine, Requests, TiedRequests, TiedIn
  <2>2. CASE i \notin 1 .. N
    BY <2>2, <1>5, <1>13b
  <2> QED BY <2>1, <2>2
<1>18a. TiedRequests' /\ Genuine'
  <2>1. TiedRequests'
    BY <1>1, <1>p, <1>18 DEF TiedRequests, TiedIn, Q
  <2>2. Requests(published)' /\ Requests(pending_client_requests_)'
    BY <1>1, <1>p, <1>18 DEF Requests, Intact, Q
  <2>3. \A c \in Clients : \A i \in DOMAIN outbound'[c] : SentBy(c, outbound'[c][i])
    BY <1>1 DEF Genuine
  <2>4. \A s \in Sockets : \A i \in DOMAIN to_server'[s] :
          to_server'[s][i].request \in Message /\ Intact(s, to_server[s][i].request)'
    BY <1>1 DEF Genuine, Intact
  <2> QED BY <2>1, <2>2, <2>3, <2>4 DEF Genuine
<1>a. AcceptedIn(cid_next_exp_seq_num_, P)
  BY DEF Accepted, P
<1> DEFINE e == cid_next_exp_seq_num_
<1>b. \A i \in 1 .. N : Q[i] = published[i] /\ i \in DOMAIN published
  BY <1>7, <1>12 DEF Q
<1>c. DOMAIN Q = 1 .. N + n
  BY <1>11 DEF Q
<1>d. /\ \A i \in DOMAIN published : published[i].request.seq_num_ \in 1 .. e[published[i].request.client_id_] - 1
      /\ \A i \in 1 .. n : P[i].request.seq_num_ \in 1 .. e[P[i].request.client_id_] - 1
      /\ \A i \in DOMAIN published, j \in 1 .. n :
           published[i].request.client_id_ = P[j].request.client_id_
             => published[i].request.seq_num_ < P[j].request.seq_num_
      /\ \A i, j \in 1 .. n :
           i < j /\ P[i].request.client_id_ = P[j].request.client_id_
             => P[i].request.seq_num_ < P[j].request.seq_num_
      /\ \A c \in Clients : e[c] >= 1
  BY <1>3, <1>a DEF AcceptedIn, n
<1>e. \A i \in DOMAIN Q : Q[i].request.client_id_ \in Clients /\ Q[i].request.seq_num_ \in Nat
  BY <1>18 DEF Message
<1>f. \A i \in 1 .. n : P[i].request.client_id_ \in Clients /\ P[i].request.seq_num_ \in Nat
  BY <1>5 DEF Message
<1>19. Accepted'
  <2>1. ASSUME NEW i \in DOMAIN Q PROVE Q[i].request.seq_num_ \in 1 .. e[Q[i].request.client_id_] - 1
    <3>1. CASE i \in 1 .. N
      BY <3>1, <1>b, <1>d
    <3>2. CASE i \notin 1 .. N
      BY <3>2, <1>13b, <1>d
    <3> QED BY <3>1, <3>2
  <2>2. ASSUME NEW c \in Clients, NEW m \in 1 .. e[c] - 1
        PROVE  \E i \in DOMAIN Q : Q[i].request.client_id_ = c /\ Q[i].request.seq_num_ = m
    <3>0. \/ \E i \in DOMAIN published :
               published[i].request.client_id_ = c /\ published[i].request.seq_num_ = m
          \/ \E i \in DOMAIN P : P[i].request.client_id_ = c /\ P[i].request.seq_num_ = m
      BY <1>a DEF AcceptedIn
    <3>1. CASE \E i \in DOMAIN published :
                 published[i].request.client_id_ = c /\ published[i].request.seq_num_ = m
      <4>1. PICK i \in 1 .. N : published[i].request.client_id_ = c /\ published[i].request.seq_num_ = m
        BY <3>1, <1>7
      <4>2. i \in DOMAIN Q
        BY <1>c, <1>3, <1>7 DEF n
      <4> QED BY <4>1, <4>2, <1>b
    <3>2. CASE \E i \in DOMAIN P : P[i].request.client_id_ = c /\ P[i].request.seq_num_ = m
      <4>1. PICK k \in 1 .. n : P[k].request.client_id_ = c /\ P[k].request.seq_num_ = m
        BY <3>2, <1>3
      <4>2. PICK i \in 1 .. n : p[i] = k
        BY <1>4 DEF n
      <4>3. N + i \in DOMAIN Q
        BY <1>c, <1>3, <1>7 DEF n
      <4>4. Q[N + i].request = P[k].request
        BY <4>2, <1>12 DEF Q
      <4> QED BY <4>1, <4>3, <4>4
    <3> QED BY <3>0, <3>1, <3>2
  <2>3. UNCHANGED cid_next_exp_seq_num_
    BY <1>1
  <2>4. \A c \in Clients : e[c] >= 1
    BY <1>d
  <2> HIDE DEF e
  <2>5. cid_next_exp_seq_num_' = e /\ published' = Q
    BY <2>3 DEF e, Q
  <2> QED BY <1>p, <2>1, <2>2, <2>4, <2>5 DEF Accepted, AcceptedIn
<1>20. ASSUME NEW i \in 1 .. N, NEW j \in DOMAIN Q, j \notin 1 .. N,
              Q[i].request.client_id_ = Q[j].request.client_id_
       PROVE  Q[i].request.seq_num_ < Q[j].request.seq_num_
  <2>1. PICK k \in 1 .. n : Q[j].request = P[k].request
    BY <1>13b, <1>20
  <2>2. published[i].request.client_id_ = P[k].request.client_id_ /\ i \in DOMAIN published
    BY <2>1, <1>20, <1>b
  <2>3. published[i].request.seq_num_ < P[k].request.seq_num_
    BY <2>2, <1>d
  <2> QED BY <2>1, <2>3, <1>b
<1>21. ASSUME NEW i \in DOMAIN Q, NEW j \in DOMAIN Q, i # j,
              Q[i].request.client_id_ = Q[j].request.client_id_
       PROVE  Q[i].request.seq_num_ # Q[j].request.seq_num_
  <2>1. CASE i \in 1 .. N /\ j \in 1 .. N
    <3>1. Q[i] = published[i] /\ Q[j] = published[j] /\ i \in DOMAIN published /\ j \in DOMAIN published
      BY <2>1, <1>b
    <3> QED BY <3>1, <1>21 DEF Ordered
  <2>2. CASE i \in 1 .. N /\ j \notin 1 .. N
    BY <2>2, <1>20, <1>21, <1>e
  <2>3. CASE j \in 1 .. N /\ i \notin 1 .. N
    BY <2>3, <1>20, <1>21, <1>e
  <2>4. CASE i \notin 1 .. N /\ j \notin 1 .. N
    <3>1. PICK k \in 1 .. n : k = p[i - N] /\ i - N \in 1 .. n /\ Q[i].request = P[k].request
      BY <2>4, <1>13b
    <3>2. PICK l \in 1 .. n : l = p[j - N] /\ j - N \in 1 .. n /\ Q[j].request = P[l].request
      BY <2>4, <1>13b
    <3>3. i - N # j - N
      BY <1>21, <1>c, <1>3, <1>7 DEF n
    <3>4. k # l
      BY <3>1, <3>2, <3>3, <1>4 DEF n
    <3>5. P[k].request.seq_num_ < P[l].request.seq_num_ \/ P[l].request.seq_num_ < P[k].request.seq_num_
      <4>1. CASE k < l
        BY <4>1, <3>1, <3>2, <1>21, <1>d
      <4>2. CASE l < k
        BY <4>2, <3>1, <3>2, <1>21, <1>d
      <4> QED BY <4>1, <4>2, <3>4, <1>3 DEF n
    <3> QED BY <3>1, <3>2, <3>5, <1>f
  <2> QED BY <2>1, <2>2, <2>3, <2>4
<1>22. ASSUME NEW i \in DOMAIN Q, NEW j \in DOMAIN Q, i < j,
              Q[i].request.client_id_ = Q[j].request.client_id_
       PROVE  \/ Q[i].request.seq_num_ < Q[j].request.seq_num_
              \/ Q[i].poll = Q[j].poll /\ Q[i].poll # 0
  <2>1. CASE i \in 1 .. N /\ j \in 1 .. N
    <3>1. Q[i] = published[i] /\ Q[j] = published[j] /\ i \in DOMAIN published /\ j \in DOMAIN published
      BY <2>1, <1>b
    <3> QED BY <3>1, <1>22 DEF Ordered
  <2>2. CASE i \in 1 .. N /\ j \notin 1 .. N
    BY <2>2, <1>20, <1>22
  <2>3. CASE i \notin 1 .. N
    <3>0. j \notin 1 .. N
      BY <2>3, <1>22, <1>c, <1>3, <1>7 DEF n
    <3>1. PICK k \in 1 .. n : k = p[i - N] /\ i - N \in 1 .. n /\ Q[i].request = P[k].request /\ Q[i].poll = batch
      BY <2>3, <1>13b
    <3>2. PICK l \in 1 .. n : l = p[j - N] /\ j - N \in 1 .. n /\ Q[j].request = P[l].request /\ Q[j].poll = batch
      BY <3>0, <1>13b
    <3>3. CASE n > StableUpTo
      BY <3>1, <3>2, <3>3, <1>7a DEF n
    <3>4. CASE ~(n > StableUpTo)
      <4>1. i - N < j - N
        BY <1>22, <1>c, <1>3, <1>7 DEF n
      <4>2. P[k].request.client_id_ = P[l].request.client_id_
        BY <3>1, <3>2, <1>22
      <4>3. P[k].socket = P[l].socket
        BY <4>2, <1>5
      <4>4. P[k].recv_time_ = P[l].recv_time_
        BY <4>3, <1>3 DEF Round, P, n
      <4>5. n <= StableUpTo
        BY <3>4, <1>3, BoundsAssumption DEF n
      <4>6. k < l
        BY <3>1, <3>2, <4>1, <4>4, <4>5, <1>4 DEF n
      <4>7. P[k].request.seq_num_ < P[l].request.seq_num_
        BY <4>2, <4>6, <1>d
      <4> QED BY <3>1, <3>2, <4>7
    <3> QED BY <3>3, <3>4
  <2> QED BY <2>1, <2>2, <2>3
<1>23. Ordered'
  BY <1>21, <1>22 DEF Ordered, Q
<1> QED BY <1>14, <1>15, <1>16, <1>17, <1>18a, <1>19, <1>23

(* One socket is served.  All that it may add to the pending requests      *)
(* comes from this one read.                                               *)
LEMMA ServeSocketKeeps ==
  ASSUME IInv, ServeSocket
  PROVE  IInv'
<1> USE DEF IInv
<1> DEFINE s == receive_sockets_[turn]
           c == s[1]
           P == pending_client_requests_
           t == Last(to_server[s]).arrival
           state == [socket |-> cid_tcp_socket_, next |-> cid_next_exp_seq_num_, pending |-> P]
           after == recvRequests(state, s, to_server[s])
<1>0. /\ turn \in DOMAIN receive_sockets_
      /\ to_server' = [to_server EXCEPT ![s] = << >>]
      /\ cid_tcp_socket_' = after.socket
      /\ cid_next_exp_seq_num_' = after.next
      /\ pending_client_requests_' = after.pending
      /\ server_outbound' = [server_outbound EXCEPT ![s] = << >>]
      /\ \E sent \in Sends("responses", s, server_outbound[s]) :
           /\ Transmitted("responses", s, sent)
           /\ to_client' = IF s = socketOf(c)
                           THEN [to_client EXCEPT ![s] = to_client[s] \o sent.arrived] ELSE to_client
      /\ turn' = turn + 1
      /\ UNCHANGED <<gateways, backlog, restarts, sent_requests, receive_sockets_,
                     cid_next_outgoing_seq_num_, engine>>
  BY Zenon DEF ServeSocket
<1>1. UNCHANGED <<session, backlog, receive_sockets_, next_exp_seq_num_, received, outbound,
                  cid_next_outgoing_seq_num_, published, responded, outgoing_responses_, restarts>>
  BY <1>0 DEF gateways, engine
<1>2. /\ receive_sockets_ \in Seq(Sockets) /\ cid_tcp_socket_ \in [Clients -> Sockets \cup {nullptr}]
      /\ cid_next_exp_seq_num_ \in [Clients -> Nat] /\ server_outbound \in [Sockets -> Seq(Message)]
      /\ to_client \in [Sockets -> Seq(Message)] /\ IsSequence(P)
  BY DEF Types
<1>3. s \in Sockets /\ turn \in 1 .. Len(receive_sockets_) /\ Len(receive_sockets_) \in Nat
  BY <1>0, <1>2, ElementOf
<1>4. ReadState(state, s, t)
  <2>1. /\ state = [socket |-> state.socket, next |-> state.next, pending |-> state.pending]
        /\ state.socket = cid_tcp_socket_ /\ state.next = cid_next_exp_seq_num_ /\ state.pending = P
    OBVIOUS
  <2>2. Len(P) \in Nat
    BY <1>2, SequenceIs
  <2>3. Requests(P) /\ TiedIn(cid_tcp_socket_, P) /\ AcceptedIn(cid_next_exp_seq_num_, P)
    BY DEF Genuine, TiedRequests, Accepted
  <2>4. \A i \in Len(P) + 1 .. Len(P) : FALSE
    BY <2>2
  <2> HIDE DEF state, s, t
  <2> QED BY <1>2, <2>1, <2>2, <2>3, <2>4 DEF ReadState
<1>5. ReadState(after, s, t)
  <2> HIDE DEF s
  <2> QED BY <1>3, <1>4, ReadAll
<1> HIDE DEF after, state, s, c, t, P
<1>6. PICK socket, next, pending :
        cid_tcp_socket_' = socket /\ cid_next_exp_seq_num_' = next /\ pending_client_requests_' = pending
  OBVIOUS
<1>7. /\ socket = after.socket /\ next = after.next /\ pending = after.pending
  BY <1>0, <1>6
<1>8. /\ socket \in [Clients -> Sockets \cup {nullptr}] /\ next \in [Clients -> Nat]
      /\ \A d \in Clients : cid_tcp_socket_[d] # nullptr => socket[d] = cid_tcp_socket_[d]
      /\ IsSequence(pending) /\ Requests(pending) /\ TiedIn(socket, pending) /\ AcceptedIn(next, pending)
      /\ Len(P) <= Len(pending) /\ \A i \in 1 .. Len(P) : pending[i] = P[i]
      /\ \A i \in Len(P) + 1 .. Len(pending) : pending[i].socket = s /\ pending[i].recv_time_ = t
  BY <1>5, <1>7 DEF ReadState, P
<1>9. \A d \in Clients : cid_tcp_socket_[d] # nullptr => cid_tcp_socket_'[d] = cid_tcp_socket_[d]
  BY <1>6, <1>8
<1>10. PICK sent \in Sends("responses", s, server_outbound[s]) :
         /\ Transmitted("responses", s, sent)
         /\ to_client' = IF s = socketOf(c)
                         THEN [to_client EXCEPT ![s] = to_client[s] \o sent.arrived] ELSE to_client
  BY <1>0
<1>11. "responses" \in Directions /\ "requests" \in Directions /\ "requests" # "responses"
  BY DEF Directions
<1>12. server_outbound[s] \in Seq(Message)
  BY <1>2, <1>3
<1>13. /\ shorts' \in Nat
       /\ rest' \in [Directions -> [Sockets -> Seq(Message)]]
       /\ torn' \in [Directions -> SUBSET Sockets]
       /\ \A x \in Directions : torn[x] \subseteq torn'[x] /\ (x # "responses" => torn'[x] = torn[x])
       /\ Fragments'
  BY <1>3, <1>10, <1>11, <1>12, TransmittedKeeps
<1>14. torn'["requests"] = torn["requests"] /\ torn["responses"] \subseteq torn'["responses"]
  BY <1>11, <1>13
<1>15. /\ sent.arrived \in Seq(Message)
       /\ \A i \in DOMAIN sent.arrived : Arrived(s, sent.arrived[i])
  <2>1. Piece(rest["responses"][s], server_outbound[s], <<sent.arrived, sent.rest>>)
    BY <1>3, <1>10, <1>11, <1>12, SendsAre
  <2>2. ASSUME NEW i \in DOMAIN sent.arrived PROVE Arrived(s, sent.arrived[i])
    <3>1. \/ \E j \in DOMAIN server_outbound[s] : sent.arrived[i] = server_outbound[s][j]
          \/ sent.arrived[i].number = 0 /\ rest["responses"][s] # << >>
      BY <2>1 DEF Piece
    <3>2. rest["responses"][s] # << >> => s \in torn["responses"]
      BY <1>3, <1>11 DEF Fragments
    <3>3. \A j \in DOMAIN server_outbound[s] : Answer(s, server_outbound[s][j])
      BY <1>3 DEF TiedResponses
    <3> QED BY <3>1, <3>2, <3>3 DEF Arrived
  <2> QED BY <2>1, <2>2 DEF Piece
<1>16. ASSUME NEW x \in Sockets, NEW i \in DOMAIN to_client'[x]
       PROVE  to_client'[x][i] \in Message /\ Arrived(x, to_client[x][i])'
  <2>0. to_client[x] \in Seq(Message) /\ \A j \in DOMAIN to_client[x] : Arrived(x, to_client[x][j])
    BY <1>2 DEF TiedResponses
  <2>1. PICK m : m = to_client'[x][i]
    OBVIOUS
  <2>2. m \in Message /\ Arrived(x, m)
    <3>1. CASE to_client'[x] = to_client[x]
      BY <1>16, <2>0, <2>1, <3>1
    <3>2. CASE to_client'[x] # to_client[x]
      <4>1. x = s /\ to_client'[x] = to_client[x] \o sent.arrived
        BY <3>2, <1>2, <1>3, <1>10
      <4>2. PICK q, r : q = to_client[x] /\ r = sent.arrived
        OBVIOUS
      <4>3. /\ q \in Seq(Message) /\ r \in Seq(Message)
            /\ \A j \in DOMAIN q : Arrived(x, q[j])
            /\ \A j \in DOMAIN r : Arrived(x, r[j])
        BY <1>15, <2>0, <4>1, <4>2
      <4>4. i \in DOMAIN (q \o r) /\ m = (q \o r)[i]
        BY <1>16, <2>1, <4>1, <4>2
      <4>5. \/ i \in DOMAIN q /\ m = q[i]
            \/ i - Len(q) \in DOMAIN r /\ m = r[i - Len(q)]
        BY <4>3, <4>4
      <4> QED BY <4>3, <4>5
    <3> QED BY <3>1, <3>2
  <2>3. Answer(x, m) => m.client_id_ \in Clients /\ cid_tcp_socket_[m.client_id_] # nullptr
    BY <2>2, SocketNotNull DEF Answer, Message
  <2> QED BY <2>1, <2>2, <2>3, <1>9, <1>14 DEF Arrived, Answer
<1>17. /\ server_outbound' \in [Sockets -> Seq(Message)] /\ server_outbound'[s] = << >>
       /\ \A x \in Sockets : x # s => server_outbound'[x] = server_outbound[x]
  BY <1>0, <1>2, <1>3
<1>18. Types'
  <2>1. /\ DOMAIN to_server' = Sockets /\ to_server' = [x \in Sockets |-> to_server'[x]]
        /\ \A x \in Sockets : IsSequence(to_server'[x])
    BY <1>0, <1>3, EmptyIsSequence DEF Types
  <2>2. turn' \in 1 .. Len(receive_sockets_) + 2
    BY <1>0, <1>3
  <2>3. to_client' \in [Sockets -> Seq(Message)]
    BY <1>2, <1>3, <1>10, <1>15
  <2>4. UNCHANGED next_outgoing_seq_num_
    BY <1>0 DEF gateways
  <2>5. /\ cid_tcp_socket_' \in [Clients -> Sockets \cup {nullptr}] /\ cid_next_exp_seq_num_' \in [Clients -> Nat]
        /\ IsSequence(pending_client_requests_')
    BY <1>6, <1>8
  <2>6. turn' \in 1 .. Len(receive_sockets_') + 2
    BY <2>2, <1>1
  <2> QED BY <1>1, <1>13, <1>17, <2>1, <2>3, <2>4, <2>5, <2>6 DEF Types
<1>19. Sessions'
  BY <1>1 DEF Sessions
<1> DEFINE n == Len(P)
           N == Len(pending)
<1>20. /\ n \in Nat /\ N \in Nat /\ DOMAIN P = 1 .. n /\ DOMAIN pending = 1 .. N
       /\ n <= N /\ \A i \in 1 .. n : pending[i] = P[i]
       /\ \A i \in n + 1 .. N : pending[i].socket = s /\ pending[i].recv_time_ = t
  BY <1>2, <1>8, SequenceIs
<1> HIDE DEF n, N
<1>21. Round'
  <2>1. \A i \in 1 .. n : P[i].socket # s
    <3>1. SUFFICES ASSUME NEW i \in 1 .. n, P[i].socket = s PROVE FALSE
      OBVIOUS
    <3>2. PICK j \in DOMAIN receive_sockets_ : j < turn /\ P[i].socket = receive_sockets_[j]
      BY <1>20 DEF Round, P
    <3>3. j = turn
      BY <3>1, <3>2, <1>0 DEF Round, s
    <3> QED BY <3>2, <3>3, <1>3
  <2>2. ASSUME NEW i \in 1 .. N
        PROVE  \E j \in DOMAIN receive_sockets_ : j < turn' /\ pending[i].socket = receive_sockets_[j]
    <3>1. CASE i \in 1 .. n
      <4>1. PICK j \in DOMAIN receive_sockets_ : j < turn /\ P[i].socket = receive_sockets_[j]
        BY <3>1, <1>20 DEF Round, P
      <4>2. j < turn'
        BY <4>1, <1>0, <1>2, <1>3
      <4> QED BY <4>1, <4>2, <3>1, <1>20
    <3>2. CASE i \in n + 1 .. N
      <4>1. pending[i].socket = s /\ turn < turn'
        BY <3>2, <1>20, <1>0, <1>3
      <4> QED BY <4>1, <1>0 DEF s
    <3> QED BY <3>1, <3>2, <1>20
  <2>3. ASSUME NEW i \in 1 .. N, NEW j \in 1 .. N, pending[i].socket = pending[j].socket
        PROVE  pending[i].recv_time_ = pending[j].recv_time_
    <3>1. CASE i \in 1 .. n /\ j \in 1 .. n
      <4>1. P[i].socket = P[j].socket /\ pending[i] = P[i] /\ pending[j] = P[j]
        BY <3>1, <2>3, <1>20
      <4>2. P[i].recv_time_ = P[j].recv_time_
        BY <4>1, <3>1, <1>20 DEF Round, P
      <4> QED BY <4>1, <4>2
    <3>2. CASE i \in n + 1 .. N /\ j \in n + 1 .. N
      BY <3>2, <1>20
    <3>3. CASE i \in 1 .. n /\ j \in n + 1 .. N
      BY <3>3, <1>20, <2>1, <2>3
    <3>4. CASE j \in 1 .. n /\ i \in n + 1 .. N
      BY <3>4, <1>20, <2>1, <2>3
    <3> QED BY <3>1, <3>2, <3>3, <3>4, <1>20
  <2>4. turn' # Len(receive_sockets_) + 2
    BY <1>0, <1>3
  <2> QED BY <1>1, <1>6, <1>20, <2>2, <2>3, <2>4 DEF Round
<1>22. Waiting' /\ Ahead' /\ Ordered' /\ Delivered'
  BY <1>1, <1>9, <1>14, WaitingFrame, AheadFrame, OrderedFrame, DeliveredFrame
<1>23. TiedRequests'
  <2>1. ASSUME NEW i \in DOMAIN published
        PROVE  cid_tcp_socket_'[published[i].request.client_id_] = published[i].socket
    <3>1. published[i].socket # nullptr /\ published[i].request.client_id_ \in Clients
      BY SocketNotNull DEF Genuine, Requests, Message
    <3>2. cid_tcp_socket_[published[i].request.client_id_] = published[i].socket
      BY DEF TiedRequests, TiedIn
    <3> QED BY <3>1, <3>2, <1>9
  <2>2. TiedIn(cid_tcp_socket_, published)'
    BY <2>1, <1>1 DEF TiedIn
  <2>3. TiedIn(cid_tcp_socket_, pending_client_requests_)'
    BY <1>6, <1>8 DEF TiedIn
  <2> QED BY <2>2, <2>3 DEF TiedRequests
<1>24. TiedResponses'
  <2>1. ASSUME NEW x \in Sockets, NEW i \in DOMAIN server_outbound'[x]
        PROVE  Answer(x, server_outbound[x][i])'
    <3>1. server_outbound'[x] = server_outbound[x] /\ i \in DOMAIN server_outbound[x]
      BY <1>17, <2>1
    <3>2. server_outbound[x][i] \in Message /\ Answer(x, server_outbound[x][i])
      BY <1>2, <3>1 DEF TiedResponses
    <3>3. /\ server_outbound[x][i].client_id_ \in Clients
          /\ cid_tcp_socket_[server_outbound[x][i].client_id_] = x /\ x # nullptr
      BY <3>2, SocketNotNull DEF Answer, Message
    <3> QED BY <3>1, <3>2, <3>3, <1>9 DEF Answer
  <2>2. ASSUME NEW i \in DOMAIN outgoing_responses_
        PROVE  cid_tcp_socket_'[outgoing_responses_[i].client_id_] # nullptr
    <3>1. outgoing_responses_ \in Seq([client_id_ : Clients, number : Nat])
      BY DEF Types
    <3>2. outgoing_responses_[i] \in [client_id_ : Clients, number : Nat]
      BY <3>1, ElementOf, Zenon
    <3>3. outgoing_responses_[i].client_id_ \in Clients /\ cid_tcp_socket_[outgoing_responses_[i].client_id_] # nullptr
      BY <3>2 DEF TiedResponses
    <3> QED BY <3>3, <1>9
  <2> QED BY <1>1, <1>16, <2>1, <2>2 DEF TiedResponses
<1>25. Accepted'
  BY <1>1, <1>6, <1>8 DEF Accepted, AcceptedIn
<1>26. Genuine'
  <2>1. \A d \in Clients : \A i \in DOMAIN outbound'[d] : SentBy(d, outbound'[d][i])
    BY <1>1 DEF Genuine
  <2>2. ASSUME NEW x \in Sockets, NEW i \in DOMAIN to_server'[x]
        PROVE  to_server'[x][i].request \in Message /\ Intact(x, to_server[x][i].request)'
    <3>1. to_server'[x] = to_server[x]
      BY <1>0, <1>3, <2>2 DEF Types
    <3>2. to_server[x][i].request \in Message /\ Intact(x, to_server[x][i].request)
      BY <2>2, <3>1 DEF Genuine
    <3> QED BY <3>1, <3>2, <1>14 DEF Intact
  <2>3. Requests(pending_client_requests_)'
    BY <1>6, <1>8, <1>14 DEF Requests, Intact
  <2>4. Requests(published)'
    BY <1>1, <1>14 DEF Genuine, Requests, Intact
  <2> QED BY <2>1, <2>2, <2>3, <2>4 DEF Genuine
<1> QED BY <1>13, <1>18, <1>19, <1>21, <1>22, <1>23, <1>24, <1>25, <1>26

-----------------------------------------------------------------------------
(* The theorems *)

(* Every step of the gateways, the network, the server and the engine      *)
(* keeps the invariant.                                                    *)
LEMMA NextKeeps == IInv /\ [Next]_vars => IInv'
<1> SUFFICES ASSUME IInv, [Next]_vars PROVE IInv'
  OBVIOUS
<1>1. CASE UNCHANGED vars
  <2>1. UNCHANGED <<gateways, network, server, engine>>
    BY <1>1 DEF vars
  <2>2. UNCHANGED <<session, next_outgoing_seq_num_, next_exp_seq_num_, outbound, received, backlog, to_server,
                    to_client, rest, torn, shorts, restarts, receive_sockets_, turn, cid_tcp_socket_,
                    cid_next_exp_seq_num_, cid_next_outgoing_seq_num_, server_outbound,
                    pending_client_requests_, published, responded, outgoing_responses_>>
    BY <2>1 DEF gateways, network, server, engine, sessions
  <2>3. Types'
    BY <2>2 DEF IInv, Types
  <2>4. Sessions'
    BY <2>2 DEF IInv, Sessions
  <2>5. Delivered'
    BY <2>2, DeliveredFrame DEF IInv
  <2> QED BY <2>2, <2>3, <2>4, <2>5, RoundFrame, TiedRequestsFrame, TiedResponsesFrame, AcceptedFrame,
             OrderedFrame, WaitingFrame, AheadFrame, FragmentsFrame, GenuineFrame DEF IInv
<1>2. CASE Next
  BY <1>2, StartKeeps, SendRequestKeeps, GatewaySocketKeeps, sendClientResponseKeeps, PollKeeps,
     ServeSocketKeeps, sequenceAndPublishKeeps, SendResponseKeeps DEF Next, OrderServer
<1> QED BY <1>1, <1>2

(* The invariant holds throughout. *)
LEMMA Invariant == Spec => []IInv
BY InitIInv, NextKeeps, PTL DEF Spec

(* Whoever is answered has a socket: the ASSERT of OrderServer::run holds, *)
(* for any number of clients, restarts and sends cut short.                *)
THEOREM AssertHolds == Spec => []NoSocketAssert
<1>1. IInv => NoSocketAssert
  BY DEF IInv, TiedResponses, NoSocketAssert
<1> QED BY <1>1, Invariant, PTL

(* A client's trade engine reads the first responses to it in order, none  *)
(* that was meant for an earlier session, and nothing that nobody sent     *)
(* unless a send to it was cut inside a message.                           *)
THEOREM ResponsesStayInOrder == Spec => []ResponsesInOrder
<1>1. IInv => ResponsesInOrder
  BY DEF IInv, Delivered, PassedOn, InPlace, ResponsesInOrder
<1> QED BY <1>1, Invariant, PTL

(* The matching engine is given the first numbers of each client, each     *)
(* once, all from one connection, in order but for the poll whose sort is  *)
(* not stable, and what the client sent unless a send on that connection   *)
(* was cut inside a message.                                               *)
THEOREM RequestsStayOnceInOrder == Spec => []RequestsOnceInOrder
<1>1. IInv => RequestsOnceInOrder
  <2> DEFINE num(i) == published[i].request.seq_num_
  <2> SUFFICES ASSUME IInv, NEW c \in Clients, NEW i \in requestsOf(c), NEW j \in requestsOf(c)
               PROVE  /\ published[i].socket = published[j].socket
                      /\ i # j => num(i) # num(j)
                      /\ num(i) >= 1
                      /\ \A n \in 1 .. num(i) : \E k \in requestsOf(c) : num(k) = n
                      /\ i < j => num(i) < num(j) \/ (published[i].poll = published[j].poll /\ published[i].poll # 0)
                      /\ published[i].socket \notin torn["requests"] =>
                           published[i].socket[1] = c /\ published[i].request.number = num(i)
    BY DEF RequestsOnceInOrder
  <2> USE DEF IInv
  <2>1. /\ i \in DOMAIN published /\ j \in DOMAIN published
        /\ published[i].request.client_id_ = c /\ published[j].request.client_id_ = c
    BY DEF requestsOf
  <2>2. published[i].socket = published[j].socket
    BY <2>1 DEF TiedRequests, TiedIn
  <2>3. num(i) \in 1 .. cid_next_exp_seq_num_[c] - 1 /\ cid_next_exp_seq_num_[c] \in Nat
    BY <2>1 DEF Accepted, AcceptedIn, Types
  <2>4. ASSUME NEW n \in 1 .. num(i) PROVE \E k \in requestsOf(c) : num(k) = n
    <3>1. n \in 1 .. cid_next_exp_seq_num_[c] - 1
      BY <2>3
    <3>2. ASSUME NEW k \in DOMAIN pending_client_requests_, pending_client_requests_[k].request.client_id_ = c,
                 pending_client_requests_[k].request.seq_num_ = n
          PROVE  FALSE
      <4>1. num(i) < n
        BY <3>2, <2>1 DEF Accepted, AcceptedIn
      <4> QED BY <4>1, <2>3
    <3>3. PICK k \in DOMAIN published : published[k].request.client_id_ = c /\ published[k].request.seq_num_ = n
      BY <3>1, <3>2 DEF Accepted, AcceptedIn
    <3> QED BY <3>3 DEF requestsOf
  <2>5. i # j => num(i) # num(j)
    BY <2>1 DEF Ordered
  <2>6. i < j => num(i) < num(j) \/ (published[i].poll = published[j].poll /\ published[i].poll # 0)
    BY <2>1 DEF Ordered
  <2>7. published[i].socket \notin torn["requests"] =>
          published[i].socket[1] = c /\ published[i].request.number = num(i)
    <3>1. Intact(published[i].socket, published[i].request)
      BY <2>1 DEF Genuine, Requests
    <3> QED BY <3>1, <2>1 DEF Intact, SentBy
  <2> QED BY <2>2, <2>3, <2>4, <2>5, <2>6, <2>7
<1> QED BY <1>1, Invariant, PTL
=============================================================================
