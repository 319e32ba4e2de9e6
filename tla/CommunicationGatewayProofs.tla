--------------------- MODULE CommunicationGatewayProofs ---------------------
(***************************************************************************)
(* Proofs about CommunicationGateway, for any number of clients,           *)
(* descriptors and requests: where answers go, that what is replayed comes *)
(* first, and which clients can end the service.                           *)
(***************************************************************************)
EXTENDS CommunicationGateway, TLAPS

\* The one descriptor that is open is that of the current client; who is accepted,
\* or waits for it, has connected.
ServerInv ==
  /\ \A d \in Descriptors : peer[d] # NoClient => d = m_clientSocketDscr /\ client[peer[d]] # "away"
  /\ service # "down" /\ m_clientSocketDscr # 0 => peer[m_clientSocketDscr] \in Clients
  /\ poller \in {"recv", "callback", "close"} => m_clientSocketDscr # 0
  /\ poller = "close" => client[peer[m_clientSocketDscr]] = "left"
  /\ service = "down" => poller = "stopped"
  /\ \A i \in 1 .. Len(backlog) : client[backlog[i]] # "away"
  /\ IF poller = "callback" THEN Len(request) = 1 /\ request[1].asker \in Clients
                             ELSE request = <<>>

\* A request that is held came by the descriptor of its client, if it has not left.
Traceable(r) ==
  IF r.asker \in Clients
    THEN /\ r.dscr \in Descriptors
         /\ client[r.asker] = "left" \/ peer[r.dscr] = r.asker
    ELSE r.dscr = 0

RequestsInv ==
  /\ \A i \in 1 .. Len(request) : Traceable(request[i])
  /\ \A i \in 1 .. Len(m_arrivedCommands) : Traceable(m_arrivedCommands[i])

\* The queue begins with what is replayed.
OrderInv ==
  /\ \A i, j \in 1 .. Len(m_arrivedCommands) :
       i < j /\ m_arrivedCommands[j].asker \notin Clients =>
          m_arrivedCommands[i].asker \notin Clients
  /\ ReplayedComeFirst
  /\ service = "new" => answers = {}

AnswersInv == AnswersReachTheAsker

\* Nothing of client c is under way.
Nowhere(c) ==
  /\ ~ outbox[c] /\ inbox[c] = <<>>
  /\ \A i \in 1 .. Len(request) : request[i].asker # c
  /\ \A i \in 1 .. Len(m_arrivedCommands) : m_arrivedCommands[i].asker # c

\* What is under way of client c is one request or one answer.
OnlyOnce(c) ==
  /\ outbox[c] => /\ inbox[c] = <<>>
                  /\ \A i \in 1 .. Len(request) : request[i].asker # c
                  /\ \A i \in 1 .. Len(m_arrivedCommands) : m_arrivedCommands[i].asker # c
  /\ inbox[c] # <<>> => /\ Len(inbox[c]) = 1
                        /\ \A i \in 1 .. Len(request) : request[i].asker # c
                        /\ \A i \in 1 .. Len(m_arrivedCommands) : m_arrivedCommands[i].asker # c
  /\ \A i \in 1 .. Len(request), j \in 1 .. Len(m_arrivedCommands) :
       request[i].asker = c => m_arrivedCommands[j].asker # c
  /\ \A i, j \in 1 .. Len(m_arrivedCommands) :
       m_arrivedCommands[i].asker = c /\ m_arrivedCommands[j].asker = c => i = j

\* As long as every client waits for its answer, it has one thing under way while
\* it waits, and nothing otherwise.
PatienceInv ==
  impatient = {} /\ service # "down" =>
    /\ service # "killed"
    /\ \A c \in Clients : IF client[c] = "waiting" THEN OnlyOnce(c) ELSE Nowhere(c)

IInv == TypeOK /\ ServerInv /\ RequestsInv /\ OrderInv /\ AnswersInv /\ PatienceInv

\* Append leaves what there is and adds one at the end.
LEMMA AppendFacts ==
  ASSUME NEW S, NEW q \in Seq(S), NEW x \in S
  PROVE  /\ Append(q, x) \in Seq(S) /\ Len(Append(q, x)) = Len(q) + 1
         /\ \A i \in 1 .. Len(q) : Append(q, x)[i] = q[i]
         /\ Append(q, x)[Len(q) + 1] = x
  OBVIOUS

\* The tail of a queue is the queue, moved by one.
LEMMA TailFacts ==
  ASSUME NEW S, NEW q \in Seq(S), q # <<>>
  PROVE  /\ Len(q) \in Nat /\ Len(q) > 0 /\ Head(q) = q[1] /\ Head(q) \in S
         /\ Tail(q) \in Seq(S) /\ Len(Tail(q)) = Len(q) - 1
         /\ \A i \in 1 .. Len(q) - 1 : Tail(q)[i] = q[i + 1]
         /\ Len(q) = 1 => Tail(q) = <<>>
  OBVIOUS

\* At the start there is nobody.
LEMMA InitInv == Init => IInv
<1> SUFFICES ASSUME Init PROVE IInv
  OBVIOUS
<1> USE GatewayAssumption DEF Init, TypeOK, ServerInv, RequestsInv, Traceable, OrderInv,
                              ReplayedComeFirst,
        AnswersInv, AnswersReachTheAsker, PatienceInv, Nowhere, OnlyOnce, Request, Alive
<1>1. TypeOK
  OBVIOUS
<1>2. ServerInv
  OBVIOUS
<1>3. RequestsInv
  OBVIOUS
<1>4. OrderInv
  OBVIOUS
<1>5. AnswersInv
  OBVIOUS
<1>6. PatienceInv
  OBVIOUS
<1> QED
  BY <1>1, <1>2, <1>3, <1>4, <1>5, <1>6 DEF IInv

\* A client connects, asks, reads or leaves.
LEMMA ClientInv ==
  ASSUME IInv, NEW c \in Clients, Connect(c) \/ Ask(c) \/ Receive(c) \/ Leave(c)
  PROVE  IInv'
<1> USE GatewayAssumption DEF IInv, Alive, clientVars, serverVars
<1>1. CASE Connect(c)
  <2>1. TypeOK'
    BY <1>1 DEF Connect, TypeOK, Request
  <2>2. ServerInv'
    BY <1>1, SMTT(30) DEF Connect, TypeOK, ServerInv, Request
  <2>3. RequestsInv'
    BY <1>1 DEF Connect, TypeOK, Request, ServerInv, RequestsInv, Traceable
  <2>4. OrderInv'
    BY <1>1
    DEF Connect, TypeOK, Request, OrderInv, ReplayedComeFirst, ServerInv, RequestsInv, Traceable
  <2>5. AnswersInv'
    BY <1>1 DEF Connect, TypeOK, Request, AnswersInv, AnswersReachTheAsker, RequestsInv, Traceable
  <2>6. PatienceInv'
    <3> SUFFICES ASSUME impatient' = {}, NEW e \in Clients
                 PROVE  /\ service' # "killed"
                        /\ (IF client[e] = "waiting" THEN OnlyOnce(e) ELSE Nowhere(e))'
      BY DEF PatienceInv
    <3>1. /\ impatient = {} /\ service' # "killed" /\ service # "down"
          /\ client[e] = "waiting" => OnlyOnce(e)
          /\ client[e] # "waiting" => Nowhere(e)
      BY <1>1 DEF Connect, PatienceInv
    <3>2. CASE e = c
      BY <1>1, <3>1, <3>2 DEF Connect, TypeOK, OnlyOnce, Nowhere
    <3>3. CASE e # c
      BY <1>1, <3>1, <3>3 DEF Connect, TypeOK, OnlyOnce, Nowhere
    <3> QED
      BY <3>1, <3>2, <3>3
  <2> QED
    BY <2>1, <2>2, <2>3, <2>4, <2>5, <2>6 DEF IInv
<1>2. CASE Ask(c)
  <2>1. TypeOK'
    BY <1>2 DEF Ask, TypeOK, Request
  <2>2. ServerInv'
    <3>1. /\ client[c] # "left" /\ client[c] # "away" /\ client'[c] # "away"
          /\ \A e \in Clients : e # c => client'[e] = client[e]
      BY <1>2 DEF Ask, TypeOK
    <3>2. UNCHANGED <<peer, backlog, m_clientSocketDscr, poller, request, service>>
      BY <1>2 DEF Ask
    <3>3. \A d \in Descriptors : peer[d] \in Clients \/ peer[d] = NoClient
      BY DEF TypeOK
    <3>4. \A i \in 1 .. Len(backlog) : backlog[i] \in Clients
      BY DEF TypeOK
    <3>5. poller = "close" => peer[m_clientSocketDscr] \in Clients
      BY <1>2 DEF Ask, ServerInv
    <3> QED
      BY <3>1, <3>2, <3>3, <3>4, <3>5 DEF ServerInv
  <2>3. RequestsInv'
    BY <1>2 DEF Ask, TypeOK, Request, ServerInv, RequestsInv, Traceable
  <2>4. OrderInv'
    BY <1>2
    DEF Ask, TypeOK, Request, OrderInv, ReplayedComeFirst, ServerInv, RequestsInv, Traceable
  <2>5. AnswersInv'
    BY <1>2 DEF Ask, TypeOK, Request, AnswersInv, AnswersReachTheAsker, RequestsInv, Traceable
  <2>6. PatienceInv'
    <3> SUFFICES ASSUME impatient' = {}, NEW e \in Clients
                 PROVE  /\ service' # "killed"
                        /\ (IF client[e] = "waiting" THEN OnlyOnce(e) ELSE Nowhere(e))'
      BY DEF PatienceInv
    <3>1. /\ impatient = {} /\ service' # "killed" /\ service # "down"
          /\ client[e] = "waiting" => OnlyOnce(e)
          /\ client[e] # "waiting" => Nowhere(e)
      BY <1>2 DEF Ask, PatienceInv
    <3>2. CASE e = c
      BY <1>2, <3>1, <3>2 DEF Ask, TypeOK, OnlyOnce, Nowhere
    <3>3. CASE e # c
      BY <1>2, <3>1, <3>3 DEF Ask, TypeOK, OnlyOnce, Nowhere
    <3> QED
      BY <3>1, <3>2, <3>3
  <2> QED
    BY <2>1, <2>2, <2>3, <2>4, <2>5, <2>6 DEF IInv
<1>3. CASE Receive(c)
  <2>1. TypeOK'
    BY <1>3, SMTT(30) DEF Receive, TypeOK, Request
  <2>2. ServerInv'
    <3>1. /\ client[c] # "left" /\ client[c] # "away" /\ client'[c] # "away"
          /\ \A e \in Clients : e # c => client'[e] = client[e]
      BY <1>3 DEF Receive, TypeOK
    <3>2. UNCHANGED <<peer, backlog, m_clientSocketDscr, poller, request, service>>
      BY <1>3 DEF Receive
    <3>3. \A d \in Descriptors : peer[d] \in Clients \/ peer[d] = NoClient
      BY DEF TypeOK
    <3>4. \A i \in 1 .. Len(backlog) : backlog[i] \in Clients
      BY DEF TypeOK
    <3>5. poller = "close" => peer[m_clientSocketDscr] \in Clients
      BY <1>3 DEF Receive, ServerInv
    <3> QED
      BY <3>1, <3>2, <3>3, <3>4, <3>5 DEF ServerInv
  <2>3. RequestsInv'
    BY <1>3 DEF Receive, TypeOK, Request, ServerInv, RequestsInv, Traceable
  <2>4. OrderInv'
    BY <1>3
    DEF Receive, TypeOK, Request, OrderInv, ReplayedComeFirst, ServerInv, RequestsInv, Traceable
  <2>5. AnswersInv'
    BY <1>3 DEF Receive, TypeOK, Request, AnswersInv, AnswersReachTheAsker, RequestsInv, Traceable
  <2>6. PatienceInv'
    <3> SUFFICES ASSUME impatient' = {}, NEW e \in Clients
                 PROVE  /\ service' # "killed"
                        /\ (IF client[e] = "waiting" THEN OnlyOnce(e) ELSE Nowhere(e))'
      BY DEF PatienceInv
    <3>1. /\ impatient = {} /\ service' # "killed" /\ service # "down"
          /\ client[e] = "waiting" => OnlyOnce(e)
          /\ client[e] # "waiting" => Nowhere(e)
      BY <1>3 DEF Receive, PatienceInv
    <3>2. CASE e = c
      <4>1. /\ inbox[c] \in Seq(Clients) /\ inbox[c] # <<>> /\ client[c] = "waiting"
            /\ inbox'[c] = Tail(inbox[c]) /\ client'[c] = "idle"
        BY <1>3 DEF Receive, TypeOK
      <4>2. inbox'[c] = <<>>
        BY <3>1, <3>2, <4>1, TailFacts DEF OnlyOnce
      <4>3. Nowhere(c)'
        BY <1>3, <3>1, <3>2, <4>1, <4>2 DEF Receive, OnlyOnce, Nowhere
      <4> QED
        BY <3>1, <3>2, <4>1, <4>3
    <3>3. CASE e # c
      BY <1>3, <3>1, <3>3 DEF Receive, TypeOK, OnlyOnce, Nowhere
    <3> QED
      BY <3>1, <3>2, <3>3
  <2> QED
    BY <2>1, <2>2, <2>3, <2>4, <2>5, <2>6 DEF IInv
<1>4. CASE Leave(c)
  <2>1. TypeOK'
    BY <1>4 DEF Leave, TypeOK, Request
  <2>2. ServerInv'
    <3>1. /\ client[c] # "left" /\ client[c] # "away" /\ client'[c] # "away"
          /\ \A e \in Clients : e # c => client'[e] = client[e]
      BY <1>4 DEF Leave, TypeOK
    <3>2. UNCHANGED <<peer, backlog, m_clientSocketDscr, poller, request, service>>
      BY <1>4 DEF Leave
    <3>3. \A d \in Descriptors : peer[d] \in Clients \/ peer[d] = NoClient
      BY DEF TypeOK
    <3>4. \A i \in 1 .. Len(backlog) : backlog[i] \in Clients
      BY DEF TypeOK
    <3>5. poller = "close" => peer[m_clientSocketDscr] \in Clients
      BY <1>4 DEF Leave, ServerInv
    <3> QED
      BY <3>1, <3>2, <3>3, <3>4, <3>5 DEF ServerInv
  <2>3. RequestsInv'
    BY <1>4 DEF Leave, TypeOK, Request, ServerInv, RequestsInv, Traceable
  <2>4. OrderInv'
    BY <1>4
    DEF Leave, TypeOK, Request, OrderInv, ReplayedComeFirst, ServerInv, RequestsInv, Traceable
  <2>5. AnswersInv'
    BY <1>4 DEF Leave, TypeOK, Request, AnswersInv, AnswersReachTheAsker, RequestsInv, Traceable
  <2>6. PatienceInv'
    <3> SUFFICES ASSUME impatient' = {}, NEW e \in Clients
                 PROVE  /\ service' # "killed"
                        /\ (IF client[e] = "waiting" THEN OnlyOnce(e) ELSE Nowhere(e))'
      BY DEF PatienceInv
    <3>1. /\ impatient = {} /\ service' # "killed" /\ service # "down"
          /\ client[e] = "waiting" => OnlyOnce(e)
          /\ client[e] # "waiting" => Nowhere(e)
      BY <1>4 DEF Leave, PatienceInv
    <3>2. CASE e = c
      BY <1>4, <3>1, <3>2 DEF Leave, TypeOK, OnlyOnce, Nowhere
    <3>3. CASE e # c
      BY <1>4, <3>1, <3>3 DEF Leave, TypeOK, OnlyOnce, Nowhere
    <3> QED
      BY <3>1, <3>2, <3>3
  <2> QED
    BY <2>1, <2>2, <2>3, <2>4, <2>5, <2>6 DEF IInv
<1> QED
  BY <1>1, <1>2, <1>3, <1>4

\* A pass of the poller.
LEMMA PollInv ==
  ASSUME IInv, runNetworkCallbacks
  PROVE  IInv'
<1> USE GatewayAssumption DEF IInv, Alive, clientVars, serverVars
<1>1. CASE threadNetworkCallbacks
  <2>1. TypeOK'
    BY <1>1 DEF threadNetworkCallbacks, TypeOK, Request
  <2>2. ServerInv'
    BY <1>1 DEF threadNetworkCallbacks, TypeOK, ServerInv, Request
  <2>3. RequestsInv'
    BY <1>1 DEF threadNetworkCallbacks, TypeOK, Request, ServerInv, RequestsInv, Traceable
  <2>4. OrderInv'
    BY <1>1
    DEF threadNetworkCallbacks, TypeOK, Request, OrderInv, ReplayedComeFirst, ServerInv,
        RequestsInv, Traceable
  <2>5. AnswersInv'
    BY <1>1
    DEF threadNetworkCallbacks, TypeOK, Request, AnswersInv, AnswersReachTheAsker, RequestsInv,
        Traceable
  <2>6. PatienceInv'
    BY <1>1
    DEF threadNetworkCallbacks, TypeOK, Request, PatienceInv, Nowhere, OnlyOnce, ServerInv,
        RequestsInv, Traceable
  <2> QED
    BY <2>1, <2>2, <2>3, <2>4, <2>5, <2>6 DEF IInv
<1>2. CASE Accept
  <2>1. TypeOK'
    <3>1. backlog' \in Seq(Clients) /\ Head(backlog) \in Clients
      BY <1>2, TailFacts DEF Accept, TypeOK
    <3>2. /\ peer' \in [Descriptors -> Clients \union {NoClient}]
          /\ m_clientSocketDscr' \in {0} \union Descriptors
      BY <1>2, <3>1 DEF Accept, TypeOK
    <3> QED
      BY <1>2, <3>1, <3>2 DEF Accept, TypeOK, Request
  <2>2. ServerInv'
    BY <1>2 DEF Accept, TypeOK, ServerInv, Request
  <2>3. RequestsInv'
    BY <1>2, SMTT(30) DEF Accept, TypeOK, Request, ServerInv, RequestsInv, Traceable
  <2>4. OrderInv'
    BY <1>2
    DEF Accept, TypeOK, Request, OrderInv, ReplayedComeFirst, ServerInv, RequestsInv, Traceable
  <2>5. AnswersInv'
    BY <1>2 DEF Accept, TypeOK, Request, AnswersInv, AnswersReachTheAsker, RequestsInv, Traceable
  <2>6. PatienceInv'
    BY <1>2
    DEF Accept, TypeOK, Request, PatienceInv, Nowhere, OnlyOnce, ServerInv, RequestsInv,
        Traceable
  <2> QED
    BY <2>1, <2>2, <2>3, <2>4, <2>5, <2>6 DEF IInv
<1>3. CASE SelectClient
  <2>1. TypeOK'
    BY <1>3 DEF SelectClient, TypeOK, Request
  <2>2. ServerInv'
    BY <1>3 DEF SelectClient, TypeOK, ServerInv, Request
  <2>3. RequestsInv'
    BY <1>3 DEF SelectClient, TypeOK, Request, ServerInv, RequestsInv, Traceable
  <2>4. OrderInv'
    BY <1>3
    DEF SelectClient, TypeOK, Request, OrderInv, ReplayedComeFirst, ServerInv, RequestsInv,
        Traceable
  <2>5. AnswersInv'
    BY <1>3
    DEF SelectClient, TypeOK, Request, AnswersInv, AnswersReachTheAsker, RequestsInv, Traceable
  <2>6. PatienceInv'
    BY <1>3
    DEF SelectClient, TypeOK, Request, PatienceInv, Nowhere, OnlyOnce, ServerInv, RequestsInv,
        Traceable
  <2> QED
    BY <2>1, <2>2, <2>3, <2>4, <2>5, <2>6 DEF IInv
<1>4. CASE Timeout
  <2>1. TypeOK'
    BY <1>4 DEF Timeout, TypeOK, Request
  <2>2. ServerInv'
    BY <1>4 DEF Timeout, TypeOK, ServerInv, Request
  <2>3. RequestsInv'
    BY <1>4 DEF Timeout, TypeOK, Request, ServerInv, RequestsInv, Traceable
  <2>4. OrderInv'
    BY <1>4
    DEF Timeout, TypeOK, Request, OrderInv, ReplayedComeFirst, ServerInv, RequestsInv, Traceable
  <2>5. AnswersInv'
    BY <1>4 DEF Timeout, TypeOK, Request, AnswersInv, AnswersReachTheAsker, RequestsInv, Traceable
  <2>6. PatienceInv'
    BY <1>4
    DEF Timeout, TypeOK, Request, PatienceInv, Nowhere, OnlyOnce, ServerInv, RequestsInv,
        Traceable
  <2> QED
    BY <2>1, <2>2, <2>3, <2>4, <2>5, <2>6 DEF IInv
<1>5. CASE Recv
  <2>0. /\ poller = "recv" /\ m_clientSocketDscr \in Descriptors
        /\ peer[m_clientSocketDscr] \in Clients /\ request = <<>>
    BY <1>5 DEF Recv, TypeOK, ServerInv
  <2> DEFINE c == peer[m_clientSocketDscr]
             r == [asker |-> c, dscr |-> m_clientSocketDscr]
  <2>a. r \in Request /\ <<r>> \in Seq(Request) /\ Len(<<r>>) = 1 /\ <<r>>[1] = r
    BY <2>0 DEF Request
  <2>1. TypeOK'
    BY <1>5, <2>0, <2>a DEF Recv, TypeOK
  <2>2. ServerInv'
    BY <1>5 DEF Recv, TypeOK, ServerInv, Request
  <2>3. RequestsInv'
    BY <1>5 DEF Recv, TypeOK, Request, ServerInv, RequestsInv, Traceable
  <2>4. OrderInv'
    BY <1>5
    DEF Recv, TypeOK, Request, OrderInv, ReplayedComeFirst, ServerInv, RequestsInv, Traceable
  <2>5. AnswersInv'
    BY <1>5 DEF Recv, TypeOK, Request, AnswersInv, AnswersReachTheAsker, RequestsInv, Traceable
  <2>6. PatienceInv'
    <3>1. CASE poller' = "close"
      BY <1>5, <3>1 DEF Recv, TypeOK, PatienceInv, OnlyOnce, Nowhere
    <3>2. CASE poller' = "callback"
      <4>1. /\ outbox[c] /\ outbox' = [outbox EXCEPT ![c] = FALSE] /\ request' = <<r>>
            /\ UNCHANGED <<service, client, inbox, impatient, m_arrivedCommands>>
        BY <1>5, <2>0, <3>2 DEF Recv
      <4> SUFFICES ASSUME impatient' = {}, service # "down", NEW e \in Clients
                   PROVE  /\ service' # "killed"
                          /\ (IF client[e] = "waiting" THEN OnlyOnce(e) ELSE Nowhere(e))'
        BY <4>1 DEF PatienceInv
      <4>2. /\ service # "killed"
            /\ client[e] = "waiting" => OnlyOnce(e)
            /\ client[e] # "waiting" => Nowhere(e)
        BY <4>1 DEF PatienceInv
      <4>3. CASE e = c
        BY <2>0, <2>a, <4>1, <4>2, <4>3 DEF TypeOK, OnlyOnce, Nowhere
      <4>4. CASE e # c
        BY <2>0, <2>a, <4>1, <4>2, <4>4, SMTT(30) DEF TypeOK, OnlyOnce, Nowhere
      <4> QED
        BY <4>1, <4>2, <4>3, <4>4
    <3> QED
      BY <1>5, <3>1, <3>2 DEF Recv
  <2> QED
    BY <2>1, <2>2, <2>3, <2>4, <2>5, <2>6 DEF IInv
<1>6. CASE callbackNetworkRequest
  <2> DEFINE r == Head(request)
             q == m_arrivedCommands
  <2>1. Len(request) = 1 /\ request[1].asker \in Clients
    BY <1>6 DEF callbackNetworkRequest, ServerInv
  <2>2. request \in Seq(Request) /\ request # <<>>
    <3>1. Len(<<>>) = 0 /\ request \in Seq(Request)
      BY DEF TypeOK
    <3> QED
      BY <2>1, <3>1
  <2>3. r = request[1] /\ r \in Request
    BY <2>2, TailFacts
  <2>4. /\ q \in Seq(Request) /\ request' = <<>> /\ Len(request') = 0
        /\ UNCHANGED <<service, client, outbox, inbox, impatient, peer, answers>>
    BY <1>6 DEF callbackNetworkRequest, TypeOK
  <2>0. /\ Len(request) = 1 /\ r = request[1] /\ r \in Request /\ r.asker \in Clients
        /\ q \in Seq(Request) /\ request' = <<>> /\ Len(request') = 0
        /\ UNCHANGED <<service, client, outbox, inbox, impatient, peer, answers>>
    BY <2>1, <2>3, <2>4
  <2>a. CASE m_arrivedCommands' = q
    <3>1. TypeOK'
      BY <1>6, <2>0, <2>a, SMTT(30) DEF callbackNetworkRequest, TypeOK
    <3>2. ServerInv'
      BY <1>6, <2>0 DEF callbackNetworkRequest, TypeOK, ServerInv
    <3>3. RequestsInv'
      BY <2>0, <2>a DEF RequestsInv, Traceable
    <3>4. OrderInv' /\ AnswersInv'
      BY <2>0, <2>a DEF OrderInv, ReplayedComeFirst, AnswersInv, AnswersReachTheAsker
    <3>5. PatienceInv'
      BY <2>0, <2>a DEF PatienceInv, OnlyOnce, Nowhere
    <3> QED
      BY <3>1, <3>2, <3>3, <3>4, <3>5
  <2>b. CASE m_arrivedCommands' = Append(q, r)
    <3>0. /\ Append(q, r) \in Seq(Request) /\ Len(Append(q, r)) = Len(q) + 1 /\ Len(q) \in Nat
          /\ \A i \in 1 .. Len(q) : Append(q, r)[i] = q[i]
          /\ Append(q, r)[Len(q) + 1] = r
      BY <2>0, AppendFacts
    <3>1. TypeOK'
      BY <1>6, <2>0, <2>b, <3>0, SMTT(30) DEF callbackNetworkRequest, TypeOK
    <3>2. ServerInv'
      BY <1>6, <2>0 DEF callbackNetworkRequest, TypeOK, ServerInv
    <3>3. RequestsInv'
      BY <2>0, <2>b, <3>0 DEF RequestsInv, Traceable
    <3>4. OrderInv'
      BY <2>0, <2>b, <3>0 DEF OrderInv, ReplayedComeFirst
    <3>5. AnswersInv'
      BY <2>0 DEF AnswersInv, AnswersReachTheAsker
    <3>6. PatienceInv'
      <4> SUFFICES ASSUME impatient = {}, service # "down", NEW e \in Clients
                   PROVE  /\ service # "killed"
                          /\ (IF client[e] = "waiting" THEN OnlyOnce(e) ELSE Nowhere(e))'
        BY <2>0 DEF PatienceInv
      <4>1. /\ service # "killed"
            /\ client[e] = "waiting" => OnlyOnce(e)
            /\ client[e] # "waiting" => Nowhere(e)
        BY DEF PatienceInv
      <4>2. CASE e = r.asker
        BY <2>0, <2>b, <3>0, <4>1, <4>2 DEF OnlyOnce, Nowhere
      <4>3. CASE e # r.asker
        BY <2>0, <2>b, <3>0, <4>1, <4>3 DEF OnlyOnce, Nowhere
      <4> QED
        BY <4>1, <4>2, <4>3
    <3> QED
      BY <3>1, <3>2, <3>3, <3>4, <3>5, <3>6
  <2> QED
    BY <1>6, <2>a, <2>b DEF callbackNetworkRequest
<1>7. CASE Close
  <2>1. TypeOK'
    BY <1>7 DEF Close, TypeOK, Request
  <2>2. ServerInv'
    BY <1>7 DEF Close, TypeOK, ServerInv, Request
  <2>3. RequestsInv'
    BY <1>7 DEF Close, TypeOK, Request, ServerInv, RequestsInv, Traceable
  <2>4. OrderInv'
    BY <1>7
    DEF Close, TypeOK, Request, OrderInv, ReplayedComeFirst, ServerInv, RequestsInv, Traceable
  <2>5. AnswersInv'
    BY <1>7 DEF Close, TypeOK, Request, AnswersInv, AnswersReachTheAsker, RequestsInv, Traceable
  <2>6. PatienceInv'
    BY <1>7
    DEF Close, TypeOK, Request, PatienceInv, Nowhere, OnlyOnce, ServerInv, RequestsInv,
        Traceable
  <2> QED
    BY <2>1, <2>2, <2>3, <2>4, <2>5, <2>6 DEF IInv
<1> QED
  BY <1>1, <1>2, <1>3, <1>4, <1>5, <1>6, <1>7 DEF runNetworkCallbacks

\* The requests that are replayed are none of the clients'.
LEMMA ReplayedRequests ==
  /\ Replayed \in Seq(ReplayedNames) /\ Len(Replayed) \in Nat
  /\ \A i \in 1 .. Len(Replayed) : Replayed[i] \in ReplayedNames /\ Replayed[i] \notin Clients
<1>1. Replayed \in Seq(ReplayedNames)
  <2> DEFINE S == ReplayedNames
  <2>1. RequestsFromWAL \in Seq(S) /\ RequestsFromConfig \in Seq(S)
    BY GatewayAssumption
  <2> HIDE DEF S
  <2>2. RequestsFromWAL \o RequestsFromConfig \in Seq(S)
    BY <2>1
  <2> QED
    BY <2>2 DEF Replayed, S
<1>2. Len(Replayed) \in Nat /\ \A i \in 1 .. Len(Replayed) : Replayed[i] \in ReplayedNames
  BY <1>1
<1>3. \A r \in ReplayedNames : r \notin Clients
  BY GatewayAssumption
<1> QED
  BY <1>1, <1>2, <1>3

\* The main loop.
LEMMA MainInv ==
  ASSUME IInv, init \/ nextIncomingCommand \/ shutdown \/ ShutdownDone
  PROVE  IInv'
<1> USE GatewayAssumption DEF IInv, Alive, clientVars, serverVars
<1>1. CASE init
  <2> DEFINE q == [i \in 1 .. Len(Replayed) |-> [asker |-> Replayed[i], dscr |-> 0]]
  <2>0. /\ Replayed \in Seq(ReplayedNames) /\ Len(Replayed) \in Nat
        /\ \A i \in 1 .. Len(Replayed) : Replayed[i] \in ReplayedNames /\ Replayed[i] \notin Clients
    BY ReplayedRequests
  <2>a. /\ m_arrivedCommands' = q /\ q \in Seq(Request) /\ Len(q) = Len(Replayed)
        /\ \A i \in 1 .. Len(q) : q[i].asker \notin Clients /\ q[i].dscr = 0
    BY <1>1, <2>0 DEF init, Request
  <2> HIDE DEF q
  <2>1. TypeOK'
    BY <1>1, <2>0, <2>a DEF init, TypeOK, Request
  <2>2. ServerInv'
    BY <1>1, <2>0, <2>a DEF init, TypeOK, ServerInv, Request
  <2>3. RequestsInv'
    BY <1>1, <2>0, <2>a DEF init, TypeOK, Request, ServerInv, RequestsInv, Traceable
  <2>4. OrderInv'
    BY <1>1, <2>0, <2>a
    DEF init, TypeOK, Request, OrderInv, ReplayedComeFirst, ServerInv, RequestsInv, Traceable
  <2>5. AnswersInv'
    BY <1>1, <2>0, <2>a
    DEF init, TypeOK, Request, AnswersInv, AnswersReachTheAsker, RequestsInv, Traceable
  <2>6. PatienceInv'
    <3> SUFFICES ASSUME impatient = {}, NEW e \in Clients
                 PROVE  (IF client[e] = "waiting" THEN OnlyOnce(e) ELSE Nowhere(e))'
      BY <1>1 DEF init, PatienceInv
    <3>1. IF client[e] = "waiting" THEN OnlyOnce(e) ELSE Nowhere(e)
      BY <1>1 DEF init, PatienceInv
    <3>2. \A i \in 1 .. Len(q) : q[i].asker # e
      BY <2>a
    <3> QED
      BY <1>1, <2>a, <3>1, <3>2 DEF init, OnlyOnce, Nowhere
  <2> QED
    BY <2>1, <2>2, <2>3, <2>4, <2>5, <2>6 DEF IInv
<1>2. CASE nextIncomingCommand
  <2> DEFINE q == m_arrivedCommands
             r == Head(q)
             to == IF r.dscr = 0 THEN NoClient ELSE peer[r.dscr]
  <2>1. /\ q \in Seq(Request) /\ q # <<>> /\ Len(q) \in Nat
        /\ m_arrivedCommands' = Tail(q)
    BY <1>2 DEF nextIncomingCommand, TypeOK
  <2>2. /\ Len(q) > 0 /\ r = q[1] /\ r \in Request
        /\ Tail(q) \in Seq(Request) /\ Len(Tail(q)) = Len(q) - 1
        /\ \A i \in 1 .. Len(q) - 1 : Tail(q)[i] = q[i + 1]
    BY <2>1, TailFacts
  <2>3. /\ service = "up" /\ setOutcomingMessage(r)
        /\ UNCHANGED <<asyncNetwork, client, asks, outbox, impatient, serverVars>>
    BY <1>2 DEF nextIncomingCommand, MainIsFree
  <2>4. Traceable(r) /\ r.dscr \in {0} \union Descriptors /\ to \in Clients \union {NoClient}
    <3>1. Traceable(q[1])
      BY <2>1, <2>2 DEF RequestsInv
    <3>2. r.dscr \in {0} \union Descriptors
      BY <2>2 DEF Request
    <3>3. to \in Clients \union {NoClient}
      BY <3>2 DEF TypeOK
    <3> QED
      BY <2>2, <3>1, <3>2, <3>3
  <2>5. to \in Clients => r.asker \in Clients
    BY <2>4 DEF Traceable
  <2> HIDE DEF to, q, r
  <2>6. CASE to = NoClient /\ UNCHANGED <<service, inbox, answers>>
    <3>1. TypeOK'
      BY <2>1, <2>2, <2>3, <2>4, <2>5, <2>6, AppendFacts DEF TypeOK, Request, q
    <3>2. ServerInv'
      BY <2>1, <2>2, <2>3, <2>4, <2>5, <2>6 DEF ServerInv
    <3>3. RequestsInv'
      BY <2>1, <2>2, <2>3, <2>4, <2>5, <2>6 DEF RequestsInv, Traceable, q
    <3>4. OrderInv'
      BY <2>1, <2>2, <2>3, <2>4, <2>5, <2>6 DEF OrderInv, ReplayedComeFirst, Traceable, q
    <3>5. AnswersInv'
      BY <2>1, <2>2, <2>3, <2>4, <2>5, <2>6 DEF AnswersInv, AnswersReachTheAsker, Traceable, to
    <3>6. PatienceInv'
      <4> SUFFICES ASSUME impatient' = {}, NEW e \in Clients
                   PROVE  /\ client'[e] = "waiting" => OnlyOnce(e)'
                          /\ client'[e] # "waiting" => Nowhere(e)'
        BY <2>3, <2>6 DEF PatienceInv
      <4>0. impatient = {}
        BY <2>3
      <4>1. /\ \A g \in Clients : client[g] = "waiting" => OnlyOnce(g)
            /\ \A g \in Clients : client[g] # "waiting" => Nowhere(g)
        BY <2>3, <4>0 DEF PatienceInv
      <4> QED
        BY <2>1, <2>2, <2>3, <2>4, <2>5, <2>6, <4>1 DEF OnlyOnce, Nowhere, q
    <3> QED
      BY <3>1, <3>2, <3>3, <3>4, <3>5, <3>6
  <2>7. CASE /\ to \in Clients /\ client[to] # "left"
             /\ inbox' = [inbox EXCEPT ![to] = Append(@, r.asker)]
             /\ answers' = answers \union {<<to, r.asker>>}
             /\ UNCHANGED service
    <3>1. TypeOK'
      BY <2>1, <2>2, <2>3, <2>4, <2>5, <2>7, AppendFacts, SMTT(30) DEF TypeOK, Request, q
    <3>2. ServerInv'
      BY <2>1, <2>2, <2>3, <2>4, <2>5, <2>7 DEF ServerInv
    <3>3. RequestsInv'
      BY <2>1, <2>2, <2>3, <2>4, <2>5, <2>7 DEF RequestsInv, Traceable, q
    <3>4. OrderInv'
      BY <2>1, <2>2, <2>3, <2>4, <2>5, <2>7 DEF OrderInv, ReplayedComeFirst, Traceable, q
    <3>5. AnswersInv'
      BY <2>1, <2>2, <2>3, <2>4, <2>5, <2>7 DEF AnswersInv, AnswersReachTheAsker, Traceable, to
    <3>6. PatienceInv'
      <4> SUFFICES ASSUME impatient' = {}, NEW e \in Clients
                   PROVE  /\ client'[e] = "waiting" => OnlyOnce(e)'
                          /\ client'[e] # "waiting" => Nowhere(e)'
        BY <2>3, <2>7 DEF PatienceInv
      <4>0. impatient = {}
        BY <2>3
      <4>1. /\ \A g \in Clients : client[g] = "waiting" => OnlyOnce(g)
            /\ \A g \in Clients : client[g] # "waiting" => Nowhere(g)
        BY <2>3, <4>0 DEF PatienceInv
      <4>2. r.asker \in Clients /\ client[r.asker] = "waiting" /\ to = r.asker
        BY <2>1, <2>2, <2>3, <2>4, <2>5, <2>7, <4>1 DEF Nowhere, Traceable, q, to
      <4>3. CASE e = to
        <5>1. /\ OnlyOnce(e) /\ inbox[e] = <<>> /\ ~ outbox[e]
              /\ \A i \in 1 .. Len(request) : request[i].asker # e
              /\ \A i \in 1 .. Len(q) : i # 1 => q[i].asker # e
          BY <2>1, <2>2, <2>3, <2>4, <2>5, <4>1, <4>2, <4>3 DEF OnlyOnce, q
        <5>2. inbox'[e] = Append(<<>>, r.asker) /\ Len(inbox'[e]) = 1
          BY <2>7, <4>2, <4>3, <5>1, AppendFacts DEF TypeOK
        <5> QED
          BY <2>1, <2>2, <2>3, <2>4, <2>5, <2>7, <4>2, <4>3, <5>1, <5>2 DEF OnlyOnce, q
      <4>4. CASE e # to
        <5>1. inbox'[e] = inbox[e] /\ UNCHANGED <<service, client, outbox, request>>
          BY <2>3, <2>7, <4>4 DEF TypeOK
        <5>2. OnlyOnce(e) => OnlyOnce(e)'
          BY <2>1, <2>2, <5>1 DEF OnlyOnce, q
        <5>3. Nowhere(e) => Nowhere(e)'
          BY <2>1, <2>2, <5>1 DEF Nowhere, q
        <5> QED
          BY <2>3, <4>1, <5>1, <5>2, <5>3
      <4> QED
        BY <4>3, <4>4
    <3> QED
      BY <3>1, <3>2, <3>3, <3>4, <3>5, <3>6
  <2>8. CASE /\ to \in Clients /\ client[to] = "left"
             /\ service' = "killed"
             /\ UNCHANGED <<inbox, answers>>
    <3>1. TypeOK'
      BY <2>1, <2>2, <2>3, <2>4, <2>5, <2>8, AppendFacts DEF TypeOK, Request, q
    <3>2. ServerInv'
      BY <2>1, <2>2, <2>3, <2>4, <2>5, <2>8 DEF ServerInv
    <3>3. RequestsInv'
      BY <2>1, <2>2, <2>3, <2>4, <2>5, <2>8 DEF RequestsInv, Traceable, q
    <3>4. OrderInv'
      BY <2>1, <2>2, <2>3, <2>4, <2>5, <2>8 DEF OrderInv, ReplayedComeFirst, Traceable, q
    <3>5. AnswersInv'
      BY <2>1, <2>2, <2>3, <2>4, <2>5, <2>8 DEF AnswersInv, AnswersReachTheAsker, Traceable, to
    <3>6. PatienceInv'
      <4> SUFFICES ASSUME impatient' = {}
                   PROVE  FALSE
        BY DEF PatienceInv
      <4>0. impatient = {}
        BY <2>3
      <4>1. /\ \A g \in Clients : client[g] = "waiting" => OnlyOnce(g)
            /\ \A g \in Clients : client[g] # "waiting" => Nowhere(g)
        BY <2>3, <4>0 DEF PatienceInv
      <4>2. r.asker \in Clients /\ client[r.asker] = "waiting" /\ to = r.asker
        BY <2>1, <2>2, <2>3, <2>4, <2>5, <2>8, <4>1 DEF Nowhere, Traceable, q, to
      <4> QED
        BY <2>8, <4>2
    <3> QED
      BY <3>1, <3>2, <3>3, <3>4, <3>5, <3>6
  <2>9. setOutcomingMessage(r) => \/ to = NoClient /\ UNCHANGED <<service, inbox, answers>>
                                  \/ /\ to \in Clients /\ client[to] # "left"
                                     /\ inbox' = [inbox EXCEPT ![to] = Append(@, r.asker)]
                                     /\ answers' = answers \union {<<to, r.asker>>}
                                     /\ UNCHANGED service
                                  \/ /\ to \in Clients /\ client[to] = "left"
                                     /\ service' = "killed"
                                     /\ UNCHANGED <<inbox, answers>>
    BY Zenon DEF setOutcomingMessage, to
  <2> QED
    BY <2>3, <2>6, <2>7, <2>8, <2>9
<1>3. CASE shutdown
  <2>1. TypeOK'
    BY <1>3 DEF shutdown, MainIsFree, TypeOK, Request
  <2>2. ServerInv'
    BY <1>3 DEF shutdown, MainIsFree, TypeOK, ServerInv, Request
  <2>3. RequestsInv'
    BY <1>3 DEF shutdown, MainIsFree, TypeOK, Request, ServerInv, RequestsInv, Traceable
  <2>4. OrderInv'
    BY <1>3
    DEF shutdown, MainIsFree, TypeOK, Request, OrderInv, ReplayedComeFirst, ServerInv,
        RequestsInv, Traceable
  <2>5. AnswersInv'
    BY <1>3
    DEF shutdown, MainIsFree, TypeOK, Request, AnswersInv, AnswersReachTheAsker, RequestsInv,
        Traceable
  <2>6. PatienceInv'
    BY <1>3
    DEF shutdown, MainIsFree, TypeOK, Request, PatienceInv, Nowhere, OnlyOnce, ServerInv,
        RequestsInv, Traceable
  <2> QED
    BY <2>1, <2>2, <2>3, <2>4, <2>5, <2>6 DEF IInv
<1>4. CASE ShutdownDone
  <2>1. TypeOK'
    BY <1>4 DEF ShutdownDone, TypeOK, Request
  <2>2. ServerInv'
    BY <1>4 DEF ShutdownDone, TypeOK, ServerInv, Request
  <2>3. RequestsInv'
    <3>1. \A e \in Clients : client[e] # "away" => client'[e] = "left"
      BY <1>4 DEF ShutdownDone, TypeOK
    <3>2. \A x \in Request : Traceable(x) => Traceable(x)'
      BY <1>4, <3>1 DEF ShutdownDone, TypeOK, Traceable, ServerInv
    <3> QED
      BY <1>4, <3>2 DEF ShutdownDone, TypeOK, RequestsInv
  <2>4. OrderInv'
    BY <1>4
    DEF ShutdownDone, TypeOK, Request, OrderInv, ReplayedComeFirst, ServerInv, RequestsInv,
        Traceable
  <2>5. AnswersInv'
    BY <1>4
    DEF ShutdownDone, TypeOK, Request, AnswersInv, AnswersReachTheAsker, RequestsInv, Traceable
  <2>6. PatienceInv'
    BY <1>4
    DEF ShutdownDone, TypeOK, Request, PatienceInv, Nowhere, OnlyOnce, ServerInv, RequestsInv,
        Traceable
  <2> QED
    BY <2>1, <2>2, <2>3, <2>4, <2>5, <2>6 DEF IInv
<1> QED
  BY <1>1, <1>2, <1>3, <1>4

\* Every step keeps the invariant.
LEMMA NextInv == IInv /\ [Next]_vars => IInv'
<1> SUFFICES ASSUME IInv, [Next]_vars PROVE IInv'
  OBVIOUS
<1>1. CASE UNCHANGED vars
  <2>1. TypeOK'
    BY <1>1 DEF IInv, vars, clientVars, serverVars, TypeOK, Request
  <2>2. ServerInv'
    BY <1>1 DEF IInv, vars, clientVars, serverVars, TypeOK, ServerInv, Request
  <2>3. RequestsInv'
    BY <1>1
    DEF IInv, vars, clientVars, serverVars, TypeOK, Request, ServerInv, RequestsInv, Traceable
  <2>4. OrderInv'
    BY <1>1
    DEF IInv, vars, clientVars, serverVars, TypeOK, Request, OrderInv, ReplayedComeFirst,
        ServerInv, RequestsInv, Traceable
  <2>5. AnswersInv'
    BY <1>1
    DEF IInv, vars, clientVars, serverVars, TypeOK, Request, AnswersInv, AnswersReachTheAsker,
        RequestsInv, Traceable
  <2>6. PatienceInv'
    BY <1>1
    DEF IInv, vars, clientVars, serverVars, TypeOK, Request, PatienceInv, Nowhere, OnlyOnce,
        ServerInv, RequestsInv, Traceable
  <2> QED
    BY <2>1, <2>2, <2>3, <2>4, <2>5, <2>6 DEF IInv
<1>2. CASE Next
  BY <1>2, ClientInv, PollInv, MainInv DEF Next
<1> QED
  BY <1>1, <1>2

\* The invariant holds of every reachable state.
LEMMA Invariance == Spec => []IInv
  BY InitInv, NextInv, PTL DEF Spec

\* The variables have their types, for any number of clients and descriptors
\* (communication_gateway_facade.h, shell.h).
THEOREM TypesAreKept == Spec => []TypeOK
<1>1. IInv => TypeOK
  BY DEF IInv
<1> QED
  BY <1>1, Invariance, PTL

\* An answer goes to who asked, unless that client has gone (setOutcomingMessage,
\* runNetworkCallbacks), whatever numbers the kernel gives to the sockets.
THEOREM AnswersGoBack == Spec => []AnswersReachTheAsker
<1>1. IInv => AnswersReachTheAsker
  BY DEF IInv, AnswersInv
<1> QED
  BY <1>1, Invariance, PTL

\* What is replayed is executed before any client is answered (init,
\* nextIncomingCommand).
THEOREM ReplayedAreFirst == Spec => []ReplayedComeFirst
<1>1. IInv => ReplayedComeFirst
  BY DEF IInv, OrderInv
<1> QED
  BY <1>1, Invariance, PTL

\* Only a client that left without its answer can have the service killed
\* (sendWithoutSize without MSG_NOSIGNAL).
THEOREM PatientClientsAreHarmless == Spec => []KilledByTheImpatient
<1>1. IInv => KilledByTheImpatient
  BY DEF IInv, PatienceInv, KilledByTheImpatient
<1> QED
  BY <1>1, Invariance, PTL

-----------------------------------------------------------------------------
(* No request is lost.                                                     *)

Connected(c) ==
  \/ \E i \in 1 .. Len(backlog) : backlog[i] = c
  \/ \E d \in Descriptors : peer[d] = c

UnderWay(c) ==
  \/ outbox[c] \/ inbox[c] # <<>>
  \/ \E i \in 1 .. Len(request) : request[i].asker = c
  \/ \E i \in 1 .. Len(m_arrivedCommands) : m_arrivedCommands[i].asker = c

\* A client is connected until it leaves, not only while it waits; and there is none
\* before init, which fills the queue anew.
KeepsClients ==
  /\ service = "new" => \A c \in Clients : client[c] = "away"
  /\ \A c \in Clients : client[c] \in {"idle", "waiting"} => Connected(c)

KeepsRequests == \A c \in Clients \ Garbled : client[c] = "waiting" => UnderWay(c)

\* Who is connected stays so: a connection goes from the backlog to the descriptor, and
\* that is closed for a client that has left.
LEMMA ClientsAreKept ==
  ASSUME IInv, KeepsClients, [Next]_vars
  PROVE  KeepsClients'
<1> USE GatewayAssumption DEF IInv, Alive, KeepsClients, Connected, clientVars, serverVars
<1>1. ASSUME NEW c \in Clients, Connect(c) PROVE KeepsClients'
  <2>1. /\ backlog \in Seq(Clients) /\ backlog' = Append(backlog, c)
        /\ client' = [client EXCEPT ![c] = "idle"]
        /\ UNCHANGED <<peer, service>> /\ service # "new"
    BY <1>1 DEF Connect, TypeOK
  <2>2. /\ Len(backlog) \in Nat /\ Len(backlog') = Len(backlog) + 1
        /\ \A i \in 1 .. Len(backlog) : backlog'[i] = backlog[i]
        /\ backlog'[Len(backlog) + 1] = c
    BY <2>1, AppendFacts
  <2>3. \A e \in Clients : Connected(e) \/ e = c => Connected(e)'
    BY <2>1, <2>2
  <2>4. \A e \in Clients : e # c => client'[e] = client[e]
    BY <2>1 DEF TypeOK
  <2> QED
    BY <2>1, <2>3, <2>4
<1>2. ASSUME NEW c \in Clients, Ask(c) \/ Receive(c) \/ Leave(c) PROVE KeepsClients'
  BY <1>2 DEF Ask, Receive, Leave, TypeOK
<1>3. CASE Accept
  <2>1. PICK d \in Descriptors :
          peer[d] = NoClient /\ peer' = [peer EXCEPT ![d] = Head(backlog)]
    BY <1>3 DEF Accept
  <2>2. /\ backlog # <<>> /\ backlog' = Tail(backlog) /\ backlog \in Seq(Clients)
        /\ UNCHANGED <<client, service>>
    BY <1>3 DEF Accept, TypeOK
  <2>3. /\ Len(backlog) \in Nat /\ Len(backlog) > 0 /\ Head(backlog) = backlog[1]
        /\ Len(backlog') = Len(backlog) - 1
        /\ \A i \in 1 .. Len(backlog) - 1 : backlog'[i] = backlog[i + 1]
    BY <2>2, TailFacts
  <2>4. peer'[d] = Head(backlog) /\ \A e \in Descriptors : e # d => peer'[e] = peer[e]
    BY <2>1 DEF TypeOK
  <2>5. ASSUME NEW c \in Clients, Connected(c) PROVE Connected(c)'
    <3>1. CASE \E e \in Descriptors : peer[e] = c
      BY <2>1, <2>4, <3>1
    <3>2. ASSUME NEW i \in 1 .. Len(backlog), backlog[i] = c PROVE Connected(c)'
      <4>1. CASE i = 1
        BY <2>3, <2>4, <3>2, <4>1
      <4>2. CASE i # 1
        <5>1. i - 1 \in 1 .. Len(backlog) - 1 /\ (i - 1) + 1 = i
          BY <2>3, <4>2
        <5>2. backlog'[i - 1] = c
          BY <2>3, <3>2, <5>1
        <5> QED
          BY <2>3, <5>1, <5>2
      <4> QED
        BY <4>1, <4>2
    <3> QED
      BY <2>5, <3>1, <3>2
  <2> QED
    BY <2>2, <2>5
<1>4. CASE Close
  <2>1. /\ poller = "close" /\ m_clientSocketDscr # 0
        /\ client[peer[m_clientSocketDscr]] = "left"
        /\ peer' = [peer EXCEPT ![m_clientSocketDscr] = NoClient]
        /\ UNCHANGED <<client, service, backlog>>
    BY <1>4 DEF Close, ServerInv
  <2>2. \A d \in Descriptors : d # m_clientSocketDscr => peer'[d] = peer[d]
    BY <2>1 DEF TypeOK
  <2> QED
    BY <2>1, <2>2
<1>5. CASE threadNetworkCallbacks \/ SelectClient \/ Timeout \/ Recv \/ callbackNetworkRequest
  BY <1>5 DEF threadNetworkCallbacks, SelectClient, Timeout, Recv, callbackNetworkRequest
<1>6. CASE init
  <2>1. UNCHANGED <<client, backlog, peer>>
    BY <1>6 DEF init
  <2>2. service' # "new"
    <3>1. service' = "up"
      BY <1>6 DEF init
    <3> QED
      BY <3>1
  <2> QED
    BY <2>1, <2>2
<1>7. CASE nextIncomingCommand
  <2>1. UNCHANGED <<client, backlog, peer>> /\ service' # "new"
    BY <1>7 DEF nextIncomingCommand, MainIsFree, setOutcomingMessage
  <2> QED
    BY <2>1
<1>8. CASE shutdown
  BY <1>8 DEF shutdown
<1>9. CASE ShutdownDone
  <2>1. \A c \in Clients : client'[c] \notin {"idle", "waiting"}
    BY <1>9 DEF ShutdownDone
  <2>2. service' # "new"
    BY <1>9 DEF ShutdownDone
  <2> QED
    BY <2>1, <2>2
<1>10. CASE UNCHANGED vars
  BY <1>10 DEF vars
<1> QED
  BY <1>1, <1>2, <1>3, <1>4, <1>5, <1>6, <1>7, <1>8, <1>9, <1>10 DEF Next, runNetworkCallbacks

\* A request that is executed is answered by the descriptor it came by, which is still
\* its client's (Traceable).
LEMMA ExecutedIsAnswered ==
  ASSUME IInv, nextIncomingCommand, NEW c \in Clients, client[c] = "waiting",
         Head(m_arrivedCommands).asker = c
  PROVE  inbox'[c] # <<>>
<1> DEFINE r == Head(m_arrivedCommands)
<1>1. m_arrivedCommands \in Seq(Request) /\ m_arrivedCommands # <<>> /\ setOutcomingMessage(r)
  BY DEF IInv, TypeOK, nextIncomingCommand
<1>2. Len(m_arrivedCommands) \in Nat /\ Len(m_arrivedCommands) > 0 /\ r = m_arrivedCommands[1]
  BY <1>1, TailFacts
<1>3. Traceable(r)
  BY <1>2 DEF IInv, RequestsInv
<1>4. r.dscr \in Descriptors /\ peer[r.dscr] = c /\ r.dscr # 0
  BY <1>3, GatewayAssumption DEF Traceable
<1>5. inbox' = [inbox EXCEPT ![c] = Append(@, r.asker)]
  BY <1>1, <1>4, GatewayAssumption DEF setOutcomingMessage
<1>6. inbox \in [Clients -> Seq(Clients)]
  BY DEF IInv, TypeOK
<1>7. inbox'[c] = Append(inbox[c], c)
  BY <1>5, <1>6
<1>8. inbox[c] \in Seq(Clients)
  BY <1>6
<1>9. Len(Append(inbox[c], c)) = Len(inbox[c]) + 1 /\ Len(inbox[c]) \in Nat
  BY <1>8, AppendFacts
<1>10. Append(inbox[c], c) # <<>>
  BY <1>9
<1> QED
  BY <1>7, <1>10

\* What a client waits for goes from its socket to the poller, to the main loop and
\* back, and is dropped by none of them.
LEMMA RequestsAreKept ==
  ASSUME IInv, KeepsClients, KeepsRequests, [Next]_vars
  PROVE  KeepsRequests'
<1> USE GatewayAssumption DEF IInv, Alive, KeepsRequests, UnderWay, clientVars, serverVars
<1>1. ASSUME NEW c \in Clients, Connect(c) \/ Leave(c) PROVE KeepsRequests'
  BY <1>1 DEF Connect, Leave, TypeOK
<1>2. ASSUME NEW c \in Clients, Ask(c) PROVE KeepsRequests'
  BY <1>2 DEF Ask, TypeOK
<1>3. ASSUME NEW c \in Clients, Receive(c) PROVE KeepsRequests'
  BY <1>3 DEF Receive, TypeOK
<1>4. CASE threadNetworkCallbacks \/ Accept \/ SelectClient \/ Timeout \/ Close \/ shutdown
  <2>1. UNCHANGED <<client, outbox, inbox, request, m_arrivedCommands>>
    BY <1>4 DEF threadNetworkCallbacks, Accept, SelectClient, Timeout, Close, shutdown
  <2> QED
    BY <2>1
<1>5. CASE Recv
  <2> DEFINE c == peer[m_clientSocketDscr]
  <2>1. /\ UNCHANGED <<client, inbox, m_arrivedCommands>>
        /\ \/ /\ outbox' = [outbox EXCEPT ![c] = FALSE]
              /\ request' = <<[asker |-> c, dscr |-> m_clientSocketDscr]>>
           \/ UNCHANGED <<outbox, request>>
    BY <1>5 DEF Recv
  <2>2. request = <<>>
    BY <1>5 DEF Recv, ServerInv
  <2>3. ASSUME request' = <<[asker |-> c, dscr |-> m_clientSocketDscr]>>
        PROVE  Len(request') = 1 /\ request'[1].asker = c
    BY <2>3
  <2> HIDE DEF c
  <2>4. \A e \in Clients : e # c => outbox'[e] = outbox[e]
    BY <2>1 DEF TypeOK
  <2>5. ASSUME NEW e \in Clients \ Garbled, client[e] = "waiting" PROVE UnderWay(e)'
    <3>1. UnderWay(e)
      BY <2>5
    <3>2. CASE UNCHANGED <<outbox, request>>
      BY <2>1, <3>1, <3>2
    <3>3. CASE request' = <<[asker |-> c, dscr |-> m_clientSocketDscr]>>
      <4>1. Len(request') = 1 /\ request'[1].asker = c
        BY <2>3, <3>3
      <4>2. CASE e = c
        BY <4>1, <4>2
      <4>3. CASE e # c
        BY <2>1, <2>2, <2>4, <3>1, <4>3
      <4> QED
        BY <4>2, <4>3
    <3> QED
      BY <2>1, <3>2, <3>3
  <2> QED
    BY <2>1, <2>5
<1>6. CASE callbackNetworkRequest
  <2> DEFINE r == Head(request)
  <2>1. request \in Seq(Request) /\ m_arrivedCommands \in Seq(Request)
    BY DEF TypeOK
  <2>2. Len(request) = 1
    BY <1>6 DEF callbackNetworkRequest, ServerInv
  <2>3. r = request[1] /\ r \in Request
    <3>1. request # <<>>
      BY <2>2
    <3> QED
      BY <2>1, <3>1, TailFacts
  <2>4. /\ Len(request) = 1 /\ r = request[1] /\ r \in Request
        /\ m_arrivedCommands' = IF r.asker \in Garbled THEN m_arrivedCommands
                                                       ELSE Append(m_arrivedCommands, r)
        /\ UNCHANGED <<client, outbox, inbox>>
        /\ m_arrivedCommands \in Seq(Request)
    <3>1. /\ m_arrivedCommands' = IF r.asker \in Garbled THEN m_arrivedCommands
                                                         ELSE Append(m_arrivedCommands, r)
          /\ UNCHANGED <<client, outbox, inbox>>
      BY <1>6 DEF callbackNetworkRequest
    <3> QED
      BY <2>1, <2>2, <2>3, <3>1
  <2> HIDE DEF r
  <2>5. r.asker \notin Garbled =>
          /\ Len(m_arrivedCommands) \in Nat
          /\ Len(m_arrivedCommands') = Len(m_arrivedCommands) + 1
          /\ \A i \in 1 .. Len(m_arrivedCommands) : m_arrivedCommands'[i] = m_arrivedCommands[i]
          /\ m_arrivedCommands'[Len(m_arrivedCommands) + 1] = r
    BY <2>4, AppendFacts
  <2>6. ASSUME NEW e \in Clients \ Garbled, UnderWay(e) PROVE UnderWay(e)'
    <3>1. CASE \E i \in 1 .. Len(request) : request[i].asker = e
      <4>1. r.asker = e
        BY <2>4, <3>1
      <4> QED
        BY <2>5, <4>1
    <3>2. CASE \E i \in 1 .. Len(m_arrivedCommands) : m_arrivedCommands[i].asker = e
      BY <2>4, <2>5, <3>2
    <3>3. CASE outbox[e] \/ inbox[e] # <<>>
      BY <2>4, <3>3
    <3> QED
      BY <2>6, <3>1, <3>2, <3>3
  <2> QED
    BY <2>4, <2>6
<1>7. CASE init
  BY <1>7 DEF init, KeepsClients
<1>8. CASE nextIncomingCommand
  <2>1. /\ m_arrivedCommands' = Tail(m_arrivedCommands) /\ m_arrivedCommands # <<>>
        /\ m_arrivedCommands \in Seq(Request)
        /\ UNCHANGED <<client, outbox, request>>
    BY <1>8 DEF nextIncomingCommand, TypeOK
  <2>2. /\ Len(m_arrivedCommands) \in Nat /\ Len(m_arrivedCommands) > 0
        /\ Head(m_arrivedCommands) = m_arrivedCommands[1]
        /\ Len(m_arrivedCommands') = Len(m_arrivedCommands) - 1
        /\ \A i \in 1 .. Len(m_arrivedCommands) - 1 :
             m_arrivedCommands'[i] = m_arrivedCommands[i + 1]
    BY <2>1, TailFacts
  <2>3. \A c \in Clients : inbox[c] # <<>> => inbox'[c] # <<>>
    <3>1. inbox \in [Clients -> Seq(Clients)]
      BY DEF TypeOK
    <3>2. \/ UNCHANGED inbox
          \/ \E to \in Clients : \E x : inbox' = [inbox EXCEPT ![to] = Append(@, x)]
      BY <1>8 DEF nextIncomingCommand, setOutcomingMessage
    <3>3. \A q \in Seq(Clients) : \A x : Append(q, x) # <<>>
      OBVIOUS
    <3> QED
      BY <3>1, <3>2, <3>3
  <2>4. ASSUME NEW c \in Clients \ Garbled, client[c] = "waiting" PROVE UnderWay(c)'
    <3>1. UnderWay(c)
      BY <2>4
    <3>2. CASE outbox[c] \/ inbox[c] # <<>> \/ \E i \in 1 .. Len(request) : request[i].asker = c
      BY <2>1, <2>3, <3>2
    <3>3. ASSUME NEW i \in 1 .. Len(m_arrivedCommands), m_arrivedCommands[i].asker = c
          PROVE  UnderWay(c)'
      <4>1. CASE i = 1
        <5>1. inbox'[c] # <<>>
          BY <1>8, <2>2, <2>4, <3>3, <4>1, ExecutedIsAnswered
        <5> QED
          BY <5>1
      <4>2. CASE i # 1
        <5>1. i - 1 \in 1 .. Len(m_arrivedCommands) - 1 /\ (i - 1) + 1 = i
          BY <2>2, <4>2
        <5>2. m_arrivedCommands'[i - 1].asker = c
          BY <2>2, <3>3, <5>1
        <5> QED
          BY <2>2, <5>1, <5>2
      <4> QED
        BY <4>1, <4>2
    <3> QED
      BY <3>1, <3>2, <3>3
  <2> QED
    BY <2>1, <2>4
<1>9. CASE ShutdownDone
  BY <1>9 DEF ShutdownDone, TypeOK
<1>10. CASE UNCHANGED vars
  BY <1>10 DEF vars
<1> QED
  BY <1>1, <1>2, <1>3, <1>4, <1>5, <1>6, <1>7, <1>8, <1>9, <1>10 DEF Next, runNetworkCallbacks

\* Who waits for an answer is connected and has a request or an answer under way, for
\* any number of clients, requests and descriptors, whichever others leave when
\* (runNetworkCallbacks, callbackNetworkRequest, setOutcomingMessage).
THEOREM RequestsAreNotLost == Spec => []NoRequestIsLost
<1>1. Init => KeepsClients /\ KeepsRequests
  BY DEF Init, KeepsClients, KeepsRequests
<1>2. IInv /\ KeepsClients /\ KeepsRequests /\ [Next]_vars => (KeepsClients /\ KeepsRequests)'
  BY ClientsAreKept, RequestsAreKept
<1>3. KeepsClients /\ KeepsRequests => NoRequestIsLost
  BY DEF KeepsClients, KeepsRequests, Connected, UnderWay, NoRequestIsLost
<1> QED
  BY <1>1, <1>2, <1>3, Invariance, PTL DEF Spec

=============================================================================
