------------------------ MODULE CommunicationGateway ------------------------
(***************************************************************************)
(* The gateway (communication_gateway_facade.cpp) with the server side of  *)
(* the shell (shell.cpp), its unix socket: clients connect and ask, a      *)
(* thread polls the socket and queues a command for each request, and the  *)
(* application's main loop executes the commands, which answer to the      *)
(* descriptor their request came by.                                       *)
(*                                                                         *)
(* The server has one client at a time; others wait in the backlog.  A     *)
(* client (another process) asks and waits for the answer, but may be      *)
(* stopped at any time.  The socket is the only network: without the web   *)
(* server, whose library ignores SIGPIPE for the whole process, a reply to *)
(* a client that has gone ends the service.                                *)
(***************************************************************************)
EXTENDS Integers, Sequences, FiniteSets

CONSTANTS
  Clients,             \* connections that clients make
  Descriptors,         \* numbers the kernel may give to accepted sockets
  RequestsFromWAL,     \* requests to be repeated, a sequence
  RequestsFromConfig,  \* requests of the configuration, a sequence
  Garbled,             \* clients of whose requests the factory makes no command
  NoClient,            \* the other end of a descriptor that is not open
  MaxAsks              \* bound on the requests over one connection

Replayed == RequestsFromWAL \o RequestsFromConfig

ReplayedNames == {Replayed[i] : i \in 1 .. Len(Replayed)}

ASSUME GatewayAssumption ==
  /\ IsFiniteSet(Descriptors) /\ Descriptors \subseteq Nat \ {0}
  /\ RequestsFromWAL \in Seq(ReplayedNames) /\ RequestsFromConfig \in Seq(ReplayedNames)
  /\ ReplayedNames \intersect Clients = {}
  /\ NoClient \notin Clients
  /\ MaxAsks \in Nat

\* A request knows the descriptor it came by; one that is replayed has none.
Request == [asker : Clients \union ReplayedNames, dscr : {0} \union Descriptors]

VARIABLES
  asyncNetwork,       \* SInitSettings: a thread of the gateway polls, or the main loop
  service,            \* "new", "up", "closing" (m_shutdownCalled), "down", "killed"
  client,             \* what each client does
  asks,               \* how often it has asked
  outbox,             \* whether its socket holds a request nobody has read
  inbox,              \* answers its socket holds: whose they are
  backlog,            \* connections that wait to be accepted
  peer,               \* client at the other end of each open descriptor
  m_clientSocketDscr, \* descriptor of the current client, or 0
  poller,             \* where the polling of the socket is
  request,            \* requests in the hand of the poller: none or one
  m_arrivedCommands,  \* commands, each with its request
  answers,            \* history: who was sent whose answer
  impatient           \* history: clients that left without their answer

clientVars == <<client, asks, outbox, inbox, impatient>>
serverVars == <<backlog, peer, m_clientSocketDscr, poller, request>>
vars == <<asyncNetwork, service, clientVars, serverVars, m_arrivedCommands, answers>>

TypeOK ==
  /\ asyncNetwork \in BOOLEAN
  /\ service \in {"new", "up", "closing", "down", "killed"}
  /\ client \in [Clients -> {"away", "idle", "waiting", "left"}]
  /\ asks \in [Clients -> 0 .. MaxAsks]
  /\ outbox \in [Clients -> BOOLEAN]
  /\ inbox \in [Clients -> Seq(Clients)]
  /\ backlog \in Seq(Clients)
  /\ peer \in [Descriptors -> Clients \union {NoClient}]
  /\ m_clientSocketDscr \in {0} \union Descriptors
  /\ poller \in {"top", "select", "recv", "callback", "close", "stopped"}
  /\ request \in Seq(Request)
  /\ m_arrivedCommands \in Seq(Request)
  /\ answers \subseteq Clients \X Clients
  /\ impatient \subseteq Clients

Init ==
  /\ asyncNetwork \in BOOLEAN
  /\ service = "new"
  /\ client = [c \in Clients |-> "away"]
  /\ asks = [c \in Clients |-> 0]
  /\ outbox = [c \in Clients |-> FALSE]
  /\ inbox = [c \in Clients |-> <<>>]
  /\ backlog = <<>>
  /\ peer = [d \in Descriptors |-> NoClient]
  /\ m_clientSocketDscr = 0
  /\ poller = "top" /\ request = <<>>
  /\ m_arrivedCommands = <<>>
  /\ answers = {} /\ impatient = {}

Alive == service \in {"up", "closing"}

-----------------------------------------------------------------------------
(* The gateway starts: the requests of the journal, then those of the      *)
(* configuration, then the socket and the thread.                          *)

init ==
  /\ service = "new"
  /\ service' = "up"
  /\ m_arrivedCommands' = [i \in 1 .. Len(Replayed) |-> [asker |-> Replayed[i], dscr |-> 0]]
  /\ UNCHANGED <<asyncNetwork, clientVars, serverVars, answers>>

-----------------------------------------------------------------------------
(* Clients.                                                                *)

Connect(c) ==
  /\ Alive /\ client[c] = "away"
  /\ client' = [client EXCEPT ![c] = "idle"]
  /\ backlog' = Append(backlog, c)
  /\ UNCHANGED <<asyncNetwork, service, asks, outbox, inbox, impatient, peer, m_clientSocketDscr,
                 poller, request, m_arrivedCommands, answers>>

\* makeBlockedRequest: send, accepted or not.
Ask(c) ==
  /\ Alive /\ client[c] = "idle" /\ asks[c] < MaxAsks
  /\ client' = [client EXCEPT ![c] = "waiting"]
  /\ asks' = [asks EXCEPT ![c] = @ + 1]
  /\ outbox' = [outbox EXCEPT ![c] = TRUE]
  /\ UNCHANGED <<asyncNetwork, service, inbox, impatient, serverVars, m_arrivedCommands, answers>>

\* makeBlockedRequest: recv takes whatever there is for an answer.
Receive(c) ==
  /\ Alive /\ client[c] = "waiting" /\ inbox[c] # <<>>
  /\ client' = [client EXCEPT ![c] = "idle"]
  /\ inbox' = [inbox EXCEPT ![c] = Tail(@)]
  /\ UNCHANGED <<asyncNetwork, service, asks, outbox, impatient, serverVars, m_arrivedCommands,
                 answers>>

Leave(c) ==
  /\ Alive /\ client[c] \in {"idle", "waiting"}
  /\ client' = [client EXCEPT ![c] = "left"]
  /\ impatient' = IF client[c] = "waiting" THEN impatient \union {c} ELSE impatient
  /\ UNCHANGED <<asyncNetwork, service, asks, outbox, inbox, serverVars, m_arrivedCommands,
                 answers>>

-----------------------------------------------------------------------------
(* Shell::runNetworkCallbacks, one pass.                                   *)

\* The select on the descriptor returns: a request, or the end of the stream.
Readable(c) == outbox[c] \/ client[c] = "left"

\* A faulty variant: the thread stays as long as it has a client.
StayWithClient ==
  /\ poller = "top"
  /\ poller' = IF service = "up" \/ (asyncNetwork /\ m_clientSocketDscr # 0) THEN "select"
                                                                            ELSE "stopped"
  /\ Alive
  /\ UNCHANGED <<asyncNetwork, service, clientVars, backlog, peer, m_clientSocketDscr, request,
                 m_arrivedCommands, answers>>

\* The head of threadNetworkCallbacks' loop, or a call of runNetworkCallbacks by
\* the main loop, which makes none once it has called shutdown.
threadNetworkCallbacks ==
  /\ poller = "top"
  /\ \/ service = "up" /\ poller' = "select"
     \/ service = "closing" /\ poller' = "stopped"
  /\ UNCHANGED <<asyncNetwork, service, clientVars, backlog, peer, m_clientSocketDscr, request,
                 m_arrivedCommands, answers>>

\* The first half with no current client.  The recv that follows blocks.
Accept ==
  /\ Alive /\ poller = "select" /\ m_clientSocketDscr = 0 /\ backlog # <<>>
  /\ \E d \in {e \in Descriptors : peer[e] = NoClient} :
       /\ peer' = [peer EXCEPT ![d] = Head(backlog)]
       /\ m_clientSocketDscr' = d
  /\ backlog' = Tail(backlog)
  /\ poller' = "recv"
  /\ UNCHANGED <<asyncNetwork, service, clientVars, request, m_arrivedCommands, answers>>

\* A faulty variant: the select looks at the server's descriptor.
SelectServer ==
  /\ Alive /\ poller = "select" /\ m_clientSocketDscr # 0
  /\ backlog # <<>>
  /\ poller' = "recv"
  /\ UNCHANGED <<asyncNetwork, service, clientVars, backlog, peer, m_clientSocketDscr, request,
                 m_arrivedCommands, answers>>

\* The first half with a current client.
SelectClient ==
  /\ Alive /\ poller = "select" /\ m_clientSocketDscr # 0
  /\ Readable(peer[m_clientSocketDscr])
  /\ poller' = "recv"
  /\ UNCHANGED <<asyncNetwork, service, clientVars, backlog, peer, m_clientSocketDscr, request,
                 m_arrivedCommands, answers>>

\* A faulty variant: a client that is silent for a while is given up.
DropSilent ==
  /\ Alive /\ poller = "select"
  /\ IF m_clientSocketDscr = 0 THEN backlog = <<>> ELSE ~ Readable(peer[m_clientSocketDscr])
  /\ poller' = "top"
  /\ IF m_clientSocketDscr = 0
       THEN UNCHANGED <<peer, m_clientSocketDscr>>
       ELSE peer' = [peer EXCEPT ![m_clientSocketDscr] = NoClient] /\ m_clientSocketDscr' = 0
  /\ UNCHANGED <<asyncNetwork, service, clientVars, backlog, request, m_arrivedCommands, answers>>

\* Either select runs out of time.
Timeout ==
  /\ Alive /\ poller = "select"
  /\ IF m_clientSocketDscr = 0 THEN backlog = <<>> ELSE ~ Readable(peer[m_clientSocketDscr])
  /\ poller' = "top"
  /\ UNCHANGED <<asyncNetwork, service, clientVars, backlog, peer, m_clientSocketDscr, request,
                 m_arrivedCommands, answers>>

\* A request, or the end of the connection.  An error of recv is left out: it is
\* logged, the descriptor is kept, and the next pass asks again.
Recv ==
  /\ Alive /\ poller = "recv"
  /\ LET c == peer[m_clientSocketDscr] IN
       \/ /\ outbox[c]
          /\ outbox' = [outbox EXCEPT ![c] = FALSE]
          /\ request' = <<[asker |-> c, dscr |-> m_clientSocketDscr]>>
          /\ poller' = "callback"
       \/ /\ ~ outbox[c] /\ client[c] = "left"
          /\ poller' = "close"
          /\ UNCHANGED <<outbox, request>>
  /\ UNCHANGED <<asyncNetwork, service, client, asks, inbox, impatient, backlog, peer,
                 m_clientSocketDscr, m_arrivedCommands, answers>>

\* A faulty variant: a request is refused while a command waits.
OneCommandAtATime ==
  /\ Alive /\ poller = "callback"
  /\ m_arrivedCommands' = IF Head(request).asker \in Garbled \/ m_arrivedCommands # <<>>
                            THEN m_arrivedCommands
                            ELSE Append(m_arrivedCommands, Head(request))
  /\ request' = <<>>
  /\ poller' = "top"
  /\ UNCHANGED <<asyncNetwork, service, clientVars, backlog, peer, m_clientSocketDscr, answers>>

\* CommunicationGatewayFacade::callbackNetworkRequest
callbackNetworkRequest ==
  /\ Alive /\ poller = "callback"
  /\ m_arrivedCommands' = IF Head(request).asker \in Garbled
                            THEN m_arrivedCommands
                            ELSE Append(m_arrivedCommands, Head(request))
  /\ request' = <<>>
  /\ poller' = "top"
  /\ UNCHANGED <<asyncNetwork, service, clientVars, backlog, peer, m_clientSocketDscr, answers>>

\* A faulty variant: no descriptor is -1 here, and 0 elsewhere.
CloseToInvalid ==
  /\ Alive /\ poller = "close"
  /\ peer' = [peer EXCEPT ![m_clientSocketDscr] = NoClient]
  /\ m_clientSocketDscr' = -1
  /\ poller' = "top"
  /\ UNCHANGED <<asyncNetwork, service, clientVars, backlog, request, m_arrivedCommands, answers>>

\* The end of the stream was seen a second ago.
Close ==
  /\ Alive /\ poller = "close"
  /\ peer' = [peer EXCEPT ![m_clientSocketDscr] = NoClient]
  /\ m_clientSocketDscr' = 0
  /\ poller' = "top"
  /\ UNCHANGED <<asyncNetwork, service, clientVars, backlog, request, m_arrivedCommands, answers>>

-----------------------------------------------------------------------------
(* The main loop.                                                          *)

\* The main loop is its own master, except while it is polling itself.
MainIsFree == service = "up" /\ (asyncNetwork \/ poller = "top")

\* ShellRequest::setOutcomingMessage: send by the number of the descriptor.  A
\* replayed request answers nobody; a number that is closed only logs an error.  So
\* would a client that has gone, if the web server ran (mg_mgr_init ignores SIGPIPE).
setOutcomingMessage(r) ==
  LET to == IF r.dscr = 0 THEN NoClient ELSE peer[r.dscr] IN
    \/ /\ to = NoClient
       /\ UNCHANGED <<service, inbox, answers>>
    \/ /\ to \in Clients /\ client[to] # "left"
       /\ inbox' = [inbox EXCEPT ![to] = Append(@, r.asker)]
       /\ answers' = answers \union {<<to, r.asker>>}
       /\ UNCHANGED service
    \/ /\ to \in Clients /\ client[to] = "left"   \* SIGPIPE
       /\ service' = "killed"
       /\ UNCHANGED <<inbox, answers>>

\* A faulty variant: the newest command is taken.
NewestCommand ==
  /\ MainIsFree /\ m_arrivedCommands # <<>>
  /\ setOutcomingMessage(m_arrivedCommands[Len(m_arrivedCommands)])
  /\ m_arrivedCommands' = SubSeq(m_arrivedCommands, 1, Len(m_arrivedCommands) - 1)
  /\ UNCHANGED <<asyncNetwork, client, asks, outbox, impatient, serverVars>>

\* A faulty variant: the command stays for a second time.
CommandTwice ==
  /\ MainIsFree /\ m_arrivedCommands # <<>>
  /\ setOutcomingMessage(Head(m_arrivedCommands))
  /\ m_arrivedCommands' \in {m_arrivedCommands, Tail(m_arrivedCommands)}
  /\ UNCHANGED <<asyncNetwork, client, asks, outbox, impatient, serverVars>>

\* isCommandAvailable, nextIncomingCommand, and the execution of the command.
nextIncomingCommand ==
  /\ MainIsFree /\ m_arrivedCommands # <<>>
  /\ setOutcomingMessage(Head(m_arrivedCommands))
  /\ m_arrivedCommands' = Tail(m_arrivedCommands)
  /\ UNCHANGED <<asyncNetwork, client, asks, outbox, impatient, serverVars>>

shutdown ==
  /\ MainIsFree
  /\ service' = "closing"
  /\ UNCHANGED <<asyncNetwork, clientVars, serverVars, m_arrivedCommands, answers>>

\* The thread has been joined; ~Shell closes the current client's descriptor and
\* the server's, which resets the connections in the backlog.
ShutdownDone ==
  /\ service = "closing" /\ poller = "stopped"
  /\ service' = "down"
  /\ peer' = [d \in Descriptors |-> NoClient]
  /\ backlog' = <<>>
  /\ client' = [c \in Clients |-> IF client[c] \in {"idle", "waiting"} THEN "left" ELSE client[c]]
  /\ UNCHANGED <<asyncNetwork, asks, outbox, inbox, impatient, m_clientSocketDscr, poller, request,
                 m_arrivedCommands, answers>>

-----------------------------------------------------------------------------
runNetworkCallbacks ==
  \/ threadNetworkCallbacks
  \/ Accept
  \/ SelectClient
  \/ Timeout
  \/ Recv
  \/ callbackNetworkRequest
  \/ Close

Next ==
  \/ init
  \/ \E c \in Clients : Connect(c) \/ Ask(c) \/ Receive(c) \/ Leave(c)
  \/ runNetworkCallbacks
  \/ nextIncomingCommand
  \/ shutdown
  \/ ShutdownDone

\* A client reads its answer; with nothing to wait for, it asks or leaves in the
\* end, and so it does if no answer will ever come.
ClientGoesOn(c) ==
  /\ WF_vars(Receive(c))
  /\ WF_vars(Ask(c) \/ ((client[c] = "idle" \/ c \in Garbled) /\ Leave(c)))

\* The main loop polls, if there is no thread for it, and executes commands, in
\* turns: neither keeps the other from its turn for ever.
Fairness ==
  /\ WF_vars(runNetworkCallbacks)
  /\ SF_vars(nextIncomingCommand)
  /\ WF_vars(ShutdownDone)
  /\ \A c \in Clients : ClientGoesOn(c)

Spec == Init /\ [][Next]_vars /\ Fairness

-----------------------------------------------------------------------------
(* What the gateway promises.                                              *)

\* An answer is sent to the client that asked, unless that one has gone and the
\* number of its descriptor is another's (setOutcomingMessage answers to a number).
AnswersReachTheAsker ==
  \A a \in answers : a[1] = a[2] \/ client[a[2]] = "left"

\* No request of a client is answered while one of the journal or of the
\* configuration waits (init fills the queue before there is a socket).
ReplayedComeFirst ==
  answers # {} => \A i \in 1 .. Len(m_arrivedCommands) : m_arrivedCommands[i].asker \in Clients

\* The service is only killed by an answer nobody waited for (SIGPIPE in
\* sendWithoutSize, while no web server runs): clients that wait for theirs never
\* end it.
KilledByTheImpatient == service = "killed" => impatient # {}

\* Who waits is connected, and what it waits for is somewhere: its request in its
\* socket, with the poller or among the commands, or an answer in its socket.  No client
\* that waits is dropped, and no request on its way to the main loop and back
\* (m_clientSocketDscr, m_arrivedCommands), whoever else leaves.
NoRequestIsLost ==
  \A c \in Clients \ Garbled : client[c] = "waiting" =>
    /\ \/ \E i \in 1 .. Len(backlog) : backlog[i] = c
       \/ \E d \in Descriptors : peer[d] = c
    /\ \/ outbox[c] \/ inbox[c] # <<>>
       \/ \E i \in 1 .. Len(request) : request[i].asker = c
       \/ \E i \in 1 .. Len(m_arrivedCommands) : m_arrivedCommands[i].asker = c

\* Who asks and waits is answered, also from the backlog, whatever the others do
\* (one client at a time: m_clientSocketDscr is given up when the client leaves).
AskedIsAnswered ==
  \A c \in Clients \ Garbled :
    (service = "up" /\ client[c] = "waiting") ~> (client[c] # "waiting" \/ service # "up")

\* shutdown returns: the thread sees the flag, even out of the recv that blocks.
ShutdownReturns == (service = "closing") ~> (service = "down")

=============================================================================
