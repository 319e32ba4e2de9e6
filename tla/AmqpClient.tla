---------------------------- MODULE AmqpClient ----------------------------
(***************************************************************************)
(* Requests and responses over AMQP (communication/amqp_client_c.cpp).     *)
(* Everything that arrives in the mailbox is told apart by its correlation *)
(* id alone: it is a response when the table of expected responses has an  *)
(* entry for the id, and a request of the other side when it has none.     *)
(*                                                                         *)
(* The threads that send and check and the one that polls share the table  *)
(* without a lock: what one of them finds there may be gone when it acts   *)
(* on it.  A correlation id stands for the request that was given it, and  *)
(* is never given twice.                                                   *)
(***************************************************************************)
EXTENDS Naturals

CONSTANTS
  Asynchronous,  \* requests sent by sendMessageAsync
  Blocking,      \* requests sent by setOutcomingMessage
  Initiatives,   \* requests of the other side
  NoRequest,
  MaxReplies     \* bound on the replies to one request

Requests == Asynchronous \union Blocking
Ids == Requests \union Initiatives

ASSUME IdsAreUnique ==
  /\ Asynchronous \intersect Blocking = {}
  /\ Initiatives \intersect Requests = {}
  /\ NoRequest \notin Ids
  /\ MaxReplies \in Nat

VARIABLES
  readyResponses,  \* m_readyResponsesToAsyncMessages: no entry, an empty one, a reply
  refused,         \* m_refusedMessages
  sending,         \* whoever holds m_muSendAsync between publishing and the entry
  call,            \* how far the sender of each request is with it
  handed,          \* request objects the observers have and have not replied to
  polling,         \* how far poll is with a message whose id it found in the table
  polled,          \* the id
  atPeer,          \* requests on their way to the other side or in its hands
  inbox,           \* messages in the own mailbox
  replies          \* history: replies, or requests, the other side has sent

pollVars == <<polling, polled>>
clientVars == <<readyResponses, refused, sending, call, handed, pollVars>>
peerVars == <<atPeer, inbox, replies>>
vars == <<clientVars, peerVars>>

TypeOK ==
  /\ readyResponses \in [Ids -> {"none", "empty", "reply"}]
  /\ refused \subseteq Asynchronous
  /\ sending \in Ids \union {NoRequest}
  /\ call \in [Requests -> {"new", "performing", "available", "answered",
                            "timeouted", "waiting", "ended"}]
  /\ handed \subseteq Ids
  /\ polling \in {"no", "found", "store", "refuse"}
  /\ polled \in Ids \union {NoRequest}
  /\ polling # "no" => polled # NoRequest
  /\ atPeer \subseteq Requests
  /\ inbox \in [Ids -> Nat]
  /\ replies \in [Ids -> 0 .. MaxReplies]

Init ==
  /\ readyResponses = [c \in Ids |-> "none"]
  /\ refused = {}
  /\ sending = NoRequest
  /\ call = [r \in Requests |-> "new"]
  /\ handed = {}
  /\ polling = "no" /\ polled = NoRequest
  /\ atPeer = {}
  /\ inbox = [c \in Ids |-> 0]
  /\ replies = [c \in Ids |-> 0]

-----------------------------------------------------------------------------
(* AmqpRequest and sendPackageAsync.                                       *)

\* Under m_muSendAsync, published and without an entry yet; a failure to publish
\* is only logged, and the requester gets the correlation id all the same.
sendMessageAsync(r) ==
  /\ call[r] = "new"
  /\ sending = NoRequest
  /\ call' = [call EXCEPT ![r] = "performing"]
  /\ \/ /\ sending' = r
        /\ atPeer' = atPeer \union {r}
     \/ UNCHANGED <<sending, atPeer>>
  /\ UNCHANGED <<readyResponses, refused, handed, pollVars, inbox, replies>>

\* The replier goes the same way, under the id of what it replies to.
reply(c) ==
  /\ c \in handed
  /\ sending = NoRequest
  /\ handed' = handed \ {c}
  /\ sending' \in {c, NoRequest}
  /\ UNCHANGED <<readyResponses, refused, call, pollVars, peerVars>>

\* A faulty variant: an assignment to the entry.
OverwriteEntry ==
  /\ sending # NoRequest
  /\ readyResponses' = [readyResponses EXCEPT ![sending] = "empty"]
  /\ sending' = NoRequest
  /\ UNCHANGED <<refused, call, handed, pollVars, peerVars>>

\* insert leaves an entry that is there alone.
InsertEntry ==
  /\ sending # NoRequest
  /\ readyResponses' = [readyResponses EXCEPT ![sending] =
                          IF @ = "none" THEN "empty" ELSE @]
  /\ sending' = NoRequest
  /\ UNCHANGED <<refused, call, handed, pollVars, peerVars>>

\* The caller has its thread back from sendMessageAsync and no answer yet.
Performing(r) == call[r] \in {"performing", "available"} /\ sending # r

\* A faulty variant: an entry is taken for a response.
AnyEntryIsReady(r) ==
  /\ Performing(r)
  /\ readyResponses[r] # "none"
  /\ call' = [call EXCEPT ![r] = "available"]
  /\ UNCHANGED <<readyResponses, refused, sending, handed, pollVars, peerVars>>

\* checkResponseReadyness returning true.
checkResponseReadyness(r) ==
  /\ Performing(r)
  /\ readyResponses[r] = "reply"
  /\ call' = [call EXCEPT ![r] = "available"]
  /\ UNCHANGED <<readyResponses, refused, sending, handed, pollVars, peerVars>>

\* A faulty variant: the entry goes with the request.
ForgetOnTimeout(r) ==
  /\ Performing(r)
  /\ refused' = refused \union {r}
  /\ call' = [call EXCEPT ![r] = "timeouted"]
  /\ readyResponses' = [readyResponses EXCEPT ![r] = "none"]
  /\ UNCHANGED <<sending, handed, pollVars, peerVars>>

\* A faulty variant: the correlation id is cleared before it is refused.
RefuseNothing(r) ==
  /\ Performing(r)
  /\ refused' = refused \union {NoRequest}
  /\ call' = [call EXCEPT ![r] = "timeouted"]
  /\ UNCHANGED <<readyResponses, sending, handed, pollVars, peerVars>>

\* checkResponseReadyness after deliveredMessageExpirationSec, whatever the table says.
RefuseOnTimeout(r) ==
  /\ Performing(r)
  /\ refused' = refused \union {r}
  /\ call' = [call EXCEPT ![r] = "timeouted"]
  /\ UNCHANGED <<readyResponses, sending, handed, pollVars, peerVars>>

\* Called, as it has to be, after checkResponseReadyness returned true.
getAsyncResponse(r) ==
  /\ call[r] = "available"
  /\ call' = [call EXCEPT ![r] = "answered"]
  /\ readyResponses' = [readyResponses EXCEPT ![r] = "none"]
  /\ UNCHANGED <<refused, sending, handed, pollVars, peerVars>>

-----------------------------------------------------------------------------
(* sendPackageBlocked.  Nobody enters its correlation id into the table.   *)

sendPackageBlocked(b) ==
  /\ call[b] = "new"
  /\ \A other \in Blocking : call[other] # "waiting"
  /\ \/ /\ call' = [call EXCEPT ![b] = "waiting"]
        /\ atPeer' = atPeer \union {b}
     \/ /\ call' = [call EXCEPT ![b] = "ended"]
        /\ UNCHANGED atPeer
  /\ UNCHANGED <<readyResponses, refused, sending, handed, pollVars, inbox, replies>>

\* wait_for is over: the notification could only have ended it sooner.
EndBlocked(b) ==
  /\ call[b] = "waiting"
  /\ call' = [call EXCEPT ![b] = IF readyResponses[b] = "reply" THEN "answered" ELSE "ended"]
  /\ readyResponses' = [readyResponses EXCEPT ![b] = "none"]
  /\ UNCHANGED <<refused, sending, handed, pollVars, peerVars>>

-----------------------------------------------------------------------------
(* poll, by threadReceiveLoop or runNetworkCallbacks.                      *)

\* The next message is taken when poll is through with the last one.
Consume(c) ==
  /\ polling = "no"
  /\ inbox[c] > 0
  /\ inbox' = [inbox EXCEPT ![c] = @ - 1]
  /\ UNCHANGED <<sending, call, atPeer, replies>>

\* An entry, empty or with an earlier reply: somebody is waiting, or was.
FindEntry(c) ==
  /\ Consume(c)
  /\ readyResponses[c] # "none"
  /\ polling' = "found" /\ polled' = c
  /\ UNCHANGED <<readyResponses, refused, handed>>

LookAtRefused ==
  /\ polling = "found"
  /\ polling' = IF polled \in refused THEN "refuse" ELSE "store"
  /\ UNCHANGED <<readyResponses, refused, sending, call, handed, polled, peerVars>>

\* operator[] makes the entry anew if it was taken meanwhile.
StoreResponse ==
  /\ polling = "store"
  /\ readyResponses' = [readyResponses EXCEPT ![polled] = "reply"]
  /\ polling' = "no" /\ polled' = NoRequest
  /\ UNCHANGED <<refused, sending, call, handed, peerVars>>

\* The entry stays.
RefuseResponse ==
  /\ polling = "refuse"
  /\ refused' = refused \ {polled}
  /\ polling' = "no" /\ polled' = NoRequest
  /\ UNCHANGED <<readyResponses, sending, call, handed, peerVars>>

HandToObservers(c) ==
  /\ Consume(c)
  /\ readyResponses[c] = "none"
  /\ handed' = handed \union {c}
  /\ UNCHANGED <<readyResponses, refused, pollVars>>

-----------------------------------------------------------------------------
(* The broker and the other side.                                          *)

PeerReplies(c) ==
  /\ c \in atPeer
  /\ replies[c] < MaxReplies
  /\ replies' = [replies EXCEPT ![c] = @ + 1]
  /\ inbox' = [inbox EXCEPT ![c] = @ + 1]
  /\ UNCHANGED <<clientVars, atPeer>>

PeerAsks(q) ==
  /\ replies[q] = 0 /\ MaxReplies > 0
  /\ replies' = [replies EXCEPT ![q] = 1]
  /\ inbox' = [inbox EXCEPT ![q] = 1]
  /\ UNCHANGED <<clientVars, atPeer>>

\* A message is dropped when it expires, or the other side is through with it.
ExpireAtPeer(c) ==
  /\ c \in atPeer
  /\ atPeer' = atPeer \ {c}
  /\ UNCHANGED <<clientVars, inbox, replies>>

ExpireInInbox(c) ==
  /\ inbox[c] > 0
  /\ inbox' = [inbox EXCEPT ![c] = @ - 1]
  /\ UNCHANGED <<clientVars, atPeer, replies>>

-----------------------------------------------------------------------------
Next ==
  \/ \E r \in Asynchronous :
       \/ sendMessageAsync(r)
       \/ checkResponseReadyness(r)
       \/ RefuseOnTimeout(r)
       \/ getAsyncResponse(r)
  \/ InsertEntry
  \/ LookAtRefused
  \/ StoreResponse
  \/ RefuseResponse
  \/ \E b \in Blocking : sendPackageBlocked(b) \/ EndBlocked(b)
  \/ \E c \in Ids :
       \/ reply(c)
       \/ FindEntry(c)
       \/ HandToObservers(c)
       \/ PeerReplies(c)
       \/ ExpireAtPeer(c)
       \/ ExpireInInbox(c)
  \/ \E q \in Initiatives : PeerAsks(q)

Spec == Init /\ [][Next]_vars

-----------------------------------------------------------------------------
(* What the client promises.                                               *)

Status(r) == IF call[r] = "available" THEN "performing" ELSE call[r]

\* AEnvironmentRequest: a request is answered or times out, once, and is answered
\* only by a reply of the other side, however many replies come and however late.
Promise ==
  INSTANCE AsyncRequests WITH
    Requests <- Asynchronous,
    status <- [r \in Asynchronous |-> Status(r)],
    replied <- {r \in Asynchronous : replies[r] > 0}

AnswersOnce == Promise!Spec

\* The assertion of getAsyncResponse (amqp_client_c.cpp:627), and more: once the
\* caller has been told that the response is there, it stays there, whatever the
\* polling thread and the repliers do to the table meanwhile.
ResponseIsThere ==
  \A r \in Asynchronous : call[r] = "available" => readyResponses[r] = "reply"

\* poll: a reply, on time or late, is never given to the observers as a request
\* of the other side, unless it beats the entry or repeats a reply that was
\* already collected.
AwaitedIsNotHanded ==
  [][\A r \in Asynchronous :
       r \notin handed /\ r \in handed' => sending = r \/ call[r] = "answered"]_vars

\* "(catched by server) initiative from other side" (amqp_client_c.cpp:448): what
\* the observers get are requests of the other side.
OnlyInitiativesAreHanded == handed \subseteq Initiatives

=============================================================================
