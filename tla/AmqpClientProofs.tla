-------------------------- MODULE AmqpClientProofs --------------------------
(***************************************************************************)
(* Theorems about AmqpClient for any sets of requests and any number of    *)
(* replies.                                                                *)
(***************************************************************************)
EXTENDS AmqpClient, TLAPS

(* Type correctness: what is refused is a request of the own side, and the *)
(* table holds nothing but the three kinds of entry.                       *)
THEOREM TypeCorrect == Spec => []TypeOK
<1>1. Init => TypeOK
  BY IdsAreUnique DEF Init, TypeOK, Ids, Requests
<1>2. TypeOK /\ [Next]_vars => TypeOK'
  <2> SUFFICES ASSUME TypeOK, [Next]_vars
               PROVE  TypeOK'
    OBVIOUS
  <2> USE IdsAreUnique DEF TypeOK, Ids, Requests, pollVars
  <2>1. ASSUME NEW r \in Asynchronous, sendMessageAsync(r)
        PROVE  TypeOK'
    BY <2>1 DEF sendMessageAsync
  <2>2. ASSUME NEW r \in Asynchronous,
               checkResponseReadyness(r) \/ RefuseOnTimeout(r) \/ getAsyncResponse(r)
        PROVE  TypeOK'
    BY <2>2 DEF checkResponseReadyness, RefuseOnTimeout, getAsyncResponse, peerVars
  <2>3. CASE InsertEntry
    BY <2>3 DEF InsertEntry, peerVars
  <2>4. ASSUME NEW b \in Blocking, sendPackageBlocked(b)
        PROVE  TypeOK'
    BY <2>4 DEF sendPackageBlocked
  <2>5. ASSUME NEW b \in Blocking, EndBlocked(b)
        PROVE  TypeOK'
    BY <2>5 DEF EndBlocked, peerVars
  <2>6. ASSUME NEW c \in Ids, reply(c)
        PROVE  TypeOK'
    BY <2>6 DEF reply, peerVars
  <2>7. ASSUME NEW c \in Ids, FindEntry(c) \/ HandToObservers(c)
        PROVE  TypeOK'
    BY <2>7 DEF FindEntry, HandToObservers, Consume
  <2>8. ASSUME NEW c \in Ids, PeerReplies(c) \/ ExpireAtPeer(c) \/ ExpireInInbox(c)
        PROVE  TypeOK'
    BY <2>8 DEF PeerReplies, ExpireAtPeer, ExpireInInbox, clientVars
  <2>9. ASSUME NEW q \in Initiatives, PeerAsks(q)
        PROVE  TypeOK'
    BY <2>9 DEF PeerAsks, clientVars
  <2>10. CASE LookAtRefused \/ StoreResponse \/ RefuseResponse
    BY <2>10 DEF LookAtRefused, StoreResponse, RefuseResponse, peerVars
  <2>11. CASE UNCHANGED vars
    BY <2>11 DEF vars, clientVars, peerVars
  <2>. QED
    BY <2>1, <2>2, <2>3, <2>4, <2>5, <2>6, <2>7, <2>8, <2>9, <2>10, <2>11 DEF Next
<1>. QED
  BY <1>1, <1>2, PTL DEF Spec

-----------------------------------------------------------------------------
(* The response that was promised to the caller.                           *)

(* Only its own caller takes a response away: the entry of another request *)
(* that is inserted, stored or taken does not matter, and an insert under  *)
(* the same id by a replier leaves the response alone.                     *)
LEMMA ResponseStep ==
  ASSUME TypeOK, ResponseIsThere, [Next]_vars
  PROVE  ResponseIsThere'
<1> USE IdsAreUnique DEF TypeOK, Ids, Requests, ResponseIsThere
<1>1. ASSUME NEW r \in Asynchronous, sendMessageAsync(r)
      PROVE  ResponseIsThere'
  BY <1>1 DEF sendMessageAsync
<1>2. ASSUME NEW r \in Asynchronous,
             checkResponseReadyness(r) \/ RefuseOnTimeout(r) \/ getAsyncResponse(r)
      PROVE  ResponseIsThere'
  BY <1>2 DEF checkResponseReadyness, RefuseOnTimeout, getAsyncResponse
<1>3. CASE InsertEntry
  BY <1>3 DEF InsertEntry
<1>4. ASSUME NEW b \in Blocking, sendPackageBlocked(b) \/ EndBlocked(b)
      PROVE  ResponseIsThere'
  BY <1>4 DEF sendPackageBlocked, EndBlocked
<1>5. ASSUME NEW c \in Ids, reply(c)
      PROVE  ResponseIsThere'
  BY <1>5 DEF reply
<1>6. ASSUME NEW c \in Ids, FindEntry(c) \/ HandToObservers(c)
      PROVE  ResponseIsThere'
  BY <1>6 DEF FindEntry, HandToObservers, Consume
<1>7. ASSUME NEW c \in Ids, PeerReplies(c) \/ PeerAsks(c) \/ ExpireAtPeer(c) \/ ExpireInInbox(c)
      PROVE  ResponseIsThere'
  BY <1>7 DEF PeerReplies, PeerAsks, ExpireAtPeer, ExpireInInbox, clientVars
<1>8. CASE LookAtRefused \/ StoreResponse \/ RefuseResponse
  BY <1>8 DEF LookAtRefused, StoreResponse, RefuseResponse
<1>9. CASE UNCHANGED vars
  BY <1>9 DEF vars, clientVars
<1>. QED
  BY <1>1, <1>2, <1>3, <1>4, <1>5, <1>6, <1>7, <1>8, <1>9 DEF Next

(* The assertion in getAsyncResponse (amqp_client_c.cpp:627) never fails   *)
(* for a caller that has been told that its response is there.             *)
THEOREM ResponseStays == Spec => []ResponseIsThere
<1>1. Init => ResponseIsThere
  BY IdsAreUnique DEF Init, ResponseIsThere, Requests
<1>2. TypeOK /\ ResponseIsThere /\ [Next]_vars => ResponseIsThere'
  BY ResponseStep
<1>. QED
  BY <1>1, <1>2, TypeCorrect, PTL DEF Spec

-----------------------------------------------------------------------------
(* Who gets a reply.                                                       *)

\* A request the other side may still reply to, or has replied to, is past
\* publishing; it has its entry unless its sender is just about to make it or has
\* collected an answer already.  What poll has in hand is a reply.
ReplyInvariant ==
  \A r \in Asynchronous :
    /\ r \in atPeer \/ inbox[r] > 0 \/ replies[r] > 0 \/ sending = r \/ r \in handed
         => call[r] # "new"
    /\ inbox[r] > 0 \/ readyResponses[r] = "reply" \/ r \in handed \/ polled = r
         => replies[r] > 0
    /\ r \in atPeer \/ inbox[r] > 0
         => sending = r \/ readyResponses[r] # "none" \/ call[r] = "answered"
    /\ call[r] \in {"new", "performing", "available", "answered", "timeouted"}

LEMMA ReplyInvariantStep ==
  ASSUME TypeOK, ReplyInvariant, [Next]_vars
  PROVE  ReplyInvariant'
<1> USE IdsAreUnique DEF TypeOK, Ids, Requests, ReplyInvariant, pollVars
<1>1. ASSUME NEW r \in Asynchronous, sendMessageAsync(r)
      PROVE  ReplyInvariant'
  BY <1>1 DEF sendMessageAsync
<1>2. ASSUME NEW r \in Asynchronous, checkResponseReadyness(r)
      PROVE  ReplyInvariant'
  BY <1>2 DEF checkResponseReadyness, Performing, peerVars
<1>3. ASSUME NEW r \in Asynchronous, RefuseOnTimeout(r)
      PROVE  ReplyInvariant'
  BY <1>3 DEF RefuseOnTimeout, Performing, peerVars
<1>4. ASSUME NEW r \in Asynchronous, getAsyncResponse(r)
      PROVE  ReplyInvariant'
  BY <1>4 DEF getAsyncResponse, peerVars
<1>5. CASE InsertEntry
  BY <1>5 DEF InsertEntry, peerVars
<1>6. ASSUME NEW b \in Blocking, sendPackageBlocked(b)
      PROVE  ReplyInvariant'
  BY <1>6 DEF sendPackageBlocked
<1>7. ASSUME NEW b \in Blocking, EndBlocked(b)
      PROVE  ReplyInvariant'
  BY <1>7 DEF EndBlocked, peerVars
<1>8. ASSUME NEW c \in Ids, reply(c)
      PROVE  ReplyInvariant'
  BY <1>8 DEF reply, peerVars
<1>9. ASSUME NEW c \in Ids, FindEntry(c) \/ HandToObservers(c)
      PROVE  ReplyInvariant'
  BY <1>9 DEF FindEntry, HandToObservers, Consume
<1>10. ASSUME NEW c \in Ids, PeerReplies(c)
       PROVE  ReplyInvariant'
  BY <1>10 DEF PeerReplies, clientVars
<1>11. ASSUME NEW q \in Initiatives, PeerAsks(q)
       PROVE  ReplyInvariant'
  BY <1>11 DEF PeerAsks, clientVars
<1>12. ASSUME NEW c \in Ids, ExpireAtPeer(c) \/ ExpireInInbox(c)
       PROVE  ReplyInvariant'
  BY <1>12 DEF ExpireAtPeer, ExpireInInbox, clientVars
<1>13. CASE LookAtRefused \/ StoreResponse \/ RefuseResponse
  BY <1>13 DEF LookAtRefused, StoreResponse, RefuseResponse, peerVars
<1>14. CASE UNCHANGED vars
  BY <1>14 DEF vars, clientVars, peerVars
<1>. QED
  BY <1>1, <1>2, <1>3, <1>4, <1>5, <1>6, <1>7, <1>8, <1>9, <1>10, <1>11, <1>12, <1>13, <1>14
     DEF Next

LEMMA ReplyInvariantHolds == Spec => []ReplyInvariant
<1>1. Init => ReplyInvariant
  BY IdsAreUnique DEF Init, ReplyInvariant, Ids, Requests
<1>2. TypeOK /\ ReplyInvariant /\ [Next]_vars => ReplyInvariant'
  BY ReplyInvariantStep
<1>. QED
  BY <1>1, <1>2, TypeCorrect, PTL DEF Spec

(* poll gives no reply to the observers that an asynchronous request is    *)
(* still there to receive or has given up: only one that comes before the  *)
(* entry, or after another was collected.                                  *)
THEOREM RepliesFindTheirRequest == Spec => AwaitedIsNotHanded
<1>1. ASSUME TypeOK, ReplyInvariant, [Next]_vars
      PROVE  \A r \in Asynchronous :
               r \notin handed /\ r \in handed' => sending = r \/ call[r] = "answered"
  <2> SUFFICES ASSUME NEW r \in Asynchronous, r \notin handed, r \in handed'
               PROVE  sending = r \/ call[r] = "answered"
    OBVIOUS
  <2>1. HandToObservers(r)
    <3>1. ASSUME NEW c \in Ids, HandToObservers(c)
          PROVE  HandToObservers(r)
      BY <3>1 DEF HandToObservers
    <3>2. ASSUME handed' \subseteq handed
          PROVE  FALSE
      BY <3>2
    <3>3. ASSUME NEW a \in Asynchronous,
                 \/ sendMessageAsync(a)
                 \/ checkResponseReadyness(a)
                 \/ RefuseOnTimeout(a)
                 \/ getAsyncResponse(a)
          PROVE  handed' \subseteq handed
      BY <3>3 DEF sendMessageAsync, checkResponseReadyness, RefuseOnTimeout, getAsyncResponse
    <3>4. ASSUME NEW b \in Blocking, sendPackageBlocked(b) \/ EndBlocked(b)
          PROVE  handed' \subseteq handed
      BY <3>4 DEF sendPackageBlocked, EndBlocked
    <3>5. ASSUME NEW c \in Ids,
                 \/ reply(c)
                 \/ FindEntry(c)
                 \/ PeerReplies(c)
                 \/ ExpireAtPeer(c)
                 \/ ExpireInInbox(c)
                 \/ PeerAsks(c)
          PROVE  handed' \subseteq handed
      BY <3>5 DEF reply, FindEntry, PeerReplies, ExpireAtPeer, ExpireInInbox, PeerAsks,
                  clientVars
    <3>6. CASE \/ InsertEntry
               \/ LookAtRefused
               \/ StoreResponse
               \/ RefuseResponse
               \/ UNCHANGED vars
      BY <3>2, <3>6 DEF InsertEntry, LookAtRefused, StoreResponse, RefuseResponse, vars,
                        clientVars
    <3>. QED
      BY <1>1, <3>1, <3>2, <3>3, <3>4, <3>5, <3>6 DEF Next, Ids
  <2>. QED
    BY <1>1, <2>1 DEF HandToObservers, Consume, ReplyInvariant
<1>. QED
  BY <1>1, TypeCorrect, ReplyInvariantHolds, PTL DEF Spec, AwaitedIsNotHanded

-----------------------------------------------------------------------------
(* The client implements the promise of AEnvironmentRequest.               *)

(* Every step of the client, the broker or the other side is a step of a   *)
(* request, or changes nothing that the requests show.                     *)
LEMMA EveryStep ==
  ASSUME TypeOK, ResponseIsThere, ReplyInvariant, [Next]_vars
  PROVE  [Promise!Next]_Promise!vars
<1> DEFINE status == [r \in Asynchronous |-> Status(r)]
           replied == {r \in Asynchronous : replies[r] > 0}
<1> USE IdsAreUnique DEF TypeOK, Ids, Requests
<1>1. ASSUME NEW r \in Asynchronous, sendMessageAsync(r)
      PROVE  Promise!Ask(r)
  BY <1>1 DEF sendMessageAsync, Promise!Ask, Status
<1>2. ASSUME NEW r \in Asynchronous, RefuseOnTimeout(r)
      PROVE  Promise!TimeOut(r)
  BY <1>2 DEF RefuseOnTimeout, Performing, peerVars, Promise!TimeOut, Status
<1>3. ASSUME NEW r \in Asynchronous, getAsyncResponse(r)
      PROVE  Promise!Answer(r)
  BY <1>3 DEF getAsyncResponse, peerVars, Promise!Answer, Status, ResponseIsThere,
              ReplyInvariant
<1>4. ASSUME NEW r \in Asynchronous, checkResponseReadyness(r)
      PROVE  UNCHANGED Promise!vars
  BY <1>4 DEF checkResponseReadyness, Performing, peerVars, Promise!vars, Status
<1>5. ASSUME NEW c \in Asynchronous, PeerReplies(c)
      PROVE  Promise!Reply(c)
  BY <1>5 DEF PeerReplies, clientVars, Promise!Reply, Status, ReplyInvariant
<1>6. ASSUME NEW c \in Ids \ Asynchronous, PeerReplies(c) \/ PeerAsks(c)
      PROVE  UNCHANGED Promise!vars
  BY <1>6 DEF PeerReplies, PeerAsks, clientVars, Promise!vars, Status
<1>7. ASSUME NEW b \in Blocking, sendPackageBlocked(b) \/ EndBlocked(b)
      PROVE  UNCHANGED Promise!vars
  BY <1>7 DEF sendPackageBlocked, EndBlocked, peerVars, Promise!vars, Status
<1>8. ASSUME UNCHANGED <<call, replies>>
      PROVE  UNCHANGED Promise!vars
  BY <1>8 DEF Promise!vars, Status
<1>9. ASSUME NEW c \in Ids,
             \/ reply(c)
             \/ FindEntry(c)
             \/ HandToObservers(c)
             \/ ExpireAtPeer(c)
             \/ ExpireInInbox(c)
      PROVE  UNCHANGED Promise!vars
  BY <1>8, <1>9 DEF reply, FindEntry, HandToObservers, Consume, ExpireAtPeer,
                    ExpireInInbox, clientVars, peerVars
<1>10. CASE UNCHANGED vars
  BY <1>8, <1>10 DEF vars, clientVars, peerVars
<1>11. CASE InsertEntry \/ LookAtRefused \/ StoreResponse \/ RefuseResponse
  BY <1>8, <1>11 DEF InsertEntry, LookAtRefused, StoreResponse, RefuseResponse, peerVars
<1>. QED
  BY <1>1, <1>2, <1>3, <1>4, <1>5, <1>6, <1>7, <1>9, <1>10, <1>11
     DEF Next, Promise!Next

(* A request is answered or times out, once, and is answered only by the   *)
(* other side: AmqpClient implements AsyncRequests.                        *)
THEOREM RequestsAreAnsweredOnce == Spec => AnswersOnce
<1>1. Init => Promise!Init
  BY IdsAreUnique DEF Init, Promise!Init, Status, Requests, Ids
<1>2. TypeOK /\ ResponseIsThere /\ ReplyInvariant /\ [Next]_vars
        => [Promise!Next]_Promise!vars
  BY EveryStep
<1>. QED
  BY <1>1, <1>2, TypeCorrect, ResponseStays, ReplyInvariantHolds, PTL
     DEF Spec, AnswersOnce, Promise!Spec

=============================================================================
