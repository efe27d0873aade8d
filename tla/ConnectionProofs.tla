--------------------------- MODULE ConnectionProofs ---------------------------
(***************************************************************************)
(* Proofs about PersistentConnection, for every set of tokens, any number  *)
(* of writes and any number of faults.                                     *)
(***************************************************************************)
EXTENDS PersistentConnection, SequenceTheorems, FiniteSetTheorems, TLAPS

(***************************************************************************)
(* The inductive invariant.                                                *)
(***************************************************************************)
\* The messages.
AuthRequests == [kind : {"auth"}, token : Tokens, restore : BOOLEAN]
PutRequests == [kind : {"put"}, index : Nat, as : Tokens \cup {None}]
Requests == AuthRequests \cup PutRequests \cup {unauthRequest}
Pushes == [request : [kind : {"revoked", "shutdown"}], status : {"push"}]
Replies == [request : AuthRequests \cup PutRequests, status : Status] \cup Pushes

WireType == toServer \in Seq(Requests) /\ toClient \in Seq(Replies)

\* The server has a credential only on a connection that is up.
SessionNeedsConnection == session # None => realtime = "connected"

\* The server has refused or revoked the credential.
Refused ==
  \E m \in DOMAIN toClient :
    \/ toClient[m].request.kind = "revoked"
    \/ toClient[m].request.kind = "auth" /\ toClient[m].status = "error"

\* The credential that a request sets or is tagged with.
Credential(r) ==
  IF r.kind = "auth" THEN r.token ELSE IF r.kind = "put" THEN r.as ELSE None

\* A put on its way is tagged with the credential that the request before it
\* leaves in force, and the client's token is what the last request leaves.
CredentialsAgree ==
  ~Refused =>
    /\ \A i \in DOMAIN toServer :
         toServer[i].kind = "put" =>
           toServer[i].as = IF i = 1 THEN session ELSE Credential(toServer[i - 1])
    /\ connected =>
         authToken = IF toServer = <<>> THEN session
                     ELSE Credential(toServer[Len(toServer)])

\* The request that restores the state of a connection is its first, and the
\* connection is authenticating exactly until it is answered; till then no put is
\* sent.
Restores(r) == r.kind = "auth" /\ r.restore

RestoreComesFirst ==
  /\ \A i \in DOMAIN toServer :
       Restores(toServer[i]) =>
         /\ i = 1 /\ connectionState = "Authenticating"
         /\ \A m \in DOMAIN toClient : toClient[m].request.kind \notin {"auth", "put"}
  /\ \A m \in DOMAIN toClient :
       Restores(toClient[m].request) =>
         /\ connectionState = "Authenticating"
         /\ \A n \in 1 .. m - 1 : toClient[n].request.kind \notin {"auth", "put"}
  /\ connectionState = "Authenticating" =>
       /\ \A i \in DOMAIN toServer : toServer[i].kind # "put"
       /\ \A m \in DOMAIN toClient : toClient[m].request.kind # "put"
       /\ \/ \E i \in DOMAIN toServer : Restores(toServer[i])
          \/ \E m \in DOMAIN toClient : Restores(toClient[m].request)

PutSent(i) == i \in DOMAIN toServer /\ toServer[i].kind = "put"
PutAnswered(m) == m \in DOMAIN toClient /\ toClient[m].request.kind = "put"

\* The outstanding writes are those after the completed ones.
OutstandingFollow == outstandingPuts = (Len(completions) + 1) .. (putCounter - 1)

\* The puts on their way are outstanding and in order, answers before requests;
\* a write that was answered with "ok" is stored, or a later one is.
PutsInOrder ==
  /\ \A i \in DOMAIN toServer : PutSent(i) => toServer[i].index \in outstandingPuts
  /\ \A m \in DOMAIN toClient :
       PutAnswered(m) =>
         /\ toClient[m].request.index \in outstandingPuts
         /\ toClient[m].status = "ok" => toClient[m].request.index <= stored
  /\ \A i, j \in DOMAIN toServer :
       PutSent(i) /\ PutSent(j) /\ i < j => toServer[i].index < toServer[j].index
  /\ \A m, n \in DOMAIN toClient :
       PutAnswered(m) /\ PutAnswered(n) /\ m < n =>
         toClient[m].request.index < toClient[n].request.index
  /\ \A m \in DOMAIN toClient, i \in DOMAIN toServer :
       PutAnswered(m) /\ PutSent(i) => toClient[m].request.index < toServer[i].index

\* A connection that is ready has sent every outstanding put.
AllPutsSent ==
  canSendWrites =>
    \A w \in outstandingPuts :
      \/ \E i \in DOMAIN toServer : PutSent(i) /\ toServer[i].index = w
      \/ \E m \in DOMAIN toClient : PutAnswered(m) /\ toClient[m].request.index = w

----------------------------------------------------------------------------
(***************************************************************************)
(* The state of the connection.                                            *)
(***************************************************************************)
\* The parts of TypeOK that the state of the connection is about.
StateType ==
  /\ connectionState \in States
  /\ interruptReasons \subseteq Reasons
  /\ scheduledRetry \in Attempts
  /\ latestFetch \in Attempts
  /\ staleFetches \in Nat
  /\ authToken \in Tokens \cup {None}
  /\ forceAuthTokenRefresh \in BOOLEAN
  /\ realtime \in {"nil", "connecting", "connected"}
  /\ session \in Tokens \cup {None}
  /\ events \in Nat

Consistent == StateType /\ ConnectionIsConsistent /\ SessionNeedsConnection

\* A message is on its way only on a connection that is up.
LEMMA WireNeedsConnection ==
  ASSUME Consistent
  PROVE  /\ toServer # <<>> \/ toClient # <<>> => realtime = "connected" /\ connected
         /\ session # None => connected
  <1>1. wire = <<<<>>, <<>>>> => toServer = <<>> /\ toClient = <<>>
    BY DEF wire
  <1> QED
    BY <1>1 DEF Consistent, ConnectionIsConsistent, SessionNeedsConnection

\* Closing the FConnection: the retry helper has a task again if it may.
LEMMA DisconnectIsConsistent ==
  ASSUME Consistent, NEW reasons \in SUBSET Reasons, NEW force \in BOOLEAN,
         realtime # "nil", onDisconnect(reasons, force),
         interruptReasons' = reasons, UNCHANGED <<latestFetch, staleFetches>>,
         authToken' \in Tokens \cup {None}, events' \in Nat
  PROVE  Consistent'
  <1>1. scheduledRetry = "none"
    BY DEF Consistent, StateType, ConnectionIsConsistent, connected
  <1>2. /\ scheduledRetry' \in Attempts /\ forceAuthTokenRefresh' \in BOOLEAN
        /\ scheduledRetry' # "none" <=> reasons = {}
    BY <1>1 DEF onDisconnect, tryScheduleReconnect, attempt, Attempts, Consistent, StateType
  <1>3. /\ connectionState' = "Disconnected" /\ realtime' = "nil"
        /\ toServer' = <<>> /\ toClient' = <<>> /\ session' = None
    BY DEF onDisconnect
  <1>4. wire' = <<<<>>, <<>>>>
    BY <1>3 DEF wire
  <1> QED
    BY <1>2, <1>3, <1>4 DEF Consistent, StateType, States, ConnectionIsConsistent,
       SessionNeedsConnection, connected

LEMMA InterruptIsConsistent ==
  ASSUME Consistent, NEW reason \in Reasons, interruptForReason(reason),
         UNCHANGED <<latestFetch, staleFetches, authToken>>, events' \in Nat
  PROVE  Consistent'
  <1>1. CASE realtime # "nil"
    <2>1. onDisconnect(interruptReasons', forceAuthTokenRefresh)
      BY <1>1 DEF interruptForReason
    <2>2. interruptReasons' \in SUBSET Reasons
      BY DEF interruptForReason, Consistent, StateType
    <2>3. PICK reasons \in SUBSET Reasons : reasons = interruptReasons'
      BY <2>2
    <2>4. forceAuthTokenRefresh \in BOOLEAN /\ authToken' \in Tokens \cup {None}
      BY DEF Consistent, StateType
    <2> QED
      BY <1>1, <2>1, <2>3, <2>4, DisconnectIsConsistent
  <1>2. CASE realtime = "nil"
    <2>1. /\ interruptReasons' = interruptReasons \cup {reason}
          /\ scheduledRetry' = "none" /\ connectionState' = "Disconnected"
          /\ UNCHANGED <<forceAuthTokenRefresh, realtime, toServer, toClient, session>>
      BY <1>2 DEF interruptForReason, wire
    <2> QED
      BY <1>2, <2>1 DEF Consistent, StateType, ConnectionIsConsistent, SessionNeedsConnection,
         States, Attempts, connected, wire
  <1> QED
    BY <1>1, <1>2

\* The steps that ask for a token, and those that schedule an attempt.
LEMMA AttemptIsConsistent ==
  ASSUME Consistent,
         \/ retry \/ tokenFetchedTooLate \/ tokenFetchFailed \/ staleFetchIgnored
         \/ triggerAttempt \/ resume
         \/ \E token \in Tokens \cup {None} : openNetworkConnectionWithToken(token)
  PROVE  Consistent'
  <1> USE DEF Consistent, StateType, ConnectionIsConsistent, SessionNeedsConnection, States,
              Attempts, connected, wire
  <1>1. CASE retry
    BY <1>1 DEF retry, auth
  <1>2. CASE tokenFetchedTooLate
    BY <1>2 DEF tokenFetchedTooLate, link, auth
  <1>3. CASE tokenFetchFailed
    <2>1. /\ latestFetch # "none" /\ latestFetch' = "none" /\ events' = events + 1
          /\ connectionState' = "Disconnected"
          /\ tryScheduleReconnect(interruptReasons, forceAuthTokenRefresh)
          /\ UNCHANGED <<realtime, toServer, toClient, session, interruptReasons, staleFetches,
                         authToken>>
      BY <1>3 DEF tokenFetchFailed
    <2>2. realtime = "nil"
      BY <2>1
    <2>3. CASE interruptReasons = {}
      <3>1. /\ scheduledRetry' \in Attempts /\ scheduledRetry' # "none"
            /\ forceAuthTokenRefresh' \in BOOLEAN
        BY <2>1, <2>3 DEF tryScheduleReconnect, attempt
      <3>2. toServer' = <<>> /\ toClient' = <<>> /\ session' = None /\ realtime' = "nil"
        BY <2>1, <2>2
      <3>3. StateType'
        <4>1. interruptReasons' \subseteq Reasons /\ authToken' \in Tokens \cup {None}
          BY <2>1 DEF Consistent, StateType
        <4> QED
          BY <2>1, <3>1, <3>2, <4>1
      <3>4. ConnectionIsConsistent'
        BY <2>1, <2>3, <3>1, <3>2
      <3> QED
        BY <3>2, <3>3, <3>4
    <2>4. CASE interruptReasons # {}
      <3>1. UNCHANGED scheduledRetry /\ forceAuthTokenRefresh' \in BOOLEAN
        BY <2>1, <2>4 DEF tryScheduleReconnect
      <3>2. scheduledRetry = "none"
        BY <2>1, <2>4
      <3> QED
        BY <2>1, <2>2, <2>4, <3>1, <3>2
    <2> QED
      BY <2>3, <2>4
  <1>4. CASE staleFetchIgnored
    BY <1>4 DEF staleFetchIgnored, link, auth
  <1>5. CASE triggerAttempt
    BY <1>5 DEF triggerAttempt, tryScheduleReconnect, attempt, link
  <1>6. CASE resume
    BY <1>6 DEF resume, tryScheduleReconnect, attempt, link
  <1>7. CASE \E token \in Tokens \cup {None} : openNetworkConnectionWithToken(token)
    BY <1>7 DEF openNetworkConnectionWithToken
  <1> QED
    BY <1>1, <1>2, <1>3, <1>4, <1>5, <1>6, <1>7

\* The steps on a connection that is there.
LEMMA ExchangeIsConsistent ==
  ASSUME Consistent, WireType,
         \/ onReady \/ putInternal \/ serverAuth \/ serverUnauth \/ serverPut
         \/ serverRevokes \/ serverShutsDown \/ putReply
         \/ authReply /\ Head(toClient).status = "ok"
         \/ \E token \in Tokens \cup {None} : refreshAuthToken(token)
  PROVE  Consistent'
  <1> USE DEF Consistent, StateType, ConnectionIsConsistent, SessionNeedsConnection, States,
              connected, wire
  <1>1. CASE onReady
    BY <1>1 DEF onReady, fetching, auth
  <1>2. CASE putInternal
    BY <1>2 DEF putInternal, fetching, auth, canSendWrites
  <1>3. CASE serverAuth
    <2>1. realtime = "connected" /\ connected
      BY <1>3, WireNeedsConnection DEF serverAuth, Request
    <2>2. session' \in Tokens \cup {None} /\ events' \in Nat
      <3>1. Head(toServer) \in Requests /\ Head(toServer).kind = "auth"
        BY <1>3 DEF serverAuth, Request, WireType
      <3>2. Head(toServer).token \in Tokens
        BY <3>1 DEF Requests, AuthRequests, PutRequests, unauthRequest
      <3> QED
        BY <1>3, <3>2 DEF serverAuth
    <2> QED
      BY <1>3, <2>1, <2>2 DEF serverAuth, untouchedByServer, fetching, auth
  <1>4. CASE serverUnauth \/ serverPut
    <2>1. realtime = "connected" /\ connected
      BY <1>4, WireNeedsConnection DEF serverUnauth, serverPut, Request
    <2> QED
      BY <1>4, <2>1 DEF serverUnauth, serverPut, untouchedByServer, fetching, auth
  <1>5. CASE serverRevokes \/ serverShutsDown
    <2>1. realtime = "connected" /\ connected
      BY <1>5 DEF serverRevokes, serverShutsDown
    <2> QED
      BY <1>5, <2>1 DEF serverRevokes, serverShutsDown, untouchedByServer, fetching, auth
  <1>6. CASE putReply
    <2>1. realtime = "connected" /\ connected
      BY <1>6, WireNeedsConnection DEF putReply, Reply
    <2> QED
      BY <1>6, <2>1 DEF putReply, fetching, auth
  <1>7. CASE authReply /\ Head(toClient).status = "ok"
    <2>1. realtime = "connected" /\ connected
      BY <1>7, WireNeedsConnection DEF authReply, Reply
    <2> QED
      BY <1>7, <2>1 DEF authReply, auth
  <1>8. CASE \E token \in Tokens \cup {None} : refreshAuthToken(token)
    <2>1. PICK token \in Tokens \cup {None} : refreshAuthToken(token)
      BY <1>8
    <2>2. /\ authToken' = token /\ events' = events + 1
          /\ UNCHANGED <<connectionState, realtime, toClient, session, interruptReasons,
                         scheduledRetry, latestFetch, staleFetches, forceAuthTokenRefresh>>
      BY <2>1 DEF refreshAuthToken, fetching
    <2>3. connected \/ UNCHANGED toServer
      BY <2>1 DEF refreshAuthToken
    <2> QED
      BY <2>2, <2>3
  <1> QED
    BY <1>1, <1>2, <1>3, <1>4, <1>5, <1>6, <1>7, <1>8
----------------------------------------------------------------------------
(***************************************************************************)
(* What the steps do to the two queues of messages.                        *)
(***************************************************************************)
\* t is s with e added, s without its first element, or s followed by u.
Adds(s, t, e) ==
  /\ Len(s) \in Nat /\ DOMAIN s = 1 .. Len(s)
  /\ Len(t) = Len(s) + 1 /\ DOMAIN t = 1 .. Len(t)
  /\ \A i \in DOMAIN s : t[i] = s[i]
  /\ t[Len(t)] = e

Drops(s, t) ==
  /\ Len(s) \in Nat \ {0} /\ DOMAIN s = 1 .. Len(s)
  /\ Len(t) = Len(s) - 1 /\ DOMAIN t = 1 .. Len(t)
  /\ \A i \in DOMAIN t : t[i] = s[i + 1]

Joins(s, t, u) ==
  /\ Len(s) \in Nat /\ DOMAIN s = 1 .. Len(s)
  /\ Len(u) \in Nat /\ DOMAIN u = 1 .. Len(u)
  /\ Len(t) = Len(s) + Len(u) /\ DOMAIN t = 1 .. Len(t)
  /\ \A i \in DOMAIN s : t[i] = s[i]
  /\ \A i \in DOMAIN t : i > Len(s) => i - Len(s) \in DOMAIN u /\ t[i] = u[i - Len(s)]
  /\ \A k \in DOMAIN u : Len(s) + k \in DOMAIN t /\ t[Len(s) + k] = u[k]

LEMMA AppendAdds ==
  ASSUME NEW S, NEW s \in Seq(S), NEW e \in S
  PROVE  Append(s, e) \in Seq(S) /\ Adds(s, Append(s, e), e)
  <1>1. /\ Append(s, e) \in Seq(S) /\ Len(Append(s, e)) = Len(s) + 1
        /\ \A i \in 1 .. Len(s) : Append(s, e)[i] = s[i]
        /\ Append(s, e)[Len(s) + 1] = e
    BY AppendProperties
  <1>2. /\ Len(s) \in Nat /\ DOMAIN s = 1 .. Len(s)
        /\ DOMAIN Append(s, e) = 1 .. Len(Append(s, e))
    BY <1>1, LenProperties
  <1> QED
    BY <1>1, <1>2 DEF Adds

LEMMA TailDrops ==
  ASSUME NEW S, NEW s \in Seq(S), s # <<>>
  PROVE  Tail(s) \in Seq(S) /\ Drops(s, Tail(s)) /\ Head(s) = s[1] /\ Head(s) \in S
  <1>1. /\ Head(s) \in S /\ Tail(s) \in Seq(S) /\ Len(Tail(s)) = Len(s) - 1
        /\ \A i \in 1 .. Len(Tail(s)) : Tail(s)[i] = s[i + 1]
    BY HeadTailProperties
  <1>2. /\ Len(s) \in Nat \ {0} /\ DOMAIN s = 1 .. Len(s)
        /\ DOMAIN Tail(s) = 1 .. Len(Tail(s))
    BY <1>1, LenProperties, EmptySeq
  <1>3. Head(s) = s[1]
    BY DEF Head
  <1> QED
    BY <1>1, <1>2, <1>3 DEF Drops

LEMMA ConcatJoins ==
  ASSUME NEW S, NEW s \in Seq(S), NEW u \in Seq(S)
  PROVE  s \o u \in Seq(S) /\ Joins(s, s \o u, u)
  <1>1. /\ s \o u \in Seq(S) /\ Len(s \o u) = Len(s) + Len(u)
        /\ \A i \in 1 .. Len(s) + Len(u) :
             (s \o u)[i] = IF i <= Len(s) THEN s[i] ELSE u[i - Len(s)]
    BY ConcatProperties
  <1>2. /\ Len(s) \in Nat /\ DOMAIN s = 1 .. Len(s)
        /\ Len(u) \in Nat /\ DOMAIN u = 1 .. Len(u)
        /\ DOMAIN (s \o u) = 1 .. Len(s \o u)
    BY <1>1, LenProperties
  <1>3. \A i \in DOMAIN s : (s \o u)[i] = s[i]
    BY <1>1, <1>2
  <1>4. \A i \in DOMAIN (s \o u) :
          i > Len(s) => i - Len(s) \in DOMAIN u /\ (s \o u)[i] = u[i - Len(s)]
    BY <1>1, <1>2
  <1>5. ASSUME NEW k \in DOMAIN u
        PROVE  Len(s) + k \in DOMAIN (s \o u) /\ (s \o u)[Len(s) + k] = u[k]
    <2>1. Len(s) + k \in 1 .. Len(s) + Len(u) /\ Len(s) + k - Len(s) = k /\ ~(Len(s) + k <= Len(s))
      BY <1>2
    <2> QED
      BY <1>1, <1>2, <2>1
  <1> QED
    BY <1>1, <1>2, <1>3, <1>4, <1>5 DEF Joins

\* The types of what the writer of the location can see.
PutsType ==
  /\ putCounter \in Nat \ {0}
  /\ completions \in Seq([write : Nat, status : Status])
  /\ Len(completions) < putCounter
  /\ stored \in 0 .. (putCounter - 1)

\* restoreState sends each outstanding write once, in order, with the token.
Restored(keys) ==
  /\ keys \in Seq(PutRequests)
  /\ Len(keys) \in Nat /\ DOMAIN keys = 1 .. Len(keys)
  /\ \A k \in DOMAIN keys : /\ keys[k].kind = "put" /\ keys[k].as = authToken
                            /\ keys[k].index \in outstandingPuts
  /\ \A j, k \in DOMAIN keys : j < k => keys[j].index < keys[k].index
  /\ \A w \in outstandingPuts : \E k \in DOMAIN keys : keys[k].index = w

Sorts(keys, S) ==
  /\ Cardinality(S) \in Nat /\ keys \in [1 .. Cardinality(S) -> S]
  /\ \A j, k \in 1 .. Cardinality(S) : j < k => keys[j] < keys[k]
  /\ \A w \in S : \E k \in 1 .. Cardinality(S) : keys[k] = w

LEMMA KeysAreSorted ==
  ASSUME NEW a \in Nat, NEW b \in Nat, a <= b, NEW S, S = (a + 1) .. b
  PROVE  Sorts(sortedKeys(S), S)
  <1> DEFINE n == Cardinality(S)
             keys == sortedKeys(S)
             P(s) == \A j, k \in 1 .. n : j < k => s[j] < s[k]
  <1>1. IsFiniteSet(S) /\ n = b - a
    <2>1. /\ IsFiniteSet((a + 1) .. b)
          /\ Cardinality((a + 1) .. b) = IF a + 1 > b THEN 0 ELSE b - (a + 1) + 1
      <3>1. a + 1 \in Int /\ b \in Int
        OBVIOUS
      <3> QED
        BY <3>1, FS_Interval, Zenon
    <2> QED
      BY <2>1
  <1>2. \E s \in [1 .. n -> S] : P(s)
    <2> DEFINE t == [k \in 1 .. b - a |-> a + k]
    <2>1. t \in [1 .. n -> S]
      BY <1>1
    <2>2. P(t)
      BY <1>1
    <2> QED
      BY <2>1, <2>2
  <1>3. keys \in [1 .. n -> S] /\ P(keys)
    BY <1>2 DEF sortedKeys
  <1>4. keys \in Injection(1 .. n, S)
    BY <1>1, <1>3 DEF Injection, IsInjective
  <1>5. Cardinality(1 .. n) = n
    BY <1>1, FS_Interval
  <1>6. keys \in Surjection(1 .. n, S)
    BY <1>1, <1>4, <1>5, FS_Injection
  <1>7. \A w \in S : \E k \in 1 .. n : keys[k] = w
    BY <1>6 DEF Surjection
  <1>8. n \in Nat
    BY <1>1
  <1> QED
    BY <1>3, <1>7, <1>8 DEF Sorts

LEMMA RestoreSendsAll ==
  ASSUME PutsType, OutstandingFollow, authToken \in Tokens \cup {None}
  PROVE  Restored(restoreState)
  <1> DEFINE n == Cardinality(outstandingPuts)
             keys == sortedKeys(outstandingPuts)
  <1>1. PICK a \in Nat, b \in Nat : a <= b /\ outstandingPuts = (a + 1) .. b
    <2>1. Len(completions) \in Nat /\ putCounter - 1 \in Nat /\ Len(completions) <= putCounter - 1
      BY LenProperties DEF PutsType
    <2> QED
      BY <2>1 DEF OutstandingFollow
  <1>2. /\ n \in Nat /\ keys \in [1 .. n -> outstandingPuts]
        /\ \A j, k \in 1 .. n : j < k => keys[j] < keys[k]
        /\ \A w \in outstandingPuts : \E k \in 1 .. n : keys[k] = w
    <2>1. PICK S : S = outstandingPuts
      OBVIOUS
    <2>2. a \in Nat /\ b \in Nat /\ a <= b /\ S = (a + 1) .. b
      BY <1>1, <2>1
    <2>3. Sorts(sortedKeys(S), S)
      BY <2>2, KeysAreSorted, Zenon
    <2> QED
      BY <2>1, <2>3, Zenon DEF Sorts
  <1> HIDE DEF n, keys
  <1>3. restoreState = [k \in 1 .. n |-> putRequest(keys[k])]
    <2>1. DOMAIN keys = 1 .. n
      BY <1>2
    <2>2. restoreState = [k \in DOMAIN keys |-> putRequest(keys[k])]
      BY DEF restoreState, keys
    <2> QED
      BY <2>1, <2>2
  <1>4. \A k \in 1 .. n :
          /\ putRequest(keys[k]) \in PutRequests
          /\ putRequest(keys[k]).kind = "put" /\ putRequest(keys[k]).as = authToken
          /\ putRequest(keys[k]).index = keys[k]
    BY <1>1, <1>2 DEF putRequest, PutRequests
  <1>5. restoreState \in [1 .. n -> PutRequests]
    BY <1>3, <1>4
  <1>6. /\ restoreState \in Seq(PutRequests) /\ Len(restoreState) = n
        /\ DOMAIN restoreState = 1 .. n
    BY <1>2, <1>5, SeqDef, LenProperties
  <1>7. \A k \in 1 .. n : /\ restoreState[k].kind = "put" /\ restoreState[k].as = authToken
                          /\ restoreState[k].index = keys[k]
    BY <1>3, <1>4
  <1> QED
    BY <1>2, <1>6, <1>7 DEF Restored

----------------------------------------------------------------------------
(***************************************************************************)
(* The kinds of steps.  A quiet step leaves the messages and the writes    *)
(* alone, and the connection is not up or stays as it is.  A step that     *)
(* closes the connection loses the messages.                               *)
(***************************************************************************)
Quiet ==
  /\ UNCHANGED <<toServer, toClient, session, putCounter, outstandingPuts, completions, stored>>
  /\ \/ UNCHANGED <<connectionState, authToken>>
     \/ ~connected /\ ~connected'

Closes ==
  /\ connectionState' = "Disconnected"
  /\ toServer' = <<>> /\ toClient' = <<>> /\ session' = None
  /\ UNCHANGED <<putCounter, outstandingPuts, completions, stored>>

Exchange ==
  \/ onReady
  \/ authReply /\ Head(toClient).status = "ok"
  \/ putReply
  \/ putInternal
  \/ serverAuth
  \/ serverUnauth
  \/ serverPut
  \/ serverRevokes
  \/ serverShutsDown
  \/ connected /\ \E token \in Tokens \cup {None} : refreshAuthToken(token)

LEMMA StepKinds ==
  ASSUME Consistent, [Next]_vars
  PROVE  Quiet \/ Closes \/ Exchange
  <1>1. CASE retry
    <2>1. ~connected /\ ~connected'
      BY <1>1 DEF retry, Consistent, ConnectionIsConsistent, connected
    <2> QED
      BY <1>1, <2>1 DEF retry, wire, puts, Quiet
  <1>2. CASE \E token \in Tokens \cup {None} : openNetworkConnectionWithToken(token)
    BY <1>2 DEF openNetworkConnectionWithToken, wire, puts, Quiet, connected
  <1>3. CASE tokenFetchedTooLate \/ staleFetchIgnored \/ triggerAttempt \/ resume
    <2>1. UNCHANGED <<link, authToken, puts, stored>>
      BY <1>3 DEF tokenFetchedTooLate, staleFetchIgnored, triggerAttempt, resume, auth
    <2>2. UNCHANGED <<connectionState, wire, session>>
      BY <2>1 DEF link
    <2> QED
      BY <2>1, <2>2 DEF wire, puts, Quiet
  <1>4. CASE tokenFetchFailed
    <2>1. ~connected /\ ~connected'
      BY <1>4 DEF tokenFetchFailed, Consistent, ConnectionIsConsistent, connected
    <2> QED
      BY <1>4, <2>1 DEF tokenFetchFailed, wire, puts, Quiet
  <1>5. CASE authReply /\ Head(toClient).status # "ok"
    BY <1>5 DEF authReply, onDisconnect, puts, Closes
  <1>6. CASE onAuthRevoked \/ connectionLost
    BY <1>6 DEF onAuthRevoked, connectionLost, onDisconnect, puts, Closes
  <1>7. CASE onKill \/ interrupt
    <2>1. PICK reason \in Reasons : interruptForReason(reason)
      BY <1>7 DEF onKill, interrupt, Reasons
    <2>2. UNCHANGED <<authToken, putCounter, outstandingPuts, completions, stored>>
      BY <1>7 DEF onKill, interrupt, puts
    <2>3. CASE realtime # "nil"
      BY <2>1, <2>2, <2>3 DEF interruptForReason, onDisconnect, puts, Closes
    <2>4. CASE realtime = "nil"
      <3>1. ~connected /\ ~connected'
        BY <2>1, <2>4 DEF interruptForReason, Consistent, ConnectionIsConsistent, connected
      <3> QED
        BY <2>1, <2>2, <2>4, <3>1 DEF interruptForReason, wire, Quiet
    <2> QED
      BY <2>3, <2>4
  <1>8. CASE \E token \in Tokens \cup {None} : refreshAuthToken(token)
    <2>1. CASE connected
      BY <1>8, <2>1 DEF Exchange
    <2>2. CASE ~connected
      BY <1>8, <2>2 DEF refreshAuthToken, puts, Quiet, connected
    <2> QED
      BY <2>1, <2>2
  <1>9. CASE UNCHANGED vars
    <2>1. UNCHANGED <<link, auth, puts, stored>>
      BY <1>9 DEF vars
    <2>2. UNCHANGED <<connectionState, wire, session, authToken>>
      BY <2>1 DEF link, auth
    <2> QED
      BY <2>1, <2>2 DEF wire, puts, Quiet
  <1> QED
    BY <1>1, <1>2, <1>3, <1>4, <1>5, <1>6, <1>7, <1>8, <1>9
       DEF Next, Client, Server, Exchange

(***************************************************************************)
(* What an exchange does to the queues, element by element.                *)
(***************************************************************************)
Writes == <<putCounter, outstandingPuts, completions, stored>>

Opens ==
  /\ ~connected /\ connectionState' = "Authenticating" /\ authToken \in Tokens
  /\ toServer = <<>> /\ toClient = <<>> /\ session = None
  /\ Len(toServer') = 1 /\ DOMAIN toServer' = {1}
  /\ toServer'[1] = authRequest(authToken, TRUE)
  /\ UNCHANGED <<toClient, session, authToken, Writes>>

OpensWithoutUser ==
  /\ ~connected /\ connectionState' = "Connected" /\ authToken = None
  /\ toServer = <<>> /\ toClient = <<>> /\ session = None
  /\ toServer' = restoreState /\ Restored(restoreState)
  /\ UNCHANGED <<toClient, session, authToken, Writes>>

LearnsOfAuth ==
  /\ connected /\ connectionState' = "Connected"
  /\ toClient[1].request.kind = "auth" /\ toClient[1].status = "ok"
  /\ Drops(toClient, toClient')
  /\ \/ /\ Restores(toClient[1].request)
        /\ Joins(toServer, toServer', restoreState) /\ Restored(restoreState)
     \/ ~Restores(toClient[1].request) /\ UNCHANGED toServer
  /\ UNCHANGED <<session, authToken, Writes>>

LearnsOfPut ==
  /\ connected
  /\ toClient[1].request.kind = "put" /\ toClient[1].request.index \in Nat
  /\ toClient[1].status \in Status
  /\ Drops(toClient, toClient')
  /\ outstandingPuts' = outstandingPuts \ {toClient[1].request.index}
  /\ completions' = IF toClient[1].request.index \in outstandingPuts
                    THEN Append(completions, [write |-> toClient[1].request.index,
                                              status |-> toClient[1].status])
                    ELSE completions
  /\ UNCHANGED <<connectionState, toServer, session, authToken, putCounter, stored>>

SendsUser ==
  /\ connected
  /\ \E r \in Requests : /\ Adds(toServer, toServer', r) /\ Credential(r) = authToken'
                         /\ r.kind # "put" /\ ~Restores(r)
  /\ UNCHANGED <<connectionState, toClient, session, Writes>>

MakesPut ==
  /\ putCounter' = putCounter + 1
  /\ outstandingPuts' = outstandingPuts \cup {putCounter}
  /\ \/ /\ canSendWrites
        /\ Adds(toServer, toServer', putRequest(putCounter))
     \/ ~canSendWrites /\ UNCHANGED toServer
  /\ UNCHANGED <<connectionState, toClient, session, authToken, completions, stored>>

ServesAuth ==
  /\ connected
  /\ toServer[1].kind = "auth"
  /\ Drops(toServer, toServer')
  /\ \E r \in Replies :
       /\ Adds(toClient, toClient', r) /\ r.request = toServer[1]
       /\ \/ r.status = "ok" /\ session' = toServer[1].token
          \/ r.status = "error"
  /\ UNCHANGED <<connectionState, authToken, Writes>>

ServesUnauth ==
  /\ connected
  /\ toServer[1].kind = "unauth"
  /\ Drops(toServer, toServer')
  /\ session' = None
  /\ UNCHANGED <<connectionState, toClient, authToken, Writes>>

ServesPut ==
  /\ connected
  /\ toServer[1].kind = "put"
  /\ Drops(toServer, toServer')
  /\ \E r \in Replies :
       /\ Adds(toClient, toClient', r) /\ r.request = toServer[1]
       /\ \/ r.status = "ok" /\ stored' = toServer[1].index
          \/ r.status = "error" /\ UNCHANGED stored
  /\ UNCHANGED <<connectionState, session, authToken, putCounter, outstandingPuts, completions>>

PushesToClient ==
  /\ connected
  /\ \E r \in Pushes :
       /\ Adds(toClient, toClient', r)
       /\ r.request.kind = "revoked" \/ UNCHANGED session
  /\ UNCHANGED <<connectionState, toServer, authToken, Writes>>

Shaped ==
  \/ Opens \/ OpensWithoutUser \/ LearnsOfAuth \/ LearnsOfPut \/ SendsUser \/ MakesPut
  \/ ServesAuth \/ ServesUnauth \/ ServesPut \/ PushesToClient

LEMMA ExchangeIsShaped ==
  ASSUME Consistent, WireType, PutsType, OutstandingFollow, Exchange
  PROVE  WireType' /\ Shaped
  <1> USE DEF puts, auth, Writes
  <1>1. authToken \in Tokens \cup {None}
    BY DEF Consistent, StateType
  <1>2. Restored(restoreState)
    BY <1>1, RestoreSendsAll
  <1>3. restoreState \in Seq(Requests)
    BY <1>2, SeqMonotonic DEF Restored, Requests
  <1>4. toServer \in Seq(Requests) /\ toClient \in Seq(Replies)
    BY DEF WireType
  <1>5. CASE onReady
    <2>1. ~connected /\ toServer = <<>> /\ toClient = <<>> /\ session = None
      BY <1>5, WireNeedsConnection DEF onReady, Consistent, ConnectionIsConsistent, connected,
         SessionNeedsConnection
    <2>2. CASE authToken = None
      <3>1. OpensWithoutUser /\ UNCHANGED toClient
        BY <1>2, <1>5, <2>1, <2>2 DEF onReady, OpensWithoutUser
      <3> QED
        BY <1>3, <1>4, <3>1 DEF WireType, Shaped, OpensWithoutUser
    <2>3. CASE authToken # None
      <3>1. authRequest(authToken, TRUE) \in Requests
        BY <1>1, <2>3 DEF authRequest, Requests, AuthRequests
      <3>2. toServer' = <<authRequest(authToken, TRUE)>>
        BY <1>5, <2>3 DEF onReady
      <3>3. PICK r \in Requests : r = authRequest(authToken, TRUE)
        BY <3>1
      <3>4. /\ <<r>> \in Seq(Requests) /\ Len(<<r>>) = 1 /\ DOMAIN <<r>> = {1}
            /\ <<r>>[1] = r
        OBVIOUS
      <3>5. toServer' = <<r>>
        BY <3>2, <3>3
      <3>6. /\ toServer' \in Seq(Requests) /\ Len(toServer') = 1 /\ DOMAIN toServer' = {1}
            /\ toServer'[1] = authRequest(authToken, TRUE)
        BY <3>3, <3>4, <3>5
      <3>7. /\ connectionState' = "Authenticating"
            /\ UNCHANGED <<toClient, session, authToken, Writes>>
        BY <1>5, <2>3 DEF onReady
      <3>8. Opens
        BY <1>1, <2>1, <2>3, <3>6, <3>7 DEF Opens
      <3>9. WireType'
        BY <1>4, <3>6, <3>7 DEF WireType
      <3> QED
        BY <3>8, <3>9 DEF Shaped
    <2> QED
      BY <2>2, <2>3
  <1>6. CASE authReply /\ Head(toClient).status = "ok"
    <2>1. toClient # <<>> /\ connected
      BY <1>6, WireNeedsConnection DEF authReply, Reply
    <2>2. /\ Drops(toClient, Tail(toClient)) /\ Head(toClient) = toClient[1]
          /\ Tail(toClient) \in Seq(Replies)
      BY <1>4, <2>1, TailDrops
    <2>3. toServer \o restoreState \in Seq(Requests) /\ Joins(toServer, toServer \o restoreState, restoreState)
      BY <1>3, <1>4, ConcatJoins
    <2>4. /\ toClient[1].request.kind = "auth" /\ toClient[1].status = "ok"
          /\ toClient' = Tail(toClient) /\ connectionState' = "Connected"
          /\ toServer' = IF toClient[1].request.restore THEN toServer \o restoreState ELSE toServer
          /\ UNCHANGED <<session, authToken, Writes>>
      BY <1>6, <2>2 DEF authReply, Reply
    <2>5. LearnsOfAuth
      BY <1>2, <2>1, <2>2, <2>3, <2>4 DEF LearnsOfAuth, Restores
    <2>6. WireType'
      BY <1>4, <2>2, <2>3, <2>4 DEF WireType
    <2> QED
      BY <2>5, <2>6 DEF Shaped
  <1>7. CASE putReply
    <2>1. toClient # <<>> /\ connected
      BY <1>7, WireNeedsConnection DEF putReply, Reply
    <2>2. /\ Drops(toClient, Tail(toClient)) /\ Head(toClient) = toClient[1]
          /\ Tail(toClient) \in Seq(Replies) /\ Head(toClient) \in Replies
      BY <1>4, <2>1, TailDrops
    <2>3. toClient[1].request.kind = "put" /\ toClient' = Tail(toClient)
      BY <1>7, <2>2 DEF putReply, Reply
    <2>4. toClient[1].request \in PutRequests /\ toClient[1].status \in Status
      BY <2>2, <2>3 DEF Replies, Pushes, AuthRequests, PutRequests
    <2>5. LearnsOfPut
      BY <1>7, <2>1, <2>2, <2>3, <2>4 DEF putReply, LearnsOfPut, PutRequests
    <2>6. WireType'
      BY <1>4, <1>7, <2>2, <2>3 DEF putReply, WireType
    <2> QED
      BY <2>5, <2>6 DEF Shaped
  <1>8. CASE putInternal
    <2>1. putRequest(putCounter) \in Requests
      BY <1>1 DEF putRequest, Requests, PutRequests, PutsType
    <2>2. /\ Append(toServer, putRequest(putCounter)) \in Seq(Requests)
          /\ Adds(toServer, Append(toServer, putRequest(putCounter)), putRequest(putCounter))
      BY <1>4, <2>1, AppendAdds
    <2>3. MakesPut
      BY <1>8, <2>2 DEF putInternal, MakesPut
    <2>4. WireType'
      BY <1>4, <1>8, <2>2 DEF putInternal, WireType
    <2> QED
      BY <2>3, <2>4 DEF Shaped
  <1>9. CASE serverRevokes \/ serverShutsDown
    <2>1. connected /\ UNCHANGED <<connectionState, toServer, authToken, Writes>>
      BY <1>9 DEF serverRevokes, serverShutsDown, untouchedByServer, Consistent,
         ConnectionIsConsistent, SessionNeedsConnection
    <2>2. PICK kind \in {"revoked", "shutdown"} : push(kind) /\ (kind = "revoked" \/ UNCHANGED session)
      BY <1>9 DEF serverRevokes, serverShutsDown
    <2> DEFINE r == [request |-> [kind |-> kind], status |-> "push"]
    <2>3. r \in Pushes /\ r \in Replies /\ r.request.kind = kind
      BY DEF Pushes, Replies
    <2>4. toClient' = Append(toClient, r)
      BY <2>2 DEF push
    <2>5. toClient' \in Seq(Replies) /\ Adds(toClient, toClient', r)
      <3> HIDE DEF r
      <3> QED
        BY <1>4, <2>3, <2>4, AppendAdds
    <2> HIDE DEF r
    <2>6. PushesToClient
      BY <2>1, <2>2, <2>3, <2>5 DEF PushesToClient
    <2> QED
      BY <1>4, <2>1, <2>5, <2>6 DEF WireType, Shaped
  <1>10. CASE serverUnauth
    <2>1. toServer # <<>> /\ connected
      BY <1>10, WireNeedsConnection DEF serverUnauth, Request
    <2>2. /\ Drops(toServer, Tail(toServer)) /\ Head(toServer) = toServer[1]
          /\ Tail(toServer) \in Seq(Requests)
      BY <1>4, <2>1, TailDrops
    <2>3. ServesUnauth
      BY <1>10, <2>1, <2>2 DEF serverUnauth, Request, untouchedByServer, ServesUnauth
    <2> QED
      BY <1>4, <1>10, <2>2, <2>3 DEF serverUnauth, WireType, Shaped
  <1>11. CASE serverAuth \/ serverPut
    <2>1. toServer # <<>> /\ connected
      BY <1>11, WireNeedsConnection DEF serverAuth, serverPut, Request
    <2>2. /\ Drops(toServer, Tail(toServer)) /\ Head(toServer) = toServer[1]
          /\ Tail(toServer) \in Seq(Requests) /\ Head(toServer) \in Requests
      BY <1>4, <2>1, TailDrops
    <2>3. toServer[1].kind \in {"auth", "put"}
      BY <1>11, <2>2 DEF serverAuth, serverPut, Request
    <2>4. toServer[1] \in AuthRequests \cup PutRequests
      BY <2>2, <2>3 DEF Requests, unauthRequest
    <2>5. PICK status \in Status :
            /\ answer(status)
            /\ serverAuth => \/ status = "ok" /\ session' = toServer[1].token
                             \/ status = "error"
            /\ serverPut => \/ status = "ok" /\ stored' = toServer[1].index
                            \/ status = "error" /\ UNCHANGED stored
      BY <1>11, <2>2 DEF serverAuth, serverPut, Status, Request
    <2> DEFINE r == [request |-> Head(toServer), status |-> status]
    <2>6. r \in Replies /\ r.request = toServer[1] /\ r.status = status
      BY <2>2, <2>4 DEF Replies
    <2>7. toServer' = Tail(toServer) /\ toClient' = Append(toClient, r)
      BY <2>5 DEF answer
    <2>8. toClient' \in Seq(Replies) /\ Adds(toClient, toClient', r)
      <3> HIDE DEF r
      <3> QED
        BY <1>4, <2>6, <2>7, AppendAdds
    <2>9. WireType'
      BY <2>2, <2>7, <2>8 DEF WireType
    <2> HIDE DEF r
    <2>10. CASE serverAuth
      <3>1. toServer[1].kind = "auth" /\ UNCHANGED <<connectionState, authToken, Writes>>
        BY <2>2, <2>10 DEF serverAuth, Request, untouchedByServer
      <3> QED
        BY <2>1, <2>2, <2>5, <2>6, <2>7, <2>8, <2>9, <2>10, <3>1 DEF ServesAuth, Shaped
    <2>11. CASE serverPut
      <3>1. /\ toServer[1].kind = "put"
            /\ UNCHANGED <<connectionState, session, authToken, putCounter, outstandingPuts, completions>>
        BY <2>2, <2>11 DEF serverPut, Request, untouchedByServer
      <3> QED
        BY <2>1, <2>2, <2>5, <2>6, <2>7, <2>8, <2>9, <2>11, <3>1 DEF ServesPut, Shaped
    <2> QED
      BY <1>11, <2>10, <2>11
  <1>12. CASE connected /\ \E token \in Tokens \cup {None} : refreshAuthToken(token)
    <2>1. PICK token \in Tokens \cup {None} : refreshAuthToken(token)
      BY <1>12
    <2> DEFINE r == IF token = None THEN unauthRequest ELSE authRequest(token, FALSE)
    <2>2. r \in Requests /\ Credential(r) = token /\ r.kind # "put" /\ ~Restores(r)
      BY DEF Requests, AuthRequests, unauthRequest, authRequest, Credential, Restores
    <2>3. toServer' = Append(toServer, r) /\ authToken' = token
      BY <1>12, <2>1 DEF refreshAuthToken
    <2>4. UNCHANGED <<connectionState, toClient, session, Writes>>
      BY <2>1 DEF refreshAuthToken
    <2> HIDE DEF r
    <2>5. toServer' \in Seq(Requests) /\ Adds(toServer, toServer', r)
      BY <1>4, <2>2, <2>3, AppendAdds
    <2>6. SendsUser
      BY <1>12, <2>2, <2>3, <2>4, <2>5 DEF SendsUser
    <2> QED
      BY <1>4, <2>4, <2>5, <2>6 DEF WireType, Shaped
  <1> QED
    BY <1>5, <1>6, <1>7, <1>8, <1>9, <1>10, <1>11, <1>12 DEF Exchange

ConnectionInv ==
  /\ Consistent /\ WireType /\ PutsType
  /\ CredentialsAgree /\ RestoreComesFirst
  /\ OutstandingFollow /\ PutsInOrder /\ AllPutsSent

\* Nothing is on its way and nobody is authenticated while the connection is down.
LEMMA DownIsEmpty ==
  ASSUME Consistent, ~connected
  PROVE  toServer = <<>> /\ toClient = <<>> /\ session = None
  BY WireNeedsConnection

LEMMA QueuesAreIndexed ==
  ASSUME WireType
  PROVE  /\ Len(toServer) \in Nat /\ DOMAIN toServer = 1 .. Len(toServer)
         /\ Len(toClient) \in Nat /\ DOMAIN toClient = 1 .. Len(toClient)
         /\ \A i \in DOMAIN toServer : toServer[i] \in Requests
         /\ \A m \in DOMAIN toClient : toClient[m] \in Replies
         /\ toServer = <<>> <=> Len(toServer) = 0
         /\ toClient = <<>> <=> Len(toClient) = 0
  <1> USE DEF WireType
  <1>1. /\ Len(toServer) \in Nat /\ DOMAIN toServer = 1 .. Len(toServer)
        /\ Len(toClient) \in Nat /\ DOMAIN toClient = 1 .. Len(toClient)
    BY LenProperties
  <1>2. toServer = <<>> <=> Len(toServer) = 0
    BY EmptySeq
  <1>3. toClient = <<>> <=> Len(toClient) = 0
    BY EmptySeq
  <1>4. \A i \in DOMAIN toServer : toServer[i] \in Requests
    BY <1>1, ElementOfSeq
  <1>5. \A m \in DOMAIN toClient : toClient[m] \in Replies
    BY <1>1, ElementOfSeq
  <1> QED
    BY <1>1, <1>2, <1>3, <1>4, <1>5

----------------------------------------------------------------------------
(***************************************************************************)
(* The server judges a write as its user.                                  *)
(***************************************************************************)
LEMMA CredentialsStep ==
  ASSUME ConnectionInv, WireType', Quiet \/ Closes \/ Shaped
  PROVE  CredentialsAgree'
  <1> SUFFICES ASSUME ~Refused'
               PROVE  /\ \A i \in DOMAIN toServer' :
                           toServer'[i].kind = "put" =>
                             toServer'[i].as = IF i = 1 THEN session'
                                               ELSE Credential(toServer'[i - 1])
                      /\ connected' =>
                           authToken' = IF toServer' = <<>> THEN session'
                                        ELSE Credential(toServer'[Len(toServer')])
    BY DEF CredentialsAgree, Credential
  <1> DEFINE Tagged(s, user) ==
               \A i \in DOMAIN s :
                 s[i].kind = "put" => s[i].as = IF i = 1 THEN user ELSE Credential(s[i - 1])
             Last(s, user) == IF s = <<>> THEN user ELSE Credential(s[Len(s)])
  <1>1. ~Refused => Tagged(toServer, session) /\ (connected => authToken = Last(toServer, session))
    BY DEF ConnectionInv, CredentialsAgree
  <1>2. /\ Len(toServer) \in Nat /\ DOMAIN toServer = 1 .. Len(toServer)
        /\ Len(toClient) \in Nat /\ DOMAIN toClient = 1 .. Len(toClient)
        /\ toServer = <<>> <=> Len(toServer) = 0
    BY QueuesAreIndexed DEF ConnectionInv
  <1>3. /\ Len(toServer') \in Nat /\ DOMAIN toServer' = 1 .. Len(toServer')
        /\ toServer' = <<>> <=> Len(toServer') = 0
    BY QueuesAreIndexed
  <1>4. CASE Quiet
    <2>1. ~Refused
      BY <1>4 DEF Quiet, Refused
    <2>2. Tagged(toServer', session')
      BY <1>1, <1>4, <2>1 DEF Quiet
    <2>3. connected' => authToken' = Last(toServer', session')
      BY <1>1, <1>4, <2>1 DEF Quiet, connected
    <2> QED
      BY <2>2, <2>3
  <1>5. CASE Closes
    BY <1>5 DEF Closes, connected
  <1>6. CASE Opens
    <2>1. toServer'[1].kind = "auth" /\ toServer'[1].token = authToken
      BY <1>6 DEF Opens, authRequest
    <2> QED
      <3>1. Len(toServer') = 1 /\ DOMAIN toServer' = {1} /\ UNCHANGED authToken
        BY <1>6 DEF Opens
      <3>2. toServer' # <<>> /\ Credential(toServer'[1]) = authToken
        BY <1>3, <2>1, <3>1 DEF Credential
      <3> QED
        BY <2>1, <3>1, <3>2
  <1>7. CASE OpensWithoutUser
    <2>1. \A i \in DOMAIN toServer' : toServer'[i].kind = "put" /\ toServer'[i].as = None
      BY <1>7 DEF OpensWithoutUser, Restored
    <2>2. \A i \in DOMAIN toServer' : Credential(toServer'[i]) = None
      BY <2>1 DEF Credential
    <2>3. session' = None /\ authToken' = None
      BY <1>7 DEF OpensWithoutUser
    <2> QED
      BY <1>3, <2>1, <2>2, <2>3
  <1>8. CASE LearnsOfAuth
    <2>1. ~Refused
      <3> SUFFICES ASSUME NEW m \in DOMAIN toClient,
                          \/ toClient[m].request.kind = "revoked"
                          \/ toClient[m].request.kind = "auth" /\ toClient[m].status = "error"
                   PROVE  FALSE
        BY DEF Refused
      <3>1. m # 1
        BY <1>8 DEF LearnsOfAuth
      <3>2. m - 1 \in DOMAIN toClient' /\ toClient'[m - 1] = toClient[m]
        BY <1>2, <1>8, <3>1 DEF LearnsOfAuth, Drops
      <3> QED
        BY <3>2 DEF Refused
    <2>2. Tagged(toServer, session) /\ authToken = Last(toServer, session)
      BY <1>1, <1>8, <2>1 DEF LearnsOfAuth
    <2>3. UNCHANGED <<session, authToken>>
      BY <1>8 DEF LearnsOfAuth
    <2>4. CASE UNCHANGED toServer
      BY <2>2, <2>3, <2>4
    <2>5. CASE Joins(toServer, toServer', restoreState) /\ Restored(restoreState)
      <3>1. \A i \in DOMAIN toServer' :
              \/ i \in DOMAIN toServer /\ toServer'[i] = toServer[i]
              \/ i > Len(toServer) /\ toServer'[i].kind = "put" /\ toServer'[i].as = authToken
        BY <1>2, <1>3, <2>5 DEF Joins, Restored
      <3>2. \A i \in DOMAIN toServer' :
              i > Len(toServer) => Credential(toServer'[i]) = authToken /\ toServer'[i].as = authToken
        BY <1>2, <3>1 DEF Credential
      <3>3. toServer # <<>> => toServer'[Len(toServer)] = toServer[Len(toServer)]
        BY <1>2, <2>5 DEF Joins
      <3>4. Len(toServer) <= Len(toServer')
        BY <1>2, <2>5 DEF Joins
      <3>5. ASSUME NEW i \in DOMAIN toServer', toServer'[i].kind = "put"
            PROVE  toServer'[i].as = IF i = 1 THEN session ELSE Credential(toServer'[i - 1])
        <4>1. CASE i \in DOMAIN toServer
          <5>1. i = 1 \/ i - 1 \in DOMAIN toServer
            BY <1>2, <4>1
          <5>2. toServer'[i] = toServer[i] /\ (i # 1 => toServer'[i - 1] = toServer[i - 1])
            BY <2>5, <4>1, <5>1 DEF Joins
          <5> QED
            BY <2>2, <3>5, <4>1, <5>2
        <4>2. CASE i = Len(toServer) + 1
          <5>1. toServer'[i].as = authToken
            BY <1>2, <3>2, <4>2
          <5>2. CASE toServer = <<>>
            BY <1>2, <2>2, <4>2, <5>1, <5>2
          <5>3. CASE toServer # <<>>
            <6>1. i # 1 /\ i - 1 = Len(toServer)
              BY <1>2, <4>2, <5>3
            <6> QED
              BY <2>2, <3>3, <5>1, <5>3, <6>1
          <5> QED
            BY <5>2, <5>3
        <4>3. CASE i > Len(toServer) + 1
          <5>1. i # 1 /\ i - 1 \in DOMAIN toServer' /\ i - 1 > Len(toServer)
            BY <1>2, <1>3, <4>3
          <5> QED
            BY <1>2, <1>3, <3>2, <4>3, <5>1
        <4> QED
          BY <1>2, <1>3, <4>1, <4>2, <4>3
      <3>6. authToken = Last(toServer', session)
        <4>1. CASE Len(toServer') = Len(toServer)
          BY <1>2, <1>3, <2>2, <3>3, <4>1
        <4>2. CASE Len(toServer') > Len(toServer)
          <5>1. Len(toServer') \in DOMAIN toServer' /\ toServer' # <<>>
            BY <1>2, <1>3, <4>2
          <5> QED
            BY <1>2, <3>2, <4>2, <5>1
        <4>3. Len(toServer') = Len(toServer) \/ Len(toServer') > Len(toServer)
          <5>1. Len(toServer) \in Nat /\ Len(toServer') \in Nat
            BY <1>2, <1>3
          <5> QED
            BY <3>4, <5>1
        <4> QED
          BY <4>1, <4>2, <4>3
      <3> QED
        BY <2>3, <3>5, <3>6
    <2> QED
      BY <1>8, <2>4, <2>5 DEF LearnsOfAuth
  <1>9. CASE LearnsOfPut
    <2>1. ~Refused
      <3> SUFFICES ASSUME NEW m \in DOMAIN toClient,
                          \/ toClient[m].request.kind = "revoked"
                          \/ toClient[m].request.kind = "auth" /\ toClient[m].status = "error"
                   PROVE  FALSE
        BY DEF Refused
      <3>1. m # 1
        BY <1>9 DEF LearnsOfPut
      <3>2. m - 1 \in DOMAIN toClient' /\ toClient'[m - 1] = toClient[m]
        BY <1>2, <1>9, <3>1 DEF LearnsOfPut, Drops
      <3> QED
        BY <3>2 DEF Refused
    <2> QED
      BY <1>1, <1>9, <2>1 DEF LearnsOfPut, connected
  <1>10. ASSUME NEW r, Adds(toServer, toServer', r), UNCHANGED <<toClient, session>>, connected,
                Credential(r) = authToken', r.kind = "put" => r.as = authToken
         PROVE  Tagged(toServer', session') /\ authToken' = Last(toServer', session')
    <2>1. Tagged(toServer, session) /\ authToken = Last(toServer, session)
      BY <1>1, <1>10 DEF Refused
    <2>2. toServer' # <<>>
      BY <1>2, <1>3, <1>10 DEF Adds
    <2>3. ASSUME NEW i \in DOMAIN toServer', toServer'[i].kind = "put"
          PROVE  toServer'[i].as = IF i = 1 THEN session ELSE Credential(toServer'[i - 1])
      <3>1. CASE i \in DOMAIN toServer
        <4>1. i = 1 \/ i - 1 \in DOMAIN toServer
          BY <1>2, <3>1
        <4>2. toServer'[i] = toServer[i] /\ (i # 1 => toServer'[i - 1] = toServer[i - 1])
          BY <1>10, <3>1, <4>1 DEF Adds
        <4> QED
          BY <2>1, <2>3, <3>1, <4>2
      <3>2. CASE i = Len(toServer) + 1
        <4>1. toServer'[i].as = authToken
          BY <1>10, <2>3, <3>2 DEF Adds
        <4>2. CASE toServer = <<>>
          BY <1>2, <2>1, <3>2, <4>1, <4>2
        <4>3. CASE toServer # <<>>
          <5>1. i # 1 /\ i - 1 = Len(toServer) /\ Len(toServer) \in DOMAIN toServer
            BY <1>2, <3>2, <4>3
          <5>2. toServer'[i - 1] = toServer[Len(toServer)]
            BY <1>10, <5>1 DEF Adds
          <5> QED
            BY <2>1, <4>1, <4>3, <5>1, <5>2
        <4> QED
          BY <4>2, <4>3
      <3> QED
        BY <1>2, <1>3, <1>10, <3>1, <3>2 DEF Adds
    <2> QED
      BY <1>10, <2>2, <2>3 DEF Adds
  <1>11. CASE SendsUser
    <2>1. PICK r \in Requests : /\ Adds(toServer, toServer', r) /\ Credential(r) = authToken'
                                /\ r.kind # "put"
      BY <1>11 DEF SendsUser
    <2> QED
      BY <1>10, <1>11, <2>1 DEF SendsUser
  <1>12. CASE MakesPut
    <2>1. CASE canSendWrites
      <3>1. PICK r : r = putRequest(putCounter)
        OBVIOUS
      <3>2. Credential(r) = authToken /\ r.as = authToken
        BY <3>1 DEF putRequest, Credential
      <3>3. Adds(toServer, toServer', r)
        BY <1>12, <2>1, <3>1 DEF MakesPut
      <3>4. connected /\ UNCHANGED <<toClient, session, authToken>>
        BY <1>12, <2>1 DEF MakesPut, canSendWrites, connected
      <3> QED
        BY <1>10, <3>2, <3>3, <3>4
    <2>2. CASE ~canSendWrites
      BY <1>1, <1>12, <2>2 DEF MakesPut, connected, Refused
    <2> QED
      BY <2>1, <2>2
  <1>13. ASSUME Drops(toServer, toServer'), session' = Credential(toServer[1]), ~Refused,
                UNCHANGED <<connectionState, authToken>>
         PROVE  Tagged(toServer', session') /\ (connected' => authToken' = Last(toServer', session'))
    <2>1. Tagged(toServer, session) /\ (connected => authToken = Last(toServer, session))
      BY <1>1, <1>13
    <2>2. ASSUME NEW i \in DOMAIN toServer', toServer'[i].kind = "put"
          PROVE  toServer'[i].as = IF i = 1 THEN session' ELSE Credential(toServer'[i - 1])
      <3>1. i + 1 \in DOMAIN toServer /\ i + 1 # 1 /\ toServer'[i] = toServer[i + 1] /\ i \in Nat
        BY <1>2, <1>13 DEF Drops
      <3>2. toServer'[i].as = Credential(toServer[i + 1 - 1])
        BY <2>1, <2>2, <3>1
      <3>3. toServer'[i].as = Credential(toServer[i])
        BY <3>1, <3>2
      <3>4. CASE i = 1
        BY <1>13, <3>3, <3>4
      <3>5. CASE i # 1
        <4>1. i - 1 \in DOMAIN toServer' /\ i - 1 + 1 = i
          BY <1>3, <3>5
        <4>2. toServer'[i - 1] = toServer[i]
          BY <1>13, <4>1 DEF Drops
        <4> QED
          BY <3>3, <3>5, <4>2
      <3> QED
        BY <3>4, <3>5
    <2>3. ASSUME connected PROVE authToken = Last(toServer', session')
      <3>1. authToken = Credential(toServer[Len(toServer)])
        BY <1>2, <1>13, <2>1, <2>3 DEF Drops
      <3>2. CASE toServer' = <<>>
        BY <1>2, <1>3, <1>13, <3>1, <3>2 DEF Drops
      <3>3. CASE toServer' # <<>>
        <4>1. Len(toServer') \in DOMAIN toServer' /\ Len(toServer') + 1 = Len(toServer)
          BY <1>2, <1>3, <1>13, <3>3 DEF Drops
        <4> QED
          BY <1>13, <3>1, <3>3, <4>1 DEF Drops
      <3> QED
        BY <3>2, <3>3
    <2> QED
      BY <1>13, <2>2, <2>3 DEF connected
  <1>14. ASSUME NEW r, Adds(toClient, toClient', r)
         PROVE  ~Refused /\ r.request.kind # "revoked" /\ ~(r.request.kind = "auth" /\ r.status = "error")
    <2>1. ~Refused
      BY <1>2, <1>14 DEF Refused, Adds
    <2>2. Len(toClient') \in DOMAIN toClient'
      BY <1>14 DEF Adds
    <2> QED
      BY <1>14, <2>1, <2>2 DEF Refused, Adds
  <1>15. CASE ServesAuth
    <2>1. PICK r \in Replies :
            /\ Adds(toClient, toClient', r) /\ r.request = toServer[1]
            /\ \/ r.status = "ok" /\ session' = toServer[1].token
               \/ r.status = "error"
      BY <1>15 DEF ServesAuth
    <2>2. ~Refused /\ session' = toServer[1].token
      BY <1>14, <1>15, <2>1 DEF ServesAuth
    <2> QED
      BY <1>13, <1>15, <2>2 DEF ServesAuth, Credential
  <1>16. CASE ServesUnauth
    <2>1. ~Refused
      BY <1>16 DEF ServesUnauth, Refused
    <2> QED
      BY <1>13, <1>16, <2>1 DEF ServesUnauth, Credential
  <1>17. CASE ServesPut
    <2>1. PICK r \in Replies : Adds(toClient, toClient', r)
      BY <1>17 DEF ServesPut
    <2>2. ~Refused
      BY <1>14, <2>1
    <2>3. 1 \in DOMAIN toServer
      BY <1>17 DEF ServesPut, Drops
    <2>4. session' = Credential(toServer[1])
      BY <1>1, <1>17, <2>2, <2>3 DEF ServesPut, Credential
    <2> QED
      BY <1>13, <1>17, <2>2, <2>4 DEF ServesPut
  <1>18. CASE PushesToClient
    <2>1. PICK r \in Pushes : /\ Adds(toClient, toClient', r)
                              /\ r.request.kind = "revoked" \/ UNCHANGED session
      BY <1>18 DEF PushesToClient
    <2>2. ~Refused /\ UNCHANGED session
      BY <1>14, <2>1
    <2> QED
      BY <1>1, <1>18, <2>2 DEF PushesToClient, connected
  <1> QED
    BY <1>4, <1>5, <1>6, <1>7, <1>8, <1>9, <1>11, <1>12, <1>15, <1>16, <1>17, <1>18 DEF Shaped

----------------------------------------------------------------------------
(***************************************************************************)
(* The writes are sent in order, and again on every new connection.        *)
(***************************************************************************)
LEMMA RestoreStep ==
  ASSUME ConnectionInv, WireType', Quiet \/ Closes \/ Shaped
  PROVE  RestoreComesFirst'
  <1> DEFINE First(s, t, state) ==
               \A i \in DOMAIN s :
                 Restores(s[i]) =>
                   /\ i = 1 /\ state = "Authenticating"
                   /\ \A m \in DOMAIN t : t[m].request.kind \notin {"auth", "put"}
             Answered(t, state) ==
               \A m \in DOMAIN t :
                 Restores(t[m].request) =>
                   /\ state = "Authenticating"
                   /\ \A n \in 1 .. m - 1 : t[n].request.kind \notin {"auth", "put"}
             NoPuts(s, t) ==
               /\ \A i \in DOMAIN s : s[i].kind # "put"
               /\ \A m \in DOMAIN t : t[m].request.kind # "put"
             Restoring(s, t) ==
               \/ \E i \in DOMAIN s : Restores(s[i])
               \/ \E m \in DOMAIN t : Restores(t[m].request)
             Waits(s, t, state) == state = "Authenticating" => NoPuts(s, t) /\ Restoring(s, t)
  <1>1. First(toServer, toClient, connectionState) /\ Answered(toClient, connectionState)
        /\ Waits(toServer, toClient, connectionState)
    BY DEF ConnectionInv, RestoreComesFirst
  <1> SUFFICES First(toServer', toClient', connectionState') /\ Answered(toClient', connectionState')
               /\ Waits(toServer', toClient', connectionState')
    BY DEF RestoreComesFirst, Restores
  <1>2. /\ Len(toServer) \in Nat /\ DOMAIN toServer = 1 .. Len(toServer)
        /\ Len(toClient) \in Nat /\ DOMAIN toClient = 1 .. Len(toClient)
    BY QueuesAreIndexed DEF ConnectionInv
  <1>3. /\ Len(toServer') \in Nat /\ DOMAIN toServer' = 1 .. Len(toServer')
        /\ Len(toClient') \in Nat /\ DOMAIN toClient' = 1 .. Len(toClient')
    BY QueuesAreIndexed
  <1>4. CASE Quiet
    <2>1. UNCHANGED <<toServer, toClient>>
      BY <1>4 DEF Quiet
    <2>2. CASE UNCHANGED connectionState
      BY <1>1, <2>1, <2>2
    <2>3. CASE ~connected /\ ~connected'
      <3>1. toServer = <<>> /\ toClient = <<>>
        BY <2>3, DownIsEmpty DEF ConnectionInv
      <3>2. DOMAIN toServer' = {} /\ DOMAIN toClient' = {}
        BY <2>1, <3>1
      <3>3. connectionState' # "Authenticating"
        BY <2>3 DEF connected
      <3> QED
        BY <3>2, <3>3
    <2> QED
      BY <1>4, <2>2, <2>3 DEF Quiet
  <1>5. CASE Closes
    <2>1. DOMAIN toServer' = {} /\ DOMAIN toClient' = {} /\ connectionState' # "Authenticating"
      BY <1>5 DEF Closes
    <2> QED
      BY <2>1
  <1>6. CASE Opens
    <2>1. /\ DOMAIN toServer' = {1} /\ DOMAIN toClient' = {}
          /\ connectionState' = "Authenticating"
          /\ toServer'[1].kind = "auth" /\ toServer'[1].restore
      BY <1>6 DEF Opens, authRequest
    <2> QED
      BY <2>1 DEF Restores
  <1>7. CASE OpensWithoutUser
    <2>1. /\ DOMAIN toClient' = {} /\ connectionState' = "Connected"
          /\ \A i \in DOMAIN toServer' : toServer'[i].kind = "put"
      BY <1>7 DEF OpensWithoutUser, Restored
    <2> QED
      BY <2>1 DEF Restores
  <1>8. CASE LearnsOfAuth
    <2>1. 1 \in DOMAIN toClient /\ toClient[1].request.kind = "auth" /\ connectionState' = "Connected"
      BY <1>8 DEF LearnsOfAuth, Drops
    <2>2. \A i \in DOMAIN toServer : ~Restores(toServer[i])
      BY <1>1, <2>1
    <2>3. \A m \in DOMAIN toClient' : m + 1 \in DOMAIN toClient /\ toClient'[m] = toClient[m + 1]
      BY <1>2, <1>3, <1>8 DEF LearnsOfAuth, Drops
    <2>4. ASSUME NEW m \in DOMAIN toClient' PROVE ~Restores(toClient'[m].request)
      <3>1. m + 1 \in DOMAIN toClient /\ 1 \in 1 .. (m + 1) - 1
        BY <1>3, <2>3
      <3> QED
        BY <1>1, <2>1, <2>3, <3>1
    <2>5. ASSUME NEW i \in DOMAIN toServer' PROVE ~Restores(toServer'[i])
      <3>1. CASE UNCHANGED toServer
        BY <2>2, <3>1
      <3>2. CASE Joins(toServer, toServer', restoreState) /\ Restored(restoreState)
        <4>1. \/ i \in DOMAIN toServer /\ toServer'[i] = toServer[i]
              \/ toServer'[i].kind = "put"
          BY <1>2, <1>3, <3>2 DEF Joins, Restored
        <4> QED
          BY <2>2, <4>1 DEF Restores
      <3> QED
        BY <1>8, <3>1, <3>2 DEF LearnsOfAuth
    <2> QED
      BY <2>1, <2>4, <2>5
  <1>9. CASE LearnsOfPut
    <2>1. 1 \in DOMAIN toClient /\ toClient[1].request.kind = "put" /\ UNCHANGED <<toServer, connectionState>>
      BY <1>9 DEF LearnsOfPut, Drops
    <2>2. connectionState # "Authenticating"
      BY <1>1, <2>1
    <2>3. \A m \in DOMAIN toClient' : m + 1 \in DOMAIN toClient /\ toClient'[m] = toClient[m + 1]
      BY <1>2, <1>3, <1>9 DEF LearnsOfPut, Drops
    <2> QED
      BY <1>1, <2>1, <2>2, <2>3
  <1>10. CASE SendsUser
    <2>1. PICK r \in Requests : Adds(toServer, toServer', r) /\ r.kind # "put" /\ ~Restores(r)
      BY <1>10 DEF SendsUser
    <2>2. UNCHANGED <<toClient, connectionState>>
      BY <1>10 DEF SendsUser
    <2>3. \A i \in DOMAIN toServer' : \/ i \in DOMAIN toServer /\ toServer'[i] = toServer[i]
                                      \/ toServer'[i] = r
      BY <1>2, <1>3, <2>1 DEF Adds
    <2>4. \A i \in DOMAIN toServer : i \in DOMAIN toServer' /\ toServer'[i] = toServer[i]
      BY <1>2, <1>3, <2>1 DEF Adds
    <2>5. First(toServer', toClient', connectionState')
      BY <1>1, <2>1, <2>2, <2>3
    <2>6. Answered(toClient', connectionState')
      BY <1>1, <2>2
    <2>7. Waits(toServer', toClient', connectionState')
      BY <1>1, <2>1, <2>2, <2>3, <2>4
    <2> QED
      BY <2>5, <2>6, <2>7
  <1>11. CASE MakesPut
    <2>1. UNCHANGED <<toClient, connectionState>>
      BY <1>11 DEF MakesPut
    <2>2. CASE canSendWrites
      <3>1. PICK r : r = putRequest(putCounter)
        OBVIOUS
      <3>2. r.kind = "put"
        BY <3>1 DEF putRequest
      <3>3. Adds(toServer, toServer', r)
        BY <1>11, <2>2, <3>1 DEF MakesPut
      <3>4. \A i \in DOMAIN toServer' : \/ i \in DOMAIN toServer /\ toServer'[i] = toServer[i]
                                        \/ toServer'[i] = r
        BY <1>2, <1>3, <3>3 DEF Adds
      <3>5. connectionState # "Authenticating"
        BY <2>2 DEF canSendWrites
      <3>6. First(toServer', toClient', connectionState')
        BY <1>1, <2>1, <3>2, <3>4 DEF Restores
      <3> QED
        BY <1>1, <2>1, <3>5, <3>6
    <2>3. CASE ~canSendWrites
      <3>1. UNCHANGED toServer
        BY <1>11, <2>3 DEF MakesPut
      <3> QED
        BY <1>1, <2>1, <3>1
    <2> QED
      BY <2>2, <2>3
  <1>12. ASSUME Drops(toServer, toServer')
         PROVE  /\ \A i \in DOMAIN toServer' : i + 1 \in DOMAIN toServer /\ toServer'[i] = toServer[i + 1]
                /\ \A i \in DOMAIN toServer' : ~Restores(toServer'[i])
                /\ \A i \in DOMAIN toServer : Restores(toServer[i]) => Restores(toServer[1])
    <2>1. \A i \in DOMAIN toServer' : i + 1 \in DOMAIN toServer /\ i + 1 # 1 /\ toServer'[i] = toServer[i + 1]
      BY <1>2, <1>3, <1>12 DEF Drops
    <2> QED
      BY <1>1, <2>1
  <1>13. ASSUME NEW r, Adds(toClient, toClient', r)
         PROVE  /\ \A m \in DOMAIN toClient : m \in DOMAIN toClient' /\ toClient'[m] = toClient[m]
                /\ \A m \in DOMAIN toClient' : \/ m \in DOMAIN toClient /\ toClient'[m] = toClient[m]
                                               \/ m = Len(toClient) + 1 /\ toClient'[m] = r
                /\ Len(toClient) + 1 \in DOMAIN toClient' /\ toClient'[Len(toClient) + 1] = r
    BY <1>2, <1>3, <1>13 DEF Adds
  <1>14. ASSUME NEW r, Adds(toClient, toClient', r), ~Restores(r.request),
                UNCHANGED connectionState
         PROVE  Answered(toClient', connectionState')
    <2> SUFFICES ASSUME NEW m \in DOMAIN toClient', Restores(toClient'[m].request)
                 PROVE  /\ connectionState = "Authenticating"
                        /\ \A n \in 1 .. m - 1 : toClient'[n].request.kind \notin {"auth", "put"}
      BY <1>14
    <2>1. m \in DOMAIN toClient /\ toClient'[m] = toClient[m]
      BY <1>13, <1>14
    <2>2. \A n \in 1 .. m - 1 : n \in DOMAIN toClient
      BY <1>2, <2>1
    <2> QED
      BY <1>1, <1>13, <1>14, <2>1, <2>2
  <1>15. CASE ServesAuth
    <2>1. PICK r \in Replies : Adds(toClient, toClient', r) /\ r.request = toServer[1]
      BY <1>15 DEF ServesAuth
    <2>2. Drops(toServer, toServer') /\ toServer[1].kind = "auth" /\ UNCHANGED connectionState
      BY <1>15 DEF ServesAuth
    <2>3. First(toServer', toClient', connectionState')
      BY <1>12, <2>2
    <2>4. Answered(toClient', connectionState')
      <3>1. CASE ~Restores(toServer[1])
        BY <1>14, <2>1, <2>2, <3>1
      <3>2. CASE Restores(toServer[1])
        <4>1. 1 \in DOMAIN toServer
          BY <2>2 DEF Drops
        <4>2. /\ connectionState = "Authenticating"
              /\ \A m \in DOMAIN toClient : toClient[m].request.kind \notin {"auth", "put"}
          BY <1>1, <3>2, <4>1
        <4> SUFFICES ASSUME NEW m \in DOMAIN toClient', NEW n \in 1 .. m - 1
                     PROVE  toClient'[n].request.kind \notin {"auth", "put"}
          BY <2>2, <4>2
        <4>3. n \in DOMAIN toClient
          <5>1. m <= Len(toClient) + 1 /\ m \in Nat
            BY <1>2, <1>13, <2>1
          <5> QED
            BY <1>2, <5>1
        <4> QED
          BY <1>13, <2>1, <4>2, <4>3
      <3> QED
        BY <3>1, <3>2
    <2>5. Waits(toServer', toClient', connectionState')
      <3> SUFFICES ASSUME connectionState = "Authenticating"
                   PROVE  NoPuts(toServer', toClient') /\ Restoring(toServer', toClient')
        BY <2>2
      <3>1. NoPuts(toServer, toClient) /\ Restoring(toServer, toClient)
        BY <1>1
      <3>2. NoPuts(toServer', toClient')
        <4>1. \A i \in DOMAIN toServer' : toServer'[i].kind # "put"
          BY <1>12, <2>2, <3>1
        <4>2. r.request.kind # "put"
          BY <2>1, <2>2
        <4>3. \A m \in DOMAIN toClient' : toClient'[m].request.kind # "put"
          BY <1>13, <2>1, <3>1, <4>2
        <4> QED
          BY <4>1, <4>3
      <3>3. CASE \E m \in DOMAIN toClient : Restores(toClient[m].request)
        BY <1>13, <2>1, <3>2, <3>3
      <3>4. CASE \E i \in DOMAIN toServer : Restores(toServer[i])
        <4>1. Restores(r.request)
          <5>1. Restores(toServer[1])
            BY <1>12, <2>2, <3>4
          <5> QED
            BY <2>1, <5>1
        <4> QED
          BY <1>13, <2>1, <3>2, <4>1
      <3> QED
        BY <3>1, <3>3, <3>4
    <2> QED
      BY <2>3, <2>4, <2>5
  <1>16. CASE ServesUnauth
    <2>1. Drops(toServer, toServer') /\ ~Restores(toServer[1]) /\ UNCHANGED <<connectionState, toClient>>
      BY <1>16 DEF ServesUnauth, Restores
    <2>2. First(toServer', toClient', connectionState')
      BY <1>12, <2>1
    <2>3. Answered(toClient', connectionState')
      BY <1>1, <2>1
    <2>4. Waits(toServer', toClient', connectionState')
      BY <1>1, <1>12, <2>1
    <2> QED
      BY <2>2, <2>3, <2>4
  <1>17. CASE ServesPut
    <2>1. PICK r \in Replies : Adds(toClient, toClient', r) /\ r.request = toServer[1]
      BY <1>17 DEF ServesPut
    <2>2. Drops(toServer, toServer') /\ toServer[1].kind = "put" /\ UNCHANGED connectionState
      BY <1>17 DEF ServesPut
    <2>3. First(toServer', toClient', connectionState')
      BY <1>12, <2>2
    <2>4. Answered(toClient', connectionState')
      BY <1>14, <2>1, <2>2 DEF Restores
    <2>5. connectionState # "Authenticating"
      <3>1. 1 \in DOMAIN toServer
        BY <2>2 DEF Drops
      <3> QED
        BY <1>1, <2>2, <3>1
    <2> QED
      BY <2>2, <2>3, <2>4, <2>5
  <1>18. CASE PushesToClient
    <2>1. PICK r \in Pushes : Adds(toClient, toClient', r)
      BY <1>18 DEF PushesToClient
    <2>2. r.request.kind \notin {"auth", "put"}
      BY DEF Pushes
    <2>3. UNCHANGED <<connectionState, toServer>>
      BY <1>18 DEF PushesToClient
    <2>4. First(toServer', toClient', connectionState')
      BY <1>1, <1>13, <2>1, <2>2, <2>3
    <2>5. Answered(toClient', connectionState')
      BY <1>14, <2>1, <2>2, <2>3 DEF Restores
    <2>6. Waits(toServer', toClient', connectionState')
      BY <1>1, <1>13, <2>1, <2>2, <2>3
    <2> QED
      BY <2>4, <2>5, <2>6
  <1> QED
    BY <1>4, <1>5, <1>6, <1>7, <1>8, <1>9, <1>10, <1>11, <1>15, <1>16, <1>17, <1>18 DEF Shaped

\* Most steps only move the puts on their way, if at all: what is on its way was
\* before, in the same order, and nothing that was is gone from a connection that
\* is ready.
CarriesPuts ==
  /\ UNCHANGED <<completions, stored>>
  /\ \E d \in {0, 1} : \A i \in DOMAIN toServer' :
       toServer'[i].kind = "put" => i + d \in DOMAIN toServer /\ toServer'[i] = toServer[i + d]
  /\ \E d \in {0, 1} : \A m \in DOMAIN toClient' :
       toClient'[m].request.kind = "put" => m + d \in DOMAIN toClient /\ toClient'[m] = toClient[m + d]
  /\ canSendWrites' =>
       /\ canSendWrites
       /\ \A i \in DOMAIN toServer :
            toServer[i].kind = "put" => \E j \in DOMAIN toServer' : toServer'[j] = toServer[i]
       /\ \A m \in DOMAIN toClient :
            toClient[m].request.kind = "put" => \E n \in DOMAIN toClient' : toClient'[n] = toClient[m]

LEMMA AddedKeeps ==
  ASSUME NEW s, NEW t, NEW e, Adds(s, t, e)
  PROVE  /\ \A i \in DOMAIN t : t[i] = e \/ (i + 0 \in DOMAIN s /\ t[i] = s[i + 0])
         /\ \A i \in DOMAIN s : i \in DOMAIN t /\ t[i] = s[i]
         /\ Len(s) + 1 \in DOMAIN t /\ t[Len(s) + 1] = e
  <1>1. ASSUME NEW i \in DOMAIN t PROVE t[i] = e \/ (i + 0 \in DOMAIN s /\ t[i] = s[i + 0])
    <2>1. i \in Nat /\ (i = Len(t) \/ i \in DOMAIN s)
      BY DEF Adds
    <2>2. i + 0 = i
      BY <2>1
    <2> QED
      BY <2>1, <2>2 DEF Adds
  <1>2. \A i \in DOMAIN s : i \in DOMAIN t /\ t[i] = s[i]
    BY DEF Adds
  <1>3. Len(s) + 1 \in DOMAIN t /\ t[Len(s) + 1] = e
    BY DEF Adds
  <1> QED
    BY <1>1, <1>2, <1>3

LEMMA DroppedShifts ==
  ASSUME NEW s, NEW t, Drops(s, t)
  PROVE  /\ \A i \in DOMAIN t : i + 1 \in DOMAIN s /\ t[i] = s[i + 1]
         /\ \A i \in DOMAIN s : i = 1 \/ \E j \in DOMAIN t : j = i - 1 /\ t[j] = s[i]
         /\ 1 \in DOMAIN s /\ DOMAIN s \subseteq Nat \ {0}
  <1>1. \A i \in DOMAIN t : i + 1 \in DOMAIN s /\ t[i] = s[i + 1]
    BY DEF Drops
  <1>2. ASSUME NEW i \in DOMAIN s, i # 1 PROVE \E j \in DOMAIN t : j = i - 1 /\ t[j] = s[i]
    <2>1. i - 1 \in DOMAIN t /\ i - 1 + 1 = i
      BY <1>2 DEF Drops
    <2> QED
      BY <2>1 DEF Drops
  <1> QED
    BY <1>1, <1>2 DEF Drops

LEMMA OrdinarySteps ==
  ASSUME ConnectionInv,
         \/ Quiet \/ Closes \/ Opens \/ SendsUser \/ ServesAuth \/ ServesUnauth \/ PushesToClient
         \/ LearnsOfAuth /\ ~Restores(toClient[1].request)
  PROVE  CarriesPuts /\ UNCHANGED <<putCounter, outstandingPuts>>
  <1> USE DEF Writes
  <1>1. DOMAIN toServer \subseteq Nat /\ DOMAIN toClient \subseteq Nat
    BY QueuesAreIndexed DEF ConnectionInv
  <1>2. CASE Quiet
    <2>1. UNCHANGED <<toServer, toClient, putCounter, outstandingPuts, completions, stored>>
      BY <1>2 DEF Quiet
    <2>2. canSendWrites' => canSendWrites
      BY <1>2 DEF Quiet, canSendWrites, connected
    <2> QED
      BY <1>1, <2>1, <2>2 DEF CarriesPuts
  <1>3. CASE Closes
    <2>1. DOMAIN toServer' = {} /\ DOMAIN toClient' = {} /\ ~canSendWrites'
      BY <1>3 DEF Closes, canSendWrites
    <2> QED
      BY <1>3, <2>1 DEF Closes, CarriesPuts
  <1>4. CASE Opens
    <2>1. /\ DOMAIN toClient' = {} /\ ~canSendWrites'
          /\ \A i \in DOMAIN toServer' : toServer'[i].kind # "put"
      BY <1>4 DEF Opens, canSendWrites, authRequest
    <2> QED
      BY <1>4, <2>1 DEF Opens, CarriesPuts
  <1>5. CASE SendsUser
    <2>1. PICK r \in Requests : Adds(toServer, toServer', r) /\ r.kind # "put"
      BY <1>5 DEF SendsUser
    <2>2. UNCHANGED <<connectionState, toClient, putCounter, outstandingPuts, completions, stored>>
      BY <1>5 DEF SendsUser
    <2> QED
      BY <1>1, <2>1, <2>2, AddedKeeps DEF CarriesPuts, canSendWrites
  <1>6. CASE ServesAuth
    <2>1. PICK r \in Replies : Adds(toClient, toClient', r) /\ r.request = toServer[1]
      BY <1>6 DEF ServesAuth
    <2>2. /\ Drops(toServer, toServer') /\ toServer[1].kind # "put"
          /\ UNCHANGED <<connectionState, putCounter, outstandingPuts, completions, stored>>
      BY <1>6 DEF ServesAuth
    <2>3. r.request.kind # "put"
      BY <2>1, <2>2
    <2> QED
      BY <1>1, <2>1, <2>2, <2>3, AddedKeeps, DroppedShifts DEF CarriesPuts, canSendWrites
  <1>7. CASE ServesUnauth
    <2>1. /\ Drops(toServer, toServer') /\ toServer[1].kind # "put"
          /\ UNCHANGED <<connectionState, toClient, putCounter, outstandingPuts, completions, stored>>
      BY <1>7 DEF ServesUnauth
    <2> QED
      BY <1>1, <2>1, DroppedShifts DEF CarriesPuts, canSendWrites
  <1>8. CASE PushesToClient
    <2>1. PICK r \in Pushes : Adds(toClient, toClient', r)
      BY <1>8 DEF PushesToClient
    <2>2. r.request.kind # "put"
      BY DEF Pushes
    <2>3. UNCHANGED <<connectionState, toServer, putCounter, outstandingPuts, completions, stored>>
      BY <1>8 DEF PushesToClient
    <2> QED
      BY <1>1, <2>1, <2>2, <2>3, AddedKeeps DEF CarriesPuts, canSendWrites
  <1>9. CASE LearnsOfAuth /\ ~Restores(toClient[1].request)
    <2>1. /\ Drops(toClient, toClient') /\ toClient[1].request.kind = "auth" /\ connected
          /\ UNCHANGED <<toServer, putCounter, outstandingPuts, completions, stored>>
      BY <1>9 DEF LearnsOfAuth
    <2>2. connectionState # "Authenticating"
      <3> SUFFICES ASSUME connectionState = "Authenticating" PROVE FALSE
        OBVIOUS
      <3>1. 1 \in DOMAIN toClient /\ DOMAIN toClient \subseteq Nat \ {0}
        BY <2>1, DroppedShifts
      <3>2. \A i \in DOMAIN toServer : ~Restores(toServer[i])
        BY <2>1, <3>1 DEF ConnectionInv, RestoreComesFirst
      <3>3. PICK m \in DOMAIN toClient : Restores(toClient[m].request)
        BY <3>2 DEF ConnectionInv, RestoreComesFirst
      <3>4. 1 \in 1 .. m - 1
        BY <1>9, <3>1, <3>3
      <3>5. toClient[1].request.kind # "auth"
        BY <3>3, <3>4 DEF ConnectionInv, RestoreComesFirst
      <3> QED
        BY <2>1, <3>5
    <2>3. canSendWrites
      BY <2>1, <2>2 DEF connected, canSendWrites
    <2> QED
      BY <1>1, <2>1, <2>3, DroppedShifts DEF CarriesPuts
  <1> QED
    BY <1>2, <1>3, <1>4, <1>5, <1>6, <1>7, <1>8, <1>9

\* The write that is answered is the oldest that is outstanding.
LEMMA OldestIsAnswered ==
  ASSUME ConnectionInv, LearnsOfPut
  PROVE  /\ canSendWrites
         /\ toClient[1].request.index = Len(completions) + 1
         /\ toClient[1].request.index \in outstandingPuts
         /\ toClient[1].status = "ok" => toClient[1].request.index <= stored
  <1> DEFINE index == toClient[1].request.index
  <1>1. Drops(toClient, toClient') /\ toClient[1].request.kind = "put" /\ connected
    BY DEF LearnsOfPut
  <1>2. 1 \in DOMAIN toClient /\ DOMAIN toClient \subseteq Nat \ {0} /\ PutAnswered(1)
    BY <1>1, DroppedShifts DEF PutAnswered
  <1>3. canSendWrites
    BY <1>1, <1>2 DEF ConnectionInv, RestoreComesFirst, canSendWrites, connected
  <1>4. index \in outstandingPuts /\ (toClient[1].status = "ok" => index <= stored)
    BY <1>2 DEF ConnectionInv, PutsInOrder
  <1>5. Len(completions) \in Nat /\ putCounter \in Nat
    BY LenProperties DEF ConnectionInv, PutsType
  <1>6. Len(completions) + 1 \in outstandingPuts /\ index >= Len(completions) + 1 /\ index \in Nat
    BY <1>4, <1>5 DEF ConnectionInv, OutstandingFollow
  <1>7. index <= Len(completions) + 1
    <2>1. CASE \E i \in DOMAIN toServer : PutSent(i) /\ toServer[i].index = Len(completions) + 1
      <3>1. PICK i \in DOMAIN toServer : PutSent(i) /\ toServer[i].index = Len(completions) + 1
        BY <2>1
      <3>2. index < toServer[i].index
        BY <1>2, <3>1 DEF ConnectionInv, PutsInOrder
      <3> QED
        BY <1>5, <1>6, <3>1, <3>2
    <2>2. CASE \E m \in DOMAIN toClient :
                 PutAnswered(m) /\ toClient[m].request.index = Len(completions) + 1
      <3>1. PICK m \in DOMAIN toClient :
              PutAnswered(m) /\ toClient[m].request.index = Len(completions) + 1
        BY <2>2
      <3>2. m = 1 \/ 1 < m
        BY <1>2
      <3>3. 1 < m => index < toClient[m].request.index
        BY <1>2, <3>1 DEF ConnectionInv, PutsInOrder
      <3> QED
        BY <1>5, <1>6, <3>1, <3>2, <3>3
    <2> QED
      BY <1>3, <1>6, <2>1, <2>2 DEF ConnectionInv, AllPutsSent
  <1> QED
    BY <1>3, <1>4, <1>5, <1>6, <1>7

LEMMA CountStep ==
  ASSUME ConnectionInv, Quiet \/ Closes \/ Shaped
  PROVE  OutstandingFollow' /\ PutsType'
  <1> USE DEF Writes
  <1>1. /\ putCounter \in Nat \ {0} /\ Len(completions) \in Nat /\ Len(completions) < putCounter
        /\ completions \in Seq([write : Nat, status : Status]) /\ stored \in 0 .. (putCounter - 1)
        /\ outstandingPuts = (Len(completions) + 1) .. (putCounter - 1)
    BY LenProperties DEF ConnectionInv, PutsType, OutstandingFollow
  <1>2. CASE UNCHANGED <<putCounter, outstandingPuts, completions, stored>>
    BY <1>1, <1>2 DEF PutsType, OutstandingFollow
  <1>3. CASE LearnsOfPut
    <2> DEFINE index == toClient[1].request.index
               reply == [write |-> index, status |-> toClient[1].status]
    <2>1. index = Len(completions) + 1 /\ index \in outstandingPuts
      BY <1>3, OldestIsAnswered
    <2>2. /\ outstandingPuts' = outstandingPuts \ {index}
          /\ completions' = Append(completions, reply) /\ UNCHANGED <<putCounter, stored>>
      BY <1>3, <2>1 DEF LearnsOfPut
    <2>3. reply \in [write : Nat, status : Status]
      BY <1>3 DEF LearnsOfPut
    <2> HIDE DEF reply
    <2>4. completions' \in Seq([write : Nat, status : Status]) /\ Len(completions') = Len(completions) + 1
      BY <1>1, <2>2, <2>3, AppendProperties
    <2>5. outstandingPuts' = (Len(completions) + 2) .. (putCounter - 1) /\ Len(completions) + 1 < putCounter
      BY <1>1, <2>1, <2>2
    <2> QED
      BY <1>1, <2>2, <2>4, <2>5 DEF PutsType, OutstandingFollow
  <1>4. CASE MakesPut
    <2>1. /\ putCounter' = putCounter + 1 /\ outstandingPuts' = outstandingPuts \cup {putCounter}
          /\ UNCHANGED <<completions, stored>>
      BY <1>4 DEF MakesPut
    <2>2. outstandingPuts' = (Len(completions) + 1) .. putCounter
      BY <1>1, <2>1
    <2> QED
      BY <1>1, <2>1, <2>2 DEF PutsType, OutstandingFollow
  <1>5. CASE ServesPut
    <2>1. UNCHANGED <<putCounter, outstandingPuts, completions>>
      BY <1>5 DEF ServesPut
    <2>2. stored' \in 0 .. (putCounter - 1)
      <3>1. 1 \in DOMAIN toServer /\ PutSent(1)
        BY <1>5, DroppedShifts DEF ServesPut, PutSent
      <3>2. toServer[1].index \in outstandingPuts
        BY <3>1 DEF ConnectionInv, PutsInOrder
      <3>3. stored' = stored \/ stored' = toServer[1].index
        BY <1>5 DEF ServesPut
      <3> QED
        BY <1>1, <3>2, <3>3
    <2> QED
      BY <1>1, <2>1, <2>2 DEF PutsType, OutstandingFollow
  <1>6. \/ UNCHANGED <<putCounter, outstandingPuts, completions, stored>>
        \/ LearnsOfPut \/ MakesPut \/ ServesPut
    BY DEF Quiet, Closes, Shaped, Opens, OpensWithoutUser, LearnsOfAuth, SendsUser, ServesAuth,
       ServesUnauth, PushesToClient
  <1> QED
    BY <1>2, <1>3, <1>4, <1>5, <1>6

LEMMA OrderStep ==
  ASSUME ConnectionInv, WireType', Quiet \/ Closes \/ Shaped
  PROVE  PutsInOrder'
  <1> USE DEF Writes
  <1> DEFINE Due(s, due) == \A i \in DOMAIN s : s[i].kind = "put" => s[i].index \in due
             Told(t, due, value) ==
               \A m \in DOMAIN t :
                 t[m].request.kind = "put" =>
                   /\ t[m].request.index \in due
                   /\ t[m].status = "ok" => t[m].request.index <= value
             Rises(s) ==
               \A i, j \in DOMAIN s :
                 s[i].kind = "put" /\ s[j].kind = "put" /\ i < j => s[i].index < s[j].index
             ToldRises(t) ==
               \A m, n \in DOMAIN t :
                 t[m].request.kind = "put" /\ t[n].request.kind = "put" /\ m < n =>
                   t[m].request.index < t[n].request.index
             Before(t, s) ==
               \A m \in DOMAIN t, i \in DOMAIN s :
                 t[m].request.kind = "put" /\ s[i].kind = "put" => t[m].request.index < s[i].index
  <1>1. /\ Due(toServer, outstandingPuts) /\ Told(toClient, outstandingPuts, stored)
        /\ Rises(toServer) /\ ToldRises(toClient) /\ Before(toClient, toServer)
    BY DEF ConnectionInv, PutsInOrder, PutSent, PutAnswered
  <1> SUFFICES /\ Due(toServer', outstandingPuts') /\ Told(toClient', outstandingPuts', stored')
               /\ Rises(toServer') /\ ToldRises(toClient') /\ Before(toClient', toServer')
    BY DEF PutsInOrder, PutSent, PutAnswered
  <1>2. /\ Len(toServer) \in Nat /\ DOMAIN toServer = 1 .. Len(toServer)
        /\ Len(toClient) \in Nat /\ DOMAIN toClient = 1 .. Len(toClient)
    BY QueuesAreIndexed DEF ConnectionInv
  <1>3. /\ Len(toServer') \in Nat /\ DOMAIN toServer' = 1 .. Len(toServer')
        /\ Len(toClient') \in Nat /\ DOMAIN toClient' = 1 .. Len(toClient')
    BY QueuesAreIndexed
  <1>4. /\ outstandingPuts \subseteq Nat /\ putCounter \in Nat /\ stored \in Nat
        /\ \A w \in outstandingPuts : w < putCounter
    BY LenProperties DEF ConnectionInv, PutsType, OutstandingFollow
  <1>5. DOMAIN toServer' \subseteq Nat /\ DOMAIN toClient' \subseteq Nat
    BY <1>3
  <1>6. CASE CarriesPuts /\ UNCHANGED outstandingPuts
    <2>1. PICK d \in {0, 1} : \A i \in DOMAIN toServer' :
            toServer'[i].kind = "put" => i + d \in DOMAIN toServer /\ toServer'[i] = toServer[i + d]
      BY <1>6 DEF CarriesPuts
    <2>2. PICK e \in {0, 1} : \A m \in DOMAIN toClient' :
            toClient'[m].request.kind = "put" =>
              m + e \in DOMAIN toClient /\ toClient'[m] = toClient[m + e]
      BY <1>6 DEF CarriesPuts
    <2>3. UNCHANGED <<outstandingPuts, stored>>
      BY <1>6 DEF CarriesPuts
    <2>4. Due(toServer', outstandingPuts') /\ Told(toClient', outstandingPuts', stored')
      BY <1>1, <2>1, <2>2, <2>3
    <2>5. Rises(toServer')
      <3> SUFFICES ASSUME NEW i \in DOMAIN toServer', NEW j \in DOMAIN toServer',
                          toServer'[i].kind = "put", toServer'[j].kind = "put", i < j
                   PROVE  toServer'[i].index < toServer'[j].index
        OBVIOUS
      <3>1. i + d < j + d
        BY <1>5
      <3> QED
        BY <1>1, <2>1, <3>1
    <2>6. ToldRises(toClient')
      <3> SUFFICES ASSUME NEW m \in DOMAIN toClient', NEW n \in DOMAIN toClient',
                          toClient'[m].request.kind = "put", toClient'[n].request.kind = "put", m < n
                   PROVE  toClient'[m].request.index < toClient'[n].request.index
        OBVIOUS
      <3>1. m + e < n + e
        BY <1>5
      <3> QED
        BY <1>1, <2>2, <3>1
    <2>7. Before(toClient', toServer')
      BY <1>1, <2>1, <2>2
    <2> QED
      BY <2>4, <2>5, <2>6, <2>7
  <1>7. CASE OpensWithoutUser
    <2>1. /\ toServer' = restoreState /\ Restored(restoreState) /\ DOMAIN toClient' = {}
          /\ UNCHANGED outstandingPuts
      BY <1>7 DEF OpensWithoutUser
    <2>2. Due(toServer', outstandingPuts') /\ Rises(toServer')
      BY <2>1 DEF Restored
    <2> QED
      BY <2>1, <2>2
  <1>8. CASE LearnsOfAuth /\ Restores(toClient[1].request)
    <2>1. /\ Drops(toClient, toClient') /\ Joins(toServer, toServer', restoreState)
          /\ Restored(restoreState) /\ UNCHANGED outstandingPuts
      BY <1>8 DEF LearnsOfAuth
    <2>2. 1 \in DOMAIN toClient /\ \A m \in DOMAIN toClient' : m + 1 \in DOMAIN toClient /\ toClient'[m] = toClient[m + 1]
      BY <2>1, DroppedShifts
    <2>3. connectionState = "Authenticating"
      BY <1>8, <2>2 DEF ConnectionInv, RestoreComesFirst
    <2>4. /\ \A i \in DOMAIN toServer : toServer[i].kind # "put"
          /\ \A m \in DOMAIN toClient : toClient[m].request.kind # "put"
      BY <2>3 DEF ConnectionInv, RestoreComesFirst
    <2>5. \A m \in DOMAIN toClient' : toClient'[m].request.kind # "put"
      BY <2>2, <2>4
    <2>6. \A i \in DOMAIN toServer' :
            toServer'[i].kind = "put" =>
              /\ i > Len(toServer) /\ i - Len(toServer) \in DOMAIN restoreState
              /\ toServer'[i] = restoreState[i - Len(toServer)]
      <3>1. \A i \in DOMAIN toServer' : i > Len(toServer) \/ i \in DOMAIN toServer
        BY <1>2, <1>3
      <3> QED
        BY <2>1, <2>4, <3>1 DEF Joins
    <2>7. Due(toServer', outstandingPuts')
      BY <2>1, <2>6 DEF Restored
    <2>8. Rises(toServer')
      <3> SUFFICES ASSUME NEW i \in DOMAIN toServer', NEW j \in DOMAIN toServer',
                          toServer'[i].kind = "put", toServer'[j].kind = "put", i < j
                   PROVE  toServer'[i].index < toServer'[j].index
        OBVIOUS
      <3>1. i - Len(toServer) < j - Len(toServer)
        BY <1>2, <1>5
      <3> QED
        BY <2>1, <2>6, <3>1 DEF Restored
    <2> QED
      BY <2>5, <2>7, <2>8
  <1>9. CASE LearnsOfPut
    <2> DEFINE index == toClient[1].request.index
    <2>1. /\ Drops(toClient, toClient') /\ toClient[1].request.kind = "put"
          /\ outstandingPuts' = outstandingPuts \ {index} /\ UNCHANGED <<toServer, stored>>
      BY <1>9 DEF LearnsOfPut
    <2>2. /\ 1 \in DOMAIN toClient
          /\ \A m \in DOMAIN toClient' : m + 1 \in DOMAIN toClient /\ toClient'[m] = toClient[m + 1]
      BY <2>1, DroppedShifts
    <2>3. index \in outstandingPuts
      BY <1>1, <2>1, <2>2
    <2>4. Due(toServer', outstandingPuts')
      <3> SUFFICES ASSUME NEW i \in DOMAIN toServer, toServer[i].kind = "put"
                   PROVE  toServer[i].index \in outstandingPuts \ {index}
        BY <2>1
      <3>1. toServer[i].index \in outstandingPuts /\ index < toServer[i].index
        BY <1>1, <2>1, <2>2
      <3>2. index \in Nat /\ toServer[i].index \in Nat
        BY <1>4, <2>3, <3>1
      <3> QED
        BY <3>1, <3>2
    <2>5. Told(toClient', outstandingPuts', stored')
      <3> SUFFICES ASSUME NEW m \in DOMAIN toClient', toClient'[m].request.kind = "put"
                   PROVE  /\ toClient'[m].request.index \in outstandingPuts \ {index}
                          /\ toClient'[m].status = "ok" => toClient'[m].request.index <= stored
        BY <2>1
      <3>1. m + 1 \in DOMAIN toClient /\ toClient'[m] = toClient[m + 1] /\ 1 < m + 1
        BY <1>3, <2>2
      <3>2. /\ toClient'[m].request.index \in outstandingPuts
            /\ toClient'[m].status = "ok" => toClient'[m].request.index <= stored
        BY <1>1, <3>1
      <3>3. index < toClient'[m].request.index
        BY <1>1, <2>1, <2>2, <3>1
      <3>4. index \in Nat /\ toClient'[m].request.index \in Nat
        BY <1>4, <2>3, <3>2
      <3> QED
        BY <3>2, <3>3, <3>4
    <2>6. Rises(toServer')
      BY <1>1, <2>1
    <2>7. ToldRises(toClient')
      <3> SUFFICES ASSUME NEW m \in DOMAIN toClient', NEW n \in DOMAIN toClient',
                          toClient'[m].request.kind = "put", toClient'[n].request.kind = "put", m < n
                   PROVE  toClient'[m].request.index < toClient'[n].request.index
        OBVIOUS
      <3>1. m + 1 < n + 1
        BY <1>5
      <3> QED
        BY <1>1, <2>2, <3>1
    <2>8. Before(toClient', toServer')
      BY <1>1, <2>1, <2>2
    <2> QED
      BY <2>4, <2>5, <2>6, <2>7, <2>8
  <1>10. CASE MakesPut
    <2>1. outstandingPuts' = outstandingPuts \cup {putCounter} /\ UNCHANGED <<toClient, stored>>
      BY <1>10 DEF MakesPut
    <2>2. Told(toClient', outstandingPuts', stored') /\ ToldRises(toClient')
      BY <1>1, <2>1
    <2>3. CASE UNCHANGED toServer
      BY <1>1, <2>1, <2>2, <2>3
    <2>4. CASE Adds(toServer, toServer', putRequest(putCounter))
      <3>1. PICK r : r = putRequest(putCounter)
        OBVIOUS
      <3>2. r.index = putCounter
        BY <3>1 DEF putRequest
      <3>3. \A i \in DOMAIN toServer' : \/ i = Len(toServer) + 1 /\ toServer'[i] = r
                                        \/ i \in DOMAIN toServer /\ toServer'[i] = toServer[i]
        BY <1>2, <1>3, <2>4, <3>1 DEF Adds
      <3>4. Due(toServer', outstandingPuts')
        BY <1>1, <2>1, <3>2, <3>3
      <3>5. Rises(toServer')
        <4> SUFFICES ASSUME NEW i \in DOMAIN toServer', NEW j \in DOMAIN toServer',
                            toServer'[i].kind = "put", toServer'[j].kind = "put", i < j
                     PROVE  toServer'[i].index < toServer'[j].index
          OBVIOUS
        <4>1. i \in DOMAIN toServer
          <5>1. j <= Len(toServer) + 1
            BY <1>2, <3>3
          <5> QED
            BY <1>2, <1>3, <5>1
        <4>2. toServer'[i] = toServer[i]
          BY <2>4, <4>1 DEF Adds
        <4>3. CASE j \in DOMAIN toServer /\ toServer'[j] = toServer[j]
          BY <1>1, <4>1, <4>2, <4>3
        <4>4. CASE toServer'[j] = r
          BY <1>1, <1>4, <3>2, <4>1, <4>2, <4>4
        <4> QED
          BY <3>3, <4>3, <4>4
      <3>6. Before(toClient', toServer')
        <4> SUFFICES ASSUME NEW m \in DOMAIN toClient, NEW i \in DOMAIN toServer',
                            toClient[m].request.kind = "put", toServer'[i].kind = "put"
                     PROVE  toClient[m].request.index < toServer'[i].index
          BY <2>1
        <4>1. CASE i \in DOMAIN toServer /\ toServer'[i] = toServer[i]
          BY <1>1, <4>1
        <4>2. CASE toServer'[i] = r
          BY <1>1, <1>4, <3>2, <4>2
        <4> QED
          BY <3>3, <4>1, <4>2
      <3> QED
        BY <2>2, <3>4, <3>5, <3>6
    <2> QED
      BY <1>10, <2>3, <2>4 DEF MakesPut
  <1>11. CASE ServesPut
    <2>1. PICK r \in Replies :
            /\ Adds(toClient, toClient', r) /\ r.request = toServer[1]
            /\ \/ r.status = "ok" /\ stored' = toServer[1].index
               \/ r.status = "error" /\ UNCHANGED stored
      BY <1>11 DEF ServesPut
    <2>2. toServer[1].kind = "put" /\ Drops(toServer, toServer') /\ UNCHANGED outstandingPuts
      BY <1>11 DEF ServesPut
    <2>3. /\ 1 \in DOMAIN toServer
          /\ \A i \in DOMAIN toServer' : i + 1 \in DOMAIN toServer /\ toServer'[i] = toServer[i + 1]
      BY <2>2, DroppedShifts
    <2>4. \A m \in DOMAIN toClient' : \/ m = Len(toClient) + 1 /\ toClient'[m] = r
                                      \/ m \in DOMAIN toClient /\ toClient'[m] = toClient[m]
      BY <1>2, <1>3, <2>1 DEF Adds
    <2>5. toServer[1].index \in outstandingPuts
      BY <1>1, <2>2, <2>3
    <2>6. Due(toServer', outstandingPuts')
      BY <1>1, <2>2, <2>3
    <2>7. Rises(toServer')
      <3> SUFFICES ASSUME NEW i \in DOMAIN toServer', NEW j \in DOMAIN toServer',
                          toServer'[i].kind = "put", toServer'[j].kind = "put", i < j
                   PROVE  toServer'[i].index < toServer'[j].index
        OBVIOUS
      <3>1. i + 1 < j + 1
        BY <1>5
      <3> QED
        BY <1>1, <2>3, <3>1
    <2>8. \A i \in DOMAIN toServer' : toServer'[i].kind = "put" => toServer[1].index < toServer'[i].index
      <3> SUFFICES ASSUME NEW i \in DOMAIN toServer', toServer'[i].kind = "put"
                   PROVE  toServer[1].index < toServer'[i].index
        OBVIOUS
      <3>1. i + 1 \in DOMAIN toServer /\ toServer'[i] = toServer[i + 1] /\ 1 < i + 1
        BY <1>3, <2>3
      <3> QED
        BY <1>1, <2>2, <2>3, <3>1
    <2>9. Before(toClient', toServer')
      <3> SUFFICES ASSUME NEW m \in DOMAIN toClient', NEW i \in DOMAIN toServer',
                          toClient'[m].request.kind = "put", toServer'[i].kind = "put"
                   PROVE  toClient'[m].request.index < toServer'[i].index
        OBVIOUS
      <3>1. CASE m \in DOMAIN toClient /\ toClient'[m] = toClient[m]
        BY <1>1, <2>3, <3>1
      <3>2. CASE toClient'[m] = r
        BY <2>1, <2>8, <3>2
      <3> QED
        BY <2>4, <3>1, <3>2
    <2>10. ToldRises(toClient')
      <3> SUFFICES ASSUME NEW m \in DOMAIN toClient', NEW n \in DOMAIN toClient',
                          toClient'[m].request.kind = "put", toClient'[n].request.kind = "put", m < n
                   PROVE  toClient'[m].request.index < toClient'[n].request.index
        OBVIOUS
      <3>1. m \in DOMAIN toClient
        <4>1. n <= Len(toClient) + 1
          BY <1>2, <2>4
        <4> QED
          BY <1>2, <1>3, <4>1
      <3>2. toClient'[m] = toClient[m]
        BY <2>1, <3>1 DEF Adds
      <3>3. CASE n \in DOMAIN toClient /\ toClient'[n] = toClient[n]
        BY <1>1, <3>1, <3>2, <3>3
      <3>4. CASE toClient'[n] = r
        BY <1>1, <2>1, <2>2, <2>3, <3>1, <3>2, <3>4
      <3> QED
        BY <2>4, <3>3, <3>4
    <2>11. Told(toClient', outstandingPuts', stored')
      <3> SUFFICES ASSUME NEW m \in DOMAIN toClient', toClient'[m].request.kind = "put"
                   PROVE  /\ toClient'[m].request.index \in outstandingPuts
                          /\ toClient'[m].status = "ok" => toClient'[m].request.index <= stored'
        BY <2>2
      <3>1. CASE m \in DOMAIN toClient /\ toClient'[m] = toClient[m]
        <4>1. /\ toClient[m].request.index \in outstandingPuts
              /\ toClient[m].status = "ok" => toClient[m].request.index <= stored
              /\ toClient[m].request.index < toServer[1].index
          BY <1>1, <2>2, <2>3, <3>1
        <4>2. toClient[m].request.index \in Nat /\ toServer[1].index \in Nat
          BY <1>4, <2>5, <4>1
        <4>3. stored' = stored \/ stored' = toServer[1].index
          BY <2>1
        <4> QED
          BY <1>4, <3>1, <4>1, <4>2, <4>3
      <3>2. CASE toClient'[m] = r
        <4>1. r.status = "ok" => stored' = toServer[1].index
          BY <2>1
        <4>2. toServer[1].index \in Nat
          BY <1>4, <2>5
        <4> QED
          BY <2>1, <2>5, <3>2, <4>1, <4>2
      <3> QED
        BY <2>4, <3>1, <3>2
    <2> QED
      BY <2>6, <2>7, <2>9, <2>10, <2>11
  <1> QED
    BY <1>6, <1>7, <1>8, <1>9, <1>10, <1>11, OrdinarySteps DEF Shaped

LEMMA SentStep ==
  ASSUME ConnectionInv, WireType', Quiet \/ Closes \/ Shaped
  PROVE  AllPutsSent'
  <1> USE DEF Writes
  <1> DEFINE OnItsWay(s, t, w) ==
               \/ \E i \in DOMAIN s : s[i].kind = "put" /\ s[i].index = w
               \/ \E m \in DOMAIN t : t[m].request.kind = "put" /\ t[m].request.index = w
  <1>1. canSendWrites => \A w \in outstandingPuts : OnItsWay(toServer, toClient, w)
    BY DEF ConnectionInv, AllPutsSent, PutSent, PutAnswered
  <1> SUFFICES ASSUME canSendWrites'
               PROVE  \A w \in outstandingPuts' : OnItsWay(toServer', toClient', w)
    BY DEF AllPutsSent, PutSent, PutAnswered
  <1>2. CASE CarriesPuts /\ UNCHANGED outstandingPuts
    <2>1. /\ canSendWrites
          /\ \A i \in DOMAIN toServer :
               toServer[i].kind = "put" => \E j \in DOMAIN toServer' : toServer'[j] = toServer[i]
          /\ \A m \in DOMAIN toClient :
               toClient[m].request.kind = "put" =>
                 \E n \in DOMAIN toClient' : toClient'[n] = toClient[m]
      BY <1>2 DEF CarriesPuts
    <2> QED
      BY <1>1, <1>2, <2>1
  <1>3. CASE OpensWithoutUser
    <2>1. toServer' = restoreState /\ Restored(restoreState) /\ UNCHANGED outstandingPuts
      BY <1>3 DEF OpensWithoutUser
    <2> QED
      BY <2>1 DEF Restored
  <1>4. CASE LearnsOfAuth /\ Restores(toClient[1].request)
    <2>1. /\ Joins(toServer, toServer', restoreState) /\ Restored(restoreState)
          /\ UNCHANGED outstandingPuts
      BY <1>4 DEF LearnsOfAuth
    <2> SUFFICES ASSUME NEW w \in outstandingPuts
                 PROVE  \E i \in DOMAIN toServer' : toServer'[i].kind = "put" /\ toServer'[i].index = w
      BY <2>1
    <2>2. PICK k \in DOMAIN restoreState : restoreState[k].kind = "put" /\ restoreState[k].index = w
      BY <2>1 DEF Restored
    <2>3. Len(toServer) + k \in DOMAIN toServer' /\ toServer'[Len(toServer) + k] = restoreState[k]
      BY <2>1 DEF Joins
    <2> QED
      BY <2>2, <2>3
  <1>5. CASE LearnsOfPut
    <2>1. /\ Drops(toClient, toClient')
          /\ outstandingPuts' = outstandingPuts \ {toClient[1].request.index}
          /\ UNCHANGED <<toServer, connectionState>>
      BY <1>5 DEF LearnsOfPut
    <2>2. \A m \in DOMAIN toClient : m = 1 \/ \E n \in DOMAIN toClient' : toClient'[n] = toClient[m]
      BY <2>1, DroppedShifts
    <2>3. ASSUME NEW w \in outstandingPuts' PROVE OnItsWay(toServer', toClient', w)
      <3>1. w # toClient[1].request.index /\ OnItsWay(toServer, toClient, w)
        BY <1>1, <2>1 DEF canSendWrites
      <3> QED
        BY <2>1, <2>2, <3>1
    <2> QED
      BY <2>3
  <1>6. CASE MakesPut
    <2>1. PICK r : r = putRequest(putCounter)
      OBVIOUS
    <2>2. r.kind = "put" /\ r.index = putCounter
      BY <2>1 DEF putRequest
    <2>3. /\ canSendWrites /\ Adds(toServer, toServer', r)
          /\ outstandingPuts' = outstandingPuts \cup {putCounter} /\ UNCHANGED toClient
      BY <1>6, <2>1 DEF MakesPut, canSendWrites
    <2>4. /\ \A i \in DOMAIN toServer : i \in DOMAIN toServer' /\ toServer'[i] = toServer[i]
          /\ \E i \in DOMAIN toServer' : toServer'[i] = r
      BY <2>3, AddedKeeps
    <2> QED
      BY <1>1, <2>2, <2>3, <2>4
  <1>7. CASE ServesPut
    <2>1. PICK r \in Replies : Adds(toClient, toClient', r) /\ r.request = toServer[1]
      BY <1>7 DEF ServesPut
    <2>2. /\ toServer[1].kind = "put" /\ Drops(toServer, toServer')
          /\ UNCHANGED <<outstandingPuts, connectionState>>
      BY <1>7 DEF ServesPut
    <2>3. \A i \in DOMAIN toServer : i = 1 \/ \E j \in DOMAIN toServer' : toServer'[j] = toServer[i]
      BY <2>2, DroppedShifts
    <2>4. /\ \A m \in DOMAIN toClient : m \in DOMAIN toClient' /\ toClient'[m] = toClient[m]
          /\ \E m \in DOMAIN toClient' : toClient'[m] = r
      BY <2>1, AddedKeeps
    <2>5. ASSUME NEW w \in outstandingPuts' PROVE OnItsWay(toServer', toClient', w)
      <3>1. OnItsWay(toServer, toClient, w)
        BY <1>1, <2>2 DEF canSendWrites
      <3>2. CASE \E i \in DOMAIN toServer : toServer[i].kind = "put" /\ toServer[i].index = w
        BY <2>1, <2>2, <2>3, <2>4, <3>2
      <3>3. CASE \E m \in DOMAIN toClient :
                   toClient[m].request.kind = "put" /\ toClient[m].request.index = w
        BY <2>4, <3>3
      <3> QED
        BY <3>1, <3>2, <3>3
    <2> QED
      BY <2>5
  <1> QED
    BY <1>2, <1>3, <1>4, <1>5, <1>6, <1>7, OrdinarySteps DEF Shaped

----------------------------------------------------------------------------
(***************************************************************************)
(* The theorems.                                                           *)
(***************************************************************************)
LEMMA ConsistentStep ==
  ASSUME Consistent, WireType, [Next]_vars
  PROVE  Consistent'
  <1>1. interruptReasons \in SUBSET Reasons /\ forceAuthTokenRefresh \in BOOLEAN
        /\ authToken \in Tokens \cup {None} /\ events \in Nat
    BY DEF Consistent, StateType
  <1>2. CASE authReply /\ Head(toClient).status # "ok"
    <2>1. realtime # "nil"
      BY <1>2, WireNeedsConnection DEF authReply, Reply
    <2>2. /\ onDisconnect(interruptReasons, TRUE) /\ authToken' = None
          /\ UNCHANGED <<interruptReasons, latestFetch, staleFetches, events>>
      BY <1>2 DEF authReply
    <2>3. PICK reasons \in SUBSET Reasons : reasons = interruptReasons
      BY <1>1
    <2> QED
      BY <1>1, <2>1, <2>2, <2>3, DisconnectIsConsistent
  <1>3. CASE onAuthRevoked
    <2>1. realtime # "nil"
      BY <1>3, WireNeedsConnection DEF onAuthRevoked, Reply
    <2>2. /\ onDisconnect(interruptReasons, TRUE) /\ authToken' = None
          /\ UNCHANGED <<interruptReasons, latestFetch, staleFetches, events>>
      BY <1>3 DEF onAuthRevoked
    <2>3. PICK reasons \in SUBSET Reasons : reasons = interruptReasons
      BY <1>1
    <2> QED
      BY <1>1, <2>1, <2>2, <2>3, DisconnectIsConsistent
  <1>4. CASE connectionLost
    <2>1. /\ realtime # "nil" /\ onDisconnect(interruptReasons, forceAuthTokenRefresh)
          /\ UNCHANGED <<interruptReasons, latestFetch, staleFetches, authToken>>
          /\ events' = events + 1
      BY <1>4 DEF connectionLost
    <2>2. PICK reasons \in SUBSET Reasons, force \in BOOLEAN :
            reasons = interruptReasons /\ force = forceAuthTokenRefresh
      BY <1>1
    <2>3. events' \in Nat
      BY <1>1, <2>1
    <2> QED
      BY <1>1, <2>1, <2>2, <2>3, DisconnectIsConsistent
  <1>5. CASE onKill \/ interrupt
    <2>1. PICK reason \in Reasons : interruptForReason(reason)
      BY <1>5 DEF onKill, interrupt, Reasons
    <2>2. UNCHANGED <<latestFetch, staleFetches, authToken>>
      BY <1>5 DEF onKill, interrupt
    <2>3. events' \in Nat
      BY <1>1, <1>5 DEF onKill, interrupt
    <2> QED
      BY <2>1, <2>2, <2>3, InterruptIsConsistent
  <1>6. CASE UNCHANGED vars
    <2>1. UNCHANGED <<link, interruptReasons, fetching, auth, events>>
      BY <1>6 DEF vars
    <2>2. UNCHANGED <<connectionState, realtime, wire, session, interruptReasons, scheduledRetry,
                      latestFetch, staleFetches, authToken, forceAuthTokenRefresh, events>>
      BY <2>1 DEF link, fetching, auth
    <2> QED
      BY <2>2 DEF Consistent, StateType, ConnectionIsConsistent, SessionNeedsConnection, connected
  <1> QED
    BY <1>2, <1>3, <1>4, <1>5, <1>6, AttemptIsConsistent, ExchangeIsConsistent
       DEF Next, Client, Server

LEMMA ConnectionInit ==
  ASSUME Init
  PROVE  ConnectionInv
  <1> USE ConnectionAssumption DEF Init
  <1>1. Consistent
    BY DEF Consistent, StateType, States, Reasons, Attempts, ConnectionIsConsistent,
       SessionNeedsConnection, connected, wire
  <1>2. WireType
    BY EmptySeq DEF WireType
  <1>3. PutsType /\ OutstandingFollow
    BY EmptySeq DEF PutsType, OutstandingFollow
  <1>4. DOMAIN toServer = {} /\ DOMAIN toClient = {}
    OBVIOUS
  <1>5. CredentialsAgree /\ RestoreComesFirst
    BY <1>4 DEF CredentialsAgree, RestoreComesFirst, connected
  <1>6. PutsInOrder /\ AllPutsSent
    BY <1>4 DEF PutsInOrder, AllPutsSent, canSendWrites
  <1> QED
    BY <1>1, <1>2, <1>3, <1>5, <1>6 DEF ConnectionInv

LEMMA ConnectionStep ==
  ASSUME ConnectionInv, [Next]_vars
  PROVE  ConnectionInv' /\ (Quiet \/ Closes \/ Shaped)
  <1>1. Consistent /\ WireType /\ PutsType /\ OutstandingFollow
    BY DEF ConnectionInv
  <1>2. Consistent'
    BY <1>1, ConsistentStep
  <1>3. Quiet \/ Closes \/ Exchange
    BY <1>1, StepKinds
  <1>4. WireType' /\ (Quiet \/ Closes \/ Shaped)
    <2>1. CASE Quiet
      BY <1>1, <2>1 DEF Quiet, WireType
    <2>2. CASE Closes
      BY <2>2, EmptySeq DEF Closes, WireType
    <2>3. CASE Exchange
      BY <1>1, <2>3, ExchangeIsShaped
    <2> QED
      BY <1>3, <2>1, <2>2, <2>3
  <1> QED
    BY <1>2, <1>4, CredentialsStep, RestoreStep, CountStep, OrderStep, SentStep DEF ConnectionInv

LEMMA ConnectionSafety == Spec => []ConnectionInv
  <1>1. ConnectionInv /\ [Next]_vars => ConnectionInv'
    BY ConnectionStep
  <1> QED
    BY <1>1, ConnectionInit, PTL DEF Spec

\* The types of the variables; among them, that the location never holds a write
\* that was not made.
THEOREM TypeCorrect == Spec => []TypeOK
  <1>1. ConnectionInv => TypeOK
    <2> SUFFICES ASSUME ConnectionInv PROVE TypeOK
      OBVIOUS
    <2>1. StateType /\ PutsType /\ OutstandingFollow
      BY DEF ConnectionInv, Consistent
    <2>2. outstandingPuts \subseteq 1 .. (putCounter - 1)
      BY <2>1, LenProperties DEF PutsType, OutstandingFollow
    <2> QED
      BY <2>1, <2>2 DEF TypeOK, StateType, PutsType
  <1> QED
    BY <1>1, ConnectionSafety, PTL

\* The assertions of FPersistentConnection (an attempt begins only while
\* disconnected, a token that is fetched finds the state it left, nothing is sent
\* on a closed FConnection) hold whatever comes late, for any number of faults;
\* and unless interrupted, a disconnected client has an attempt scheduled.
THEOREM ConnectionIsAlwaysConsistent == Spec => []ConnectionIsConsistent
  <1>1. ConnectionInv => ConnectionIsConsistent
    BY DEF ConnectionInv, Consistent
  <1> QED
    BY <1>1, ConnectionSafety, PTL

\* The server judges every write as the user the client had when it sent it,
\* however users change meanwhile, unless the client is about to learn that its
\* credential was refused or revoked (restoreAuth, refreshAuthToken, sendPut).
THEOREM WriteIsAlwaysJudgedAsItsUser == Spec => []WriteIsJudgedAsItsUser
  <1>1. ConnectionInv => WriteIsJudgedAsItsUser
    <2> SUFFICES ASSUME ConnectionInv, Request("put"), ~Refused
                 PROVE  session = Head(toServer).as
      BY DEF WriteIsJudgedAsItsUser, Refused
    <2>1. toServer # <<>> /\ toServer \in Seq(Requests)
      BY DEF Request, ConnectionInv, WireType
    <2>2. Head(toServer) = toServer[1] /\ 1 \in DOMAIN toServer
      BY <2>1, TailDrops, DroppedShifts
    <2> QED
      BY <2>2 DEF ConnectionInv, CredentialsAgree, Request
  <1> QED
    BY <1>1, ConnectionSafety, PTL

LEMMA QueueStep ==
  ASSUME ConnectionInv, [Next]_vars
  PROVE  [Queue!Next]_(Queue!vars)
  <1> USE DEF Writes, Queue!vars
  <1>1. Quiet \/ Closes \/ Shaped
    BY ConnectionStep
  <1>2. /\ putCounter \in Nat \ {0} /\ Len(completions) \in Nat
        /\ outstandingPuts = (Len(completions) + 1) .. (putCounter - 1)
    BY LenProperties DEF ConnectionInv, PutsType, OutstandingFollow
  <1>3. CASE MakesPut
    <2>1. putCounter' - 1 = putCounter - 1 + 1 /\ UNCHANGED <<completions, stored>>
      BY <1>2, <1>3 DEF MakesPut
    <2> QED
      BY <2>1 DEF Queue!Next, Queue!Issue
  <1>4. CASE ServesPut
    <2>1. UNCHANGED <<putCounter, completions>>
      BY <1>4 DEF ServesPut
    <2>2. CASE UNCHANGED stored
      BY <2>1, <2>2
    <2>3. CASE stored' = toServer[1].index
      <3>1. PutSent(1) /\ 1 \in DOMAIN toServer
        BY <1>4, DroppedShifts DEF ServesPut, PutSent
      <3>2. toServer[1].index \in outstandingPuts
        BY <3>1 DEF ConnectionInv, PutsInOrder
      <3>3. toServer[1].index \in 1 .. (putCounter - 1) /\ Len(completions) < toServer[1].index
        BY <1>2, <3>2
      <3>4. Queue!Store(toServer[1].index)
        BY <2>1, <2>3, <3>3 DEF Queue!Store
      <3> QED
        BY <3>3, <3>4 DEF Queue!Next
    <2> QED
      BY <1>4, <2>2, <2>3 DEF ServesPut
  <1>5. CASE LearnsOfPut
    <2> DEFINE index == toClient[1].request.index
               status == toClient[1].status
    <2>1. /\ index = Len(completions) + 1 /\ index \in outstandingPuts
          /\ status = "ok" => index <= stored
      BY <1>5, OldestIsAnswered
    <2>2. /\ completions' = Append(completions, [write |-> index, status |-> status])
          /\ UNCHANGED <<putCounter, stored>> /\ status \in Status
      BY <1>5, <2>1 DEF LearnsOfPut
    <2>3. Len(completions) < putCounter - 1
      BY <1>2, <2>1
    <2>4. status = "ok" => Len(completions) < stored
      BY <1>2, <2>1 DEF ConnectionInv, PutsType
    <2>5. Queue!Answer(status)
      BY <2>1, <2>2, <2>3, <2>4 DEF Queue!Answer
    <2> QED
      BY <2>2, <2>5 DEF Queue!Next, Queue!Status, Status
  <1>6. \/ UNCHANGED <<putCounter, completions, stored>>
        \/ LearnsOfPut \/ MakesPut \/ ServesPut
    BY <1>1 DEF Quiet, Closes, Shaped, Opens, OpensWithoutUser, LearnsOfAuth, SendsUser, ServesAuth,
       ServesUnauth, PushesToClient
  <1> QED
    BY <1>3, <1>4, <1>5, <1>6

\* The connection implements WriteQueue: through lost connections, lost answers
\* and repeated sending, the writes are answered once each and in the order they
\* were made, "ok" only when stored, and no write is overwritten by an older one
\* that was answered (sendPut, restoreState).
THEOREM ConnectionIsAWriteQueue == Spec => ImplementsWriteQueue
  <1>1. Init => Queue!Init
    BY DEF Init, Queue!Init
  <1>2. ConnectionInv /\ [Next]_vars => [Queue!Next]_(Queue!vars)
    BY QueueStep
  <1> QED
    BY <1>1, <1>2, ConnectionSafety, PTL DEF Spec, ImplementsWriteQueue, Queue!Spec
=============================================================================
