-------------------------- MODULE PersistentConnection --------------------------
(***************************************************************************)
(* The connection of the Database client (FPersistentConnection.m, on      *)
(* FConnection.m and FIRRetryHelper.m), which carries the upload of a      *)
(* profile: it fetches the user's token, connects, authenticates, sends    *)
(* the outstanding writes in order, and starts again when the connection   *)
(* is lost.                                                                *)
(*                                                                         *)
(* Every handler, timer and callback runs on the one database queue, so    *)
(* each is one atomic step; what interleaves is their order, and what the  *)
(* network and the server do meanwhile.  Messages of a connection arrive   *)
(* in order or are lost with it: a closed FConnection is released, so its  *)
(* late messages reach nobody and its callbacks are forgotten.  A message  *)
(* therefore stands for its callback, too.                                 *)
(*                                                                         *)
(* Delays (the back-off of the retry helper) are left out: a scheduled     *)
(* retry runs at some time.  So are listens, transactions and onDisconnect *)
(* writes, which the app does not use.                                     *)
(***************************************************************************)
EXTENDS Naturals, Sequences, FiniteSets

CONSTANTS
  Tokens,     \* what Auth may hand out as the credential of a user
  None,       \* no token
  MaxPuts,    \* bound: writes made
  MaxEvents   \* bound: faults and changes of user, see "events"

ASSUME ConnectionAssumption ==
  /\ None \notin Tokens
  /\ MaxPuts \in Nat
  /\ MaxEvents \in Nat

VARIABLES
  connectionState,
  interruptReasons,       \* why the connection must stay closed
  scheduledRetry,         \* the retry helper's task and its forceRefresh, or "none"
  latestFetch,            \* the fetch of the current attempt and its forceRefresh, or "none"
  staleFetches,           \* fetches of earlier attempts that are still out
  authToken,
  forceAuthTokenRefresh,
  realtime,               \* nil, or the state of the FConnection
  putCounter,
  outstandingPuts,        \* their numbers
  completions,            \* the onComplete calls made, in order
  toServer, toClient,     \* the messages on their way
  session,                \* server: the credential this connection is authenticated with
  stored,                 \* server: the number of the write that the location holds, or 0
  events                  \* faults and changes of user so far

fetching == <<scheduledRetry, latestFetch, staleFetches>>
auth == <<authToken, forceAuthTokenRefresh>>
puts == <<putCounter, outstandingPuts, completions>>
wire == <<toServer, toClient>>
link == <<connectionState, realtime, wire, session>>
vars == <<link, interruptReasons, fetching, auth, puts, stored, events>>

States == {"Disconnected", "GettingToken", "Connecting", "Authenticating", "Connected"}
Reasons == {"repo_interrupt", "server_kill"}
Attempts == {"none", "plain", "forced"}
Status == {"ok", "error"}

connected == connectionState \in {"Authenticating", "Connected"}
canSendWrites == connectionState = "Connected"

\* An attempt that forces a refresh of the token if "force" is set.
attempt(force) == IF force THEN "forced" ELSE "plain"
----------------------------------------------------------------------------
(***************************************************************************)
(* The requests.  A put is tagged with the token the client had when it    *)
(* sent it, which is not part of the message.                              *)
(***************************************************************************)
authRequest(token, restore) == [kind |-> "auth", token |-> token, restore |-> restore]
unauthRequest == [kind |-> "unauth"]
putRequest(index) == [kind |-> "put", index |-> index, as |-> authToken]

\* Fault: the keys are not sorted.
newestFirst(S) ==
  CHOOSE s \in [1 .. Cardinality(S) -> S] :
    \A j, k \in 1 .. Cardinality(S) : j < k => s[j] > s[k]

\* The numbers in S in ascending order.
sortedKeys(S) ==
  CHOOSE s \in [1 .. Cardinality(S) -> S] :
    \A j, k \in 1 .. Cardinality(S) : j < k => s[j] < s[k]

\* restoreState sends every outstanding put again.
restoreState ==
  LET keys == sortedKeys(outstandingPuts)
  IN  [k \in DOMAIN keys |-> putRequest(keys[k])]
----------------------------------------------------------------------------
(***************************************************************************)
(* The retry helper and the token.  "reasons" and "force" are the values   *)
(* of interruptReasons and forceAuthTokenRefresh at the time of the call.  *)
(***************************************************************************)
\* A task that is scheduled already is replaced.
tryScheduleReconnect(reasons, force) ==
  IF reasons = {}
  THEN /\ scheduledRetry' = attempt(force)
       /\ forceAuthTokenRefresh' = FALSE
  ELSE /\ forceAuthTokenRefresh' = force
       /\ UNCHANGED scheduledRetry

\* Init is the state after deferredInit has opened the connection.
Init ==
  /\ connectionState = "Disconnected"
  /\ interruptReasons = {}
  /\ scheduledRetry = "plain"
  /\ latestFetch = "none"
  /\ staleFetches = 0
  /\ authToken = None
  /\ forceAuthTokenRefresh = FALSE
  /\ realtime = "nil"
  /\ putCounter = 1
  /\ outstandingPuts = {}
  /\ completions = <<>>
  /\ toServer = <<>>
  /\ toClient = <<>>
  /\ session = None
  /\ stored = 0
  /\ events = 0

\* The scheduled block: a new attempt asks Auth for the token.
retry ==
  /\ scheduledRetry # "none"
  /\ connectionState' = "GettingToken"
  /\ staleFetches' = IF latestFetch = "none" THEN staleFetches ELSE staleFetches + 1
  /\ latestFetch' = scheduledRetry
  /\ scheduledRetry' = "none"
  /\ UNCHANGED <<realtime, wire, session, interruptReasons, auth, puts, stored, events>>

\* The callback of the current attempt, with a token (or without one, if no
\* user is signed in).
openNetworkConnectionWithToken(token) ==
  /\ latestFetch # "none"
  /\ connectionState = "GettingToken"
  /\ latestFetch' = "none"
  /\ authToken' = token
  /\ connectionState' = "Connecting"
  /\ realtime' = "connecting"
  /\ UNCHANGED <<wire, session, interruptReasons, scheduledRetry, staleFetches,
                 forceAuthTokenRefresh, puts, stored, events>>

\* It was interrupted meanwhile.
tokenFetchedTooLate ==
  /\ latestFetch # "none"
  /\ connectionState # "GettingToken"
  /\ latestFetch' = "none"
  /\ UNCHANGED <<link, interruptReasons, scheduledRetry, staleFetches, auth, puts,
                 stored, events>>

\* The callback of the current attempt, with an error.
tokenFetchFailed ==
  /\ latestFetch # "none"
  /\ events' = events + 1
  /\ latestFetch' = "none"
  /\ connectionState' = "Disconnected"
  /\ tryScheduleReconnect(interruptReasons, forceAuthTokenRefresh)
  /\ UNCHANGED <<realtime, wire, session, interruptReasons, staleFetches, authToken,
                 puts, stored>>

\* Fault: the callback of an earlier attempt is taken for the current one.
staleFetchOpens ==
  /\ staleFetches > 0
  /\ staleFetches' = staleFetches - 1
  /\ connectionState' = "Connecting"
  /\ realtime' = "connecting"
  /\ UNCHANGED <<wire, session, interruptReasons, scheduledRetry, latestFetch, auth,
                 puts, stored, events>>

\* The callback of an earlier attempt is ignored.
staleFetchIgnored ==
  /\ staleFetches > 0
  /\ staleFetches' = staleFetches - 1
  /\ UNCHANGED <<link, interruptReasons, scheduledRetry, latestFetch, auth, puts,
                 stored, events>>

\* reachabilityCallback and enteringForeground.
triggerAttempt ==
  /\ connectionState = "Disconnected"
  /\ tryScheduleReconnect(interruptReasons, forceAuthTokenRefresh)
  /\ UNCHANGED <<link, interruptReasons, latestFetch, staleFetches, authToken, puts,
                 stored, events>>
----------------------------------------------------------------------------
(***************************************************************************)
(* Opening and closing.                                                    *)
(***************************************************************************)
\* FConnection was closed.  What was on its way is lost.
onDisconnect(reasons, force) ==
  /\ connectionState' = "Disconnected"
  /\ realtime' = "nil"
  /\ toServer' = <<>>
  /\ toClient' = <<>>
  /\ session' = None
  /\ tryScheduleReconnect(reasons, force)

\* The server resets the connection, the network loses it, or it times out.
connectionLost ==
  /\ realtime # "nil"
  /\ events' = events + 1
  /\ onDisconnect(interruptReasons, forceAuthTokenRefresh)
  /\ UNCHANGED <<interruptReasons, latestFetch, staleFetches, authToken, puts, stored>>

\* Fault: a connection without a user is not told about the outstanding puts.
readyForgetsPuts ==
  /\ realtime = "connecting"
  /\ realtime' = "connected"
  /\ \/ /\ authToken = None
        /\ connectionState' = "Connected"
        /\ UNCHANGED toServer
     \/ /\ authToken # None
        /\ connectionState' = "Authenticating"
        /\ toServer' = <<authRequest(authToken, TRUE)>>
  /\ UNCHANGED <<toClient, session, interruptReasons, fetching, auth, puts, stored, events>>

\* The handshake is done: restoreAuth.
onReady ==
  /\ realtime = "connecting"
  /\ realtime' = "connected"
  /\ \/ /\ authToken = None
        /\ connectionState' = "Connected"
        /\ toServer' = restoreState
     \/ /\ authToken # None
        /\ connectionState' = "Authenticating"
        /\ toServer' = <<authRequest(authToken, TRUE)>>
  /\ UNCHANGED <<toClient, session, interruptReasons, fetching, auth, puts, stored, events>>

interruptForReason(reason) ==
  /\ interruptReasons' = interruptReasons \cup {reason}
  /\ \/ realtime # "nil" /\ onDisconnect(interruptReasons', forceAuthTokenRefresh)
     \/ /\ realtime = "nil"
        /\ scheduledRetry' = "none"
        /\ connectionState' = "Disconnected"
        /\ UNCHANGED <<forceAuthTokenRefresh, realtime, wire, session>>

\* goOffline and goOnline of the Database.
interrupt ==
  /\ "repo_interrupt" \notin interruptReasons
  /\ events' = events + 1
  /\ interruptForReason("repo_interrupt")
  /\ UNCHANGED <<latestFetch, staleFetches, authToken, puts, stored>>

resume ==
  /\ "repo_interrupt" \in interruptReasons
  /\ interruptReasons' = interruptReasons \ {"repo_interrupt"}
  /\ IF connectionState = "Disconnected"
     THEN tryScheduleReconnect(interruptReasons', forceAuthTokenRefresh)
     ELSE UNCHANGED <<scheduledRetry, forceAuthTokenRefresh>>
  /\ UNCHANGED <<link, latestFetch, staleFetches, authToken, puts, stored, events>>
----------------------------------------------------------------------------
(***************************************************************************)
(* Users and writes.                                                       *)
(***************************************************************************)
\* Fault: a connection that is authenticating is not told of the new user.
refreshWaitsForConnected(token) ==
  /\ events' = events + 1
  /\ authToken' = token
  /\ toServer' = IF ~canSendWrites THEN toServer
                 ELSE Append(toServer, IF token = None THEN unauthRequest
                                       ELSE authRequest(token, FALSE))
  /\ UNCHANGED <<connectionState, realtime, toClient, session, interruptReasons, fetching,
                 forceAuthTokenRefresh, puts, stored>>

\* Auth tells of the user and the token; it may repeat itself.
refreshAuthToken(token) ==
  /\ events' = events + 1
  /\ authToken' = token
  /\ toServer' = IF ~connected THEN toServer
                 ELSE Append(toServer, IF token = None THEN unauthRequest
                                       ELSE authRequest(token, FALSE))
  /\ UNCHANGED <<connectionState, realtime, toClient, session, interruptReasons, fetching,
                 forceAuthTokenRefresh, puts, stored>>

\* Fault: the counter is not advanced.
counterStays ==
  /\ putCounter <= MaxPuts
  /\ outstandingPuts' = outstandingPuts \cup {putCounter}
  /\ toServer' = IF canSendWrites THEN Append(toServer, putRequest(putCounter)) ELSE toServer
  /\ UNCHANGED <<connectionState, realtime, toClient, session, interruptReasons, fetching,
                 auth, putCounter, completions, stored, events>>

putInternal ==
  /\ putCounter <= MaxPuts
  /\ putCounter' = putCounter + 1
  /\ outstandingPuts' = outstandingPuts \cup {putCounter}
  /\ toServer' = IF canSendWrites THEN Append(toServer, putRequest(putCounter)) ELSE toServer
  /\ UNCHANGED <<connectionState, realtime, toClient, session, interruptReasons, fetching,
                 auth, completions, stored, events>>
----------------------------------------------------------------------------
(***************************************************************************)
(* The server.  Its answer to "unauth" has no callback and is left out.    *)
(***************************************************************************)
Request(kind) == toServer # <<>> /\ Head(toServer).kind = kind

answer(status) ==
  /\ toServer' = Tail(toServer)
  /\ toClient' = Append(toClient, [request |-> Head(toServer), status |-> status])

untouchedByServer ==
  UNCHANGED <<connectionState, realtime, interruptReasons, fetching, auth, puts>>

serverAuth ==
  /\ Request("auth")
  /\ \/ answer("ok") /\ session' = Head(toServer).token /\ UNCHANGED events
     \/ answer("error") /\ events' = events + 1 /\ UNCHANGED session
  /\ UNCHANGED stored /\ untouchedByServer

serverUnauth ==
  /\ Request("unauth")
  /\ session' = None
  /\ toServer' = Tail(toServer)
  /\ UNCHANGED <<toClient, stored, events>> /\ untouchedByServer

serverPut ==
  /\ Request("put")
  /\ \/ answer("ok") /\ stored' = Head(toServer).index
     \/ answer("error") /\ UNCHANGED stored
  /\ UNCHANGED <<session, events>> /\ untouchedByServer

\* The server says that the credential is no longer valid, or that it shuts
\* the connection down for good.
push(kind) == toClient' = Append(toClient, [request |-> [kind |-> kind], status |-> "push"])

serverRevokes ==
  /\ session # None
  /\ events' = events + 1
  /\ session' = None
  /\ push("revoked")
  /\ UNCHANGED <<toServer, stored>> /\ untouchedByServer

serverShutsDown ==
  /\ realtime = "connected"
  /\ events' = events + 1
  /\ push("shutdown")
  /\ UNCHANGED <<toServer, session, stored>> /\ untouchedByServer
----------------------------------------------------------------------------
(***************************************************************************)
(* The messages of the server (onDataMessage, onControl).                  *)
(***************************************************************************)
Reply(kind) == toClient # <<>> /\ Head(toClient).request.kind = kind

\* The callback of sendAuthAndRestoreStateAfterComplete.
authReply ==
  /\ Reply("auth")
  /\ \/ /\ Head(toClient).status = "ok"
        /\ connectionState' = "Connected"
        /\ toServer' = IF Head(toClient).request.restore
                       THEN toServer \o restoreState ELSE toServer
        /\ toClient' = Tail(toClient)
        /\ UNCHANGED <<realtime, session, scheduledRetry, auth>>
     \/ /\ Head(toClient).status # "ok"
        /\ authToken' = None
        /\ onDisconnect(interruptReasons, TRUE)
  /\ UNCHANGED <<interruptReasons, latestFetch, staleFetches, puts, stored, events>>

\* The callback of sendPut.
putReply ==
  /\ Reply("put")
  /\ toClient' = Tail(toClient)
  /\ LET index == Head(toClient).request.index IN
       /\ outstandingPuts' = outstandingPuts \ {index}
       /\ completions' = IF index \in outstandingPuts
                         THEN Append(completions, [write |-> index,
                                                   status |-> Head(toClient).status])
                         ELSE completions
  /\ UNCHANGED <<connectionState, realtime, toServer, session, interruptReasons, fetching,
                 auth, putCounter, stored, events>>

onAuthRevoked ==
  /\ Reply("revoked")
  /\ authToken' = None
  /\ onDisconnect(interruptReasons, TRUE)
  /\ UNCHANGED <<interruptReasons, latestFetch, staleFetches, puts, stored, events>>

onKill ==
  /\ Reply("shutdown")
  /\ interruptForReason("server_kill")
  /\ UNCHANGED <<latestFetch, staleFetches, authToken, puts, stored, events>>
----------------------------------------------------------------------------
MayHappen == events < MaxEvents

Client ==
  \/ retry
  \/ \E token \in Tokens \cup {None} : openNetworkConnectionWithToken(token)
  \/ tokenFetchedTooLate
  \/ onReady
  \/ authReply
  \/ putReply
  \/ onAuthRevoked
  \/ onKill

Server == serverAuth \/ serverUnauth \/ serverPut

Next ==
  \/ Client
  \/ staleFetchIgnored
  \/ triggerAttempt
  \/ putInternal
  \/ resume
  \/ Server /\ events' <= MaxEvents
  \/ MayHappen /\ tokenFetchFailed
  \/ MayHappen /\ connectionLost
  \/ MayHappen /\ interrupt
  \/ MayHappen /\ \E token \in Tokens \cup {None} : refreshAuthToken(token)
  \/ MayHappen /\ serverRevokes
  \/ MayHappen /\ serverShutsDown

Spec == Init /\ [][Next]_vars

(***************************************************************************)
(* The database queue runs every block it was given, and Auth calls back.  *)
(* Once the faults are over, the network delivers and the server answers.  *)
(* Nothing else is owed: no one has to go back online.                     *)
(***************************************************************************)
Fairness ==
  /\ WF_vars(retry)
  /\ WF_vars(\E token \in Tokens \cup {None} : openNetworkConnectionWithToken(token))
  /\ WF_vars(tokenFetchedTooLate)
  /\ WF_vars(onReady)
  /\ WF_vars(authReply)
  /\ WF_vars(putReply)
  /\ WF_vars(onAuthRevoked)
  /\ WF_vars(onKill)
  /\ WF_vars(Server /\ events' <= MaxEvents)

FairSpec == Spec /\ Fairness
----------------------------------------------------------------------------
\* The types of the variables.
TypeOK ==
  /\ connectionState \in States
  /\ interruptReasons \subseteq Reasons
  /\ scheduledRetry \in Attempts
  /\ latestFetch \in Attempts
  /\ staleFetches \in Nat
  /\ authToken \in Tokens \cup {None}
  /\ forceAuthTokenRefresh \in BOOLEAN
  /\ realtime \in {"nil", "connecting", "connected"}
  /\ putCounter \in Nat \ {0}
  /\ outstandingPuts \subseteq 1 .. (putCounter - 1)
  /\ completions \in Seq([write : Nat, status : Status])
  /\ session \in Tokens \cup {None}
  /\ stored \in 0 .. (putCounter - 1)
  /\ events \in Nat

\* The assertions and exceptions of the connection are never hit, whatever
\* timers, callbacks and messages come late: an attempt is scheduled or begins
\* only while disconnected, a token that is fetched finds the state it left or
\* an interruption, nothing is sent on an FConnection that is not connected.
\* And it never gives up: unless interrupted, a disconnected client has an
\* attempt scheduled.
ConnectionIsConsistent ==
  /\ scheduledRetry # "none" => connectionState = "Disconnected"
  /\ latestFetch # "none" => connectionState \in {"Disconnected", "GettingToken"}
  /\ connectionState = "GettingToken" => latestFetch # "none"
  /\ (realtime = "connecting") <=> (connectionState = "Connecting")
  /\ (realtime = "connected") <=> connected
  /\ wire # <<<<>>, <<>>>> => realtime = "connected"
  /\ connectionState = "Disconnected" =>
       ((scheduledRetry # "none") <=> (interruptReasons = {}))

\* The server judges a write as the user that the client had when it sent it,
\* however users change while the connection authenticates, unless the server
\* has refused or revoked a credential and the client is about to learn it.
WriteIsJudgedAsItsUser ==
  Request("put") =>
    \/ session = Head(toServer).as
    \/ \E m \in DOMAIN toClient :
         \/ toClient[m].request.kind = "revoked"
         \/ toClient[m].request.kind = "auth" /\ toClient[m].status = "error"

Queue == INSTANCE WriteQueue WITH
           issued <- putCounter - 1, answers <- completions, value <- stored

\* The connection keeps the promise of the Database client through lost
\* connections, lost answers and repeated sending: writes are answered once, in
\* order, "ok" only when stored, and none is overwritten by an older one.
ImplementsWriteQueue == Queue!Spec

\* Every write is answered once the faults are over, unless the app goes offline
\* or the server has shut the client out.
WritesAreAnswered ==
  \A write \in 1 .. MaxPuts :
    write \in outstandingPuts ~> write \notin outstandingPuts \/ interruptReasons # {}
----------------------------------------------------------------------------
\* A forced refresh has been asked for and no attempt has carried it out.
RefreshIsDue == forceAuthTokenRefresh \/ "forced" \in {scheduledRetry, latestFetch}

\* "we will refresh the token later on reconnect": a forced refresh that is due
\* stays due until an attempt that forces it gets a token.
RefreshIsNotForgotten ==
  [][RefreshIsDue /\ ~RefreshIsDue' =>
       latestFetch = "forced" /\ connectionState' = "Connecting"]_vars
=============================================================================
