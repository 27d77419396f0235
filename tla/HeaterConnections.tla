-------------------------- MODULE HeaterConnections --------------------------
(***************************************************************************)
(* Requests for heater states, from the heater controllers to the base     *)
(* station and back: the thread of DeviceServer that accepts connections,  *)
(* the main thread that reads requests and writes replies                  *)
(* (handleConnections, parseMessage, sendHeaterState), the removal of      *)
(* stale connections, and the clients, of which only what they do to a     *)
(* connection is kept (HeaterFirmware has the rest).                       *)
(*                                                                         *)
(* A socket is what the kernel of the base station knows of a connection:  *)
(* whose it is, how much of the request has arrived, what was replied, and *)
(* the state of the peer: "open", "closed" (its FIN has arrived), "gone"   *)
(* (it lost power or its WiFi, and says nothing any more) or "reset".      *)
(***************************************************************************)
EXTENDS Naturals, Sequences, HeaterStates

CONSTANTS
    Heaters,
    NoHeater,
    Fds,              \* descriptors of the base station, reused when closed
    NoFd,
    States,           \* the states commands set, beside the fallback
    MaxBacklog,       \* connections that may wait for accept
    MaxIdle           \* minutes until a connection is stale (10)

ASSUME StatesAssumption == States \subseteq HeaterState
ASSUME HeatersAssumption == NoHeater \notin Heaters
ASSUME FdsAssumption == NoFd \notin Fds
ASSUME BoundsAssumption == MaxBacklog \in Nat /\ MaxIdle \in Nat

VARIABLES
    target,           \* the state each heater would be told now
    backlog,          \* sockets waiting for accept
    socket,           \* by descriptor; Closed when it is not in use
    accepted,         \* the descriptor handleNewDevice was called with
    m_connections,    \* descriptors: the order of the list decides nothing
    last_seen,        \* minutes since, by descriptor; 0 when not in the list
    m_connections_mutex,
    ready,            \* the descriptors poll returned and read still waits for
    reading,          \* the descriptor in the loop around read
    closing,          \* closed, and its entry is still to be erased
    heater_state,     \* what each heater does
    asked             \* history: its targets since its request was sent, {}
                      \* when it waits for no reply

main == <<m_connections, last_seen, m_connections_mutex, ready, reading,
          closing>>
vars == <<target, backlog, socket, accepted, main, heater_state, asked>>
-----------------------------------------------------------------------------
\* What a heater may be told: what commands set, and the fallback.
Targets == States \cup {FALLBACK_HEATER_STATE}

NoReply == "none"
Socket == [heater : Heaters, request : {"none", "part", "whole", "read"},
           peer : {"open", "closed", "gone", "reset"},
           reply : HeaterState \cup {NoReply}]
Closed == [heater |-> NoHeater, request |-> "none", peer |-> "none",
           reply |-> NoReply]

New(h) == [heater |-> h, request |-> "none", peer |-> "open",
           reply |-> NoReply]

InUse == {f \in Fds : socket[f] # Closed}

\* The connection heater `h' is using: at most one, it opens one at a time.
Queued(h) ==
    {i \in DOMAIN backlog : backlog[i].heater = h /\ backlog[i].peer = "open"}
Using(h) == {f \in InUse : socket[f].heater = h /\ socket[f].peer = "open"}
Connected(h) == Queued(h) \cup Using(h) # {}

\* More of the request of `h' arrives.
Transmit(h, before, after) ==
    \/ \E i \in Queued(h) :
          /\ backlog[i].request = before
          /\ backlog' = [backlog EXCEPT ![i].request = after]
          /\ UNCHANGED socket
    \/ \E f \in Using(h) :
          /\ socket[f].request = before
          /\ socket' = [socket EXCEPT ![f].request = after]
          /\ UNCHANGED backlog

\* `h' ends its connection.
Disconnect(h, end) ==
    \/ \E i \in Queued(h) :
          backlog' = [backlog EXCEPT ![i].peer = end] /\ UNCHANGED socket
    \/ \E f \in Using(h) :
          socket' = [socket EXCEPT ![f].peer = end] /\ UNCHANGED backlog

\* Mutant: client.stop is forgotten.
StayConnected(h, ends) == UNCHANGED <<backlog, socket>>

\* `h' ends its connection, if it has one: it may never have been established,
\* or the base station may have closed or reset it.
Leave(h, ends) ==
    \/ \E end \in ends : Disconnect(h, end)
    \/ ~Connected(h) /\ UNCHANGED <<backlog, socket>>

Init ==
    /\ target = [h \in Heaters |-> FALLBACK_HEATER_STATE]
    /\ backlog = <<>>
    /\ socket = [f \in Fds |-> Closed]
    /\ accepted = NoFd
    /\ m_connections = {}
    /\ last_seen = [f \in Fds |-> 0]
    /\ m_connections_mutex = "free"
    /\ ready = {}
    /\ reading = NoFd
    /\ closing = NoFd
    /\ heater_state = [h \in Heaters |-> FALLBACK_HEATER_STATE]
    /\ asked = [h \in Heaters |-> {}]
-----------------------------------------------------------------------------
(***************************************************************************)
(* The heater controllers.                                                 *)
(***************************************************************************)
\* client.connect succeeds: the kernel of the base station answers it.
Connect(h) ==
    /\ ~Connected(h)
    /\ Len(backlog) < MaxBacklog
    /\ backlog' = Append(backlog, New(h))
    /\ UNCHANGED <<target, socket, accepted, main, heater_state, asked>>

\* The request arrives, in one or in two pieces.
SendRequest(h) ==
    /\ \E amount \in {"part", "whole"} : Transmit(h, "none", amount)
    /\ asked' = [asked EXCEPT ![h] = {target[h]}]
    /\ UNCHANGED <<target, accepted, main, heater_state>>

SendRest(h) ==
    /\ Transmit(h, "part", "whole")
    /\ UNCHANGED <<target, accepted, main, heater_state, asked>>

\* Mutant: the data is read before it is available.
ReceiveEarly(h) ==
    /\ \E f \in Using(h) :
          /\ heater_state' = [heater_state EXCEPT ![h] = socket[f].reply]
          /\ socket' = [socket EXCEPT ![f].peer = "closed"]
    /\ asked' = [asked EXCEPT ![h] = {}]
    /\ UNCHANGED <<target, backlog, accepted, main>>

\* A reply within HEATER_STATE_TIMEOUT, and client.stop.
ReceiveReply(h) ==
    /\ \E f \in Using(h) :
          /\ socket[f].reply # NoReply
          /\ heater_state' = [heater_state EXCEPT ![h] = socket[f].reply]
          /\ socket' = [socket EXCEPT ![f].peer = "closed"]
    /\ asked' = [asked EXCEPT ![h] = {}]
    /\ UNCHANGED <<target, backlog, accepted, main>>

\* client.stop after a failure or a timeout, whether or not its FIN arrives,
\* or a failure to connect; it may be the one that means DEFROST.
GiveUp(h) ==
    /\ Leave(h, {"closed", "gone"})
    /\ \/ UNCHANGED heater_state
       \/ heater_state' = [heater_state EXCEPT ![h] = FALLBACK_HEATER_STATE]
    /\ asked' = [asked EXCEPT ![h] = {}]
    /\ UNCHANGED <<target, accepted, main>>

\* A power cut, in the middle of a request or not: DEFROST when it comes back.
PowerCut(h) ==
    /\ Leave(h, {"gone"})
    /\ heater_state' = [heater_state EXCEPT ![h] = FALLBACK_HEATER_STATE]
    /\ asked' = [asked EXCEPT ![h] = {}]
    /\ UNCHANGED <<target, accepted, main>>

\* The kernel gives up on a reply to a peer that is gone, or is told by one
\* that came back.  One that has closed may reset too: read goes on returning
\* the end of the stream.
PeerResets(f) ==
    /\ f \in InUse
    /\ socket[f].peer = "gone"
    /\ socket[f].reply # NoReply
    /\ socket' = [socket EXCEPT ![f].peer = "reset"]
    /\ UNCHANGED <<target, backlog, accepted, main, heater_state, asked>>

Heater(h) ==
    \/ Connect(h)
    \/ SendRequest(h)
    \/ SendRest(h)
    \/ ReceiveReply(h)
    \/ GiveUp(h)
    \/ PowerCut(h)
-----------------------------------------------------------------------------
(***************************************************************************)
(* The thread of DeviceServer.                                             *)
(***************************************************************************)
\* accept: a descriptor that is not in use, perhaps closed a moment ago.
Accept ==
    /\ accepted = NoFd
    /\ backlog # <<>>
    /\ \E f \in Fds \ InUse :
          /\ socket' = [socket EXCEPT ![f] = Head(backlog)]
          /\ accepted' = f
    /\ backlog' = Tail(backlog)
    /\ UNCHANGED <<target, main, heater_state, asked>>

\* Mutant: the descriptor is put in the list without the mutex.
HandleUnlocked ==
    /\ accepted # NoFd
    /\ m_connections' = m_connections \cup {accepted}
    /\ last_seen' = [last_seen EXCEPT ![accepted] = 0]
    /\ accepted' = NoFd
    /\ UNCHANGED <<target, backlog, socket, m_connections_mutex, ready, reading,
                   closing, heater_state, asked>>

\* Mutant: the descriptor is not put in the list.
LoseDevice ==
    /\ accepted # NoFd
    /\ m_connections_mutex = "free"
    /\ accepted' = NoFd
    /\ UNCHANGED <<target, backlog, socket, main, heater_state, asked>>

HandleNewDevice ==
    /\ accepted # NoFd
    /\ m_connections_mutex = "free"
    /\ m_connections' = m_connections \cup {accepted}
    /\ last_seen' = [last_seen EXCEPT ![accepted] = 0]
    /\ accepted' = NoFd
    /\ UNCHANGED <<target, backlog, socket, m_connections_mutex, ready, reading,
                   closing, heater_state, asked>>
-----------------------------------------------------------------------------
(***************************************************************************)
(* The main thread.                                                        *)
(***************************************************************************)
\* It holds the mutex in handleConnections ("main") and, once it has found a
\* stale connection, in checkStaleConnections ("stale").
idle == m_connections_mutex = "free"

\* What poll reports: data to read, an error or the end of the stream.
Readable(f) ==
    socket[f].request \in {"part", "whole"} \/ socket[f].peer \in {"closed", "reset"}

\* Mutant: the answer of poll is not looked at.
PollAll ==
    /\ m_connections_mutex = "free"
    /\ \E f \in m_connections : Readable(f)
    /\ ready' = m_connections
    /\ m_connections_mutex' = "main"
    /\ UNCHANGED <<target, backlog, socket, accepted, m_connections, last_seen,
                   reading, closing, heater_state, asked>>

\* The head of handleConnections; the mutex is held to its end.
PollConnections ==
    /\ m_connections_mutex = "free"
    /\ ready' = {f \in m_connections : Readable(f)}
    /\ ready' # {}
    /\ m_connections_mutex' = "main"
    /\ UNCHANGED <<target, backlog, socket, accepted, m_connections, last_seen,
                   reading, closing, heater_state, asked>>

NextConnection ==
    /\ reading = NoFd /\ closing = NoFd
    /\ \E f \in ready : reading' = f /\ ready' = ready \ {f}
    /\ UNCHANGED <<target, backlog, socket, accepted, m_connections, last_seen,
                   m_connections_mutex, closing, heater_state, asked>>

\* Mutant: the first heater that ever asked decides.
ReplyToAny(f) == target[CHOOSE h \in Heaters : TRUE]
\* The state of the heater whose name the request carries.
ReplyTo(f) == target[socket[f].heater]

\* A whole message: parseMessage, which replies, be the peer still there or not.
ReadRequest ==
    /\ reading # NoFd
    /\ socket[reading].request = "whole"
    /\ socket' = [socket EXCEPT ![reading].request = "read",
                                ![reading].reply = ReplyTo(reading)]
    /\ last_seen' = [last_seen EXCEPT ![reading] = 0]
    /\ reading' = NoFd
    /\ UNCHANGED <<target, backlog, accepted, m_connections,
                   m_connections_mutex, ready, closing, heater_state, asked>>

\* close: the kernel may hand out the number again, before its entry is erased.
Close(f) ==
    /\ socket' = [socket EXCEPT ![f] = Closed]
    /\ closing' = f

EraseConnection ==
    /\ closing # NoFd
    /\ m_connections' = m_connections \ {closing}
    /\ last_seen' = [last_seen EXCEPT ![closing] = 0]
    /\ closing' = NoFd
    /\ UNCHANGED <<target, backlog, socket, accepted, m_connections_mutex, ready,
                   reading, heater_state, asked>>

\* read returns 0: nothing, or only a part of a message, came before the end.
ReadEnd ==
    /\ reading # NoFd
    /\ socket[reading].request # "whole"
    /\ socket[reading].peer = "closed"
    /\ Close(reading)
    /\ reading' = NoFd
    /\ UNCHANGED <<target, backlog, accepted, m_connections, last_seen,
                   m_connections_mutex, ready, heater_state, asked>>

\* Mutant: read is tried again after an error.
RetryRead ==
    /\ reading # NoFd
    /\ socket[reading].request # "whole"
    /\ socket[reading].peer = "reset"
    /\ UNCHANGED vars

\* read fails: the connection stays in the list, the next read returns 0.
ReadError ==
    /\ reading # NoFd
    /\ socket[reading].request # "whole"
    /\ socket[reading].peer = "reset"
    /\ socket' = [socket EXCEPT ![reading].peer = "closed"]
    /\ reading' = NoFd
    /\ UNCHANGED <<target, backlog, accepted, m_connections, last_seen,
                   m_connections_mutex, ready, closing, heater_state, asked>>

FinishConnections ==
    /\ m_connections_mutex = "main"
    /\ ready = {} /\ reading = NoFd /\ closing = NoFd
    /\ m_connections_mutex' = "free"
    /\ UNCHANGED <<target, backlog, socket, accepted, m_connections, last_seen,
                   ready, reading, closing, heater_state, asked>>

HandleConnections ==
    \/ PollConnections
    \/ NextConnection
    \/ ReadRequest
    \/ ReadEnd
    \/ EraseConnection
    \/ ReadError
    \/ FinishConnections

\* read blocks: only a part of the message has arrived, and no end.
Blocked ==
    /\ reading # NoFd
    /\ socket[reading].request = "part"
    /\ socket[reading].peer \in {"open", "gone"}

Stale == {f \in m_connections : last_seen[f] > MaxIdle}

\* The mutex is taken, and the list walked to its end if a connection is stale.
LockStale ==
    /\ m_connections_mutex = "free"
    /\ Stale # {}
    /\ m_connections_mutex' = "stale"
    /\ UNCHANGED <<target, backlog, socket, accepted, m_connections, last_seen,
                   ready, reading, closing, heater_state, asked>>

CloseStale ==
    /\ m_connections_mutex = "stale"
    /\ closing = NoFd
    /\ \E f \in Stale : Close(f)
    /\ UNCHANGED <<target, backlog, accepted, m_connections, last_seen,
                   m_connections_mutex, ready, reading, heater_state, asked>>

FinishStale ==
    /\ m_connections_mutex = "stale"
    /\ closing = NoFd /\ Stale = {}
    /\ m_connections_mutex' = "free"
    /\ UNCHANGED <<target, backlog, socket, accepted, m_connections, last_seen,
                   ready, reading, closing, heater_state, asked>>

\* With EraseConnection in between, one stale connection after the other.
checkStaleConnections ==
    \/ LockStale
    \/ CloseStale
    \/ FinishStale

\* The heaters are told `new' from now on, those that wait for a reply too.
Retarget(new) ==
    /\ target' = new
    /\ asked' = [h \in Heaters |->
                   IF asked[h] = {} THEN {} ELSE asked[h] \cup {new[h]}]

\* parseCommands, for one heater or for all, and the fallbacks, for all; also
\* in the main thread.
SetTarget(hs, state) ==
    /\ idle
    /\ Retarget([h \in Heaters |-> IF h \in hs THEN state ELSE target[h]])
    /\ UNCHANGED <<backlog, socket, accepted, main, heater_state>>

\* A minute is long: what the main thread can read, it has read before.
Minute ==
    /\ Blocked \/ (idle /\ \A f \in m_connections : ~Readable(f))
    /\ last_seen' = [f \in Fds |->
           IF f \in m_connections /\ last_seen[f] <= MaxIdle
           THEN last_seen[f] + 1 ELSE last_seen[f]]
    /\ UNCHANGED <<target, backlog, socket, accepted, m_connections,
                   m_connections_mutex, ready, reading, closing, heater_state,
                   asked>>

\* The process is killed and started again: its connections are reset, and
\* the heaters are told what the state file holds.
Restart ==
    /\ \E new \in [Heaters -> Targets] : Retarget(new)
    /\ backlog' = <<>>
    /\ socket' = [f \in Fds |-> Closed]
    /\ accepted' = NoFd
    /\ m_connections' = {}
    /\ last_seen' = [f \in Fds |-> 0]
    /\ m_connections_mutex' = "free"
    /\ ready' = {}
    /\ reading' = NoFd
    /\ closing' = NoFd
    /\ UNCHANGED heater_state

Next ==
    \/ \E h \in Heaters : Heater(h)
    \/ \E f \in Fds : PeerResets(f)
    \/ Accept
    \/ HandleNewDevice
    \/ HandleConnections
    \/ checkStaleConnections
    \/ \E hs \in {Heaters} \cup {{h} : h \in Heaters}, state \in Targets :
          SetTarget(hs, state)
    \/ Minute
    \/ Restart

Spec == Init /\ [][Next]_vars
-----------------------------------------------------------------------------
(***************************************************************************)
(* Safety.                                                                 *)
(***************************************************************************)
TypeOK ==
    /\ target \in [Heaters -> HeaterState]
    /\ backlog \in Seq(Socket)
    /\ socket \in [Fds -> Socket \cup {Closed}]
    /\ accepted \in Fds \cup {NoFd}
    /\ m_connections \in SUBSET Fds
    /\ last_seen \in [Fds -> 0 .. MaxIdle + 1]
    /\ m_connections_mutex \in {"free", "main", "stale"}
    /\ ready \in SUBSET Fds
    /\ reading \in Fds \cup {NoFd}
    /\ closing \in Fds \cup {NoFd}
    /\ heater_state \in [Heaters -> HeaterState]
    /\ asked \in [Heaters -> SUBSET HeaterState]

\* Descriptors are neither leaked nor used after they are closed.  Those in use
\* are the ones in m_connections, but for the one whose entry is still to be
\* erased, and the one on its way there.  The kernel may hand that one out again
\* before the entry is erased, but it is in the list only once: by the time the
\* mutex is free for the new entry, the old one is gone.  And neither poll's
\* answer nor read is about a descriptor that was closed.
DescriptorsAccounted ==
    /\ InUse = (m_connections \ {closing}) \cup ({accepted} \ {NoFd})
    /\ accepted \in m_connections =>
          accepted = closing /\ m_connections_mutex # "free"
    /\ ready \cup ({reading} \ {NoFd}) \subseteq m_connections \ {closing}

\* The read that follows a poll returns something: whatever the heaters and the
\* kernel do between the two, the data or the end that poll saw is still there.
\* So the main loop only ever waits for the rest of a message.
ReadReturns == \A f \in ready \cup ({reading} \ {NoFd}) : Readable(f)

\* A heater only takes a state that was its target at some time between its
\* request and the reply, or DEFROST: never another heater's, and never an
\* older one, whatever was left unread on its earlier connections.
StatesAreCurrent ==
    [][\A h \in Heaters :
         heater_state'[h] # heater_state[h] =>
             heater_state'[h] \in asked[h] \cup {FALLBACK_HEATER_STATE}]_vars
-----------------------------------------------------------------------------
(***************************************************************************)
(* Liveness.  Both threads are scheduled and time passes.  The mutex is    *)
(* free for 50 ms in every round of the main loop, so that the thread of   *)
(* the server gets it (strong fairness); the timer of the stale            *)
(* connections is looked at in every round.  Nothing is assumed of the     *)
(* heaters.                                                                *)
(***************************************************************************)
FairSpec ==
    /\ Spec
    /\ WF_vars(HandleConnections)
    /\ SF_vars(Accept) /\ SF_vars(HandleNewDevice)
    /\ SF_vars(checkStaleConnections)
    /\ SF_vars(Minute)

\* The main loop waits for the rest of a message that never comes.
Stalled == []Blocked

\* The descriptor of a connection whose heater has closed it or vanished is
\* closed, unless the main loop is stalled.
DescriptorsReturn ==
    \A f \in Fds :
        f \in InUse /\ socket[f].peer # "open" ~> (f \notin InUse \/ Stalled)

\* A request that has arrived is answered, unless the heater gives up or the
\* main loop is stalled.
RequestsAnswered ==
    \A f \in Fds :
        f \in InUse /\ socket[f].request = "whole" /\ socket[f].peer = "open"
            ~> (\/ f \notin InUse
                \/ socket[f].reply # NoReply
                \/ socket[f].peer # "open"
                \/ Stalled)
=============================================================================
