----------------------- MODULE HeaterConnectionsProofs -----------------------
(***************************************************************************)
(* Proofs about HeaterConnections: type correctness, and that the base     *)
(* station neither leaks, confuses nor reuses too early the descriptors of *)
(* its connections, for any number of heaters and descriptors.             *)
(***************************************************************************)
EXTENDS HeaterConnections, SequenceTheorems, TLAPS

-----------------------------------------------------------------------------
(***************************************************************************)
(* Sockets.                                                                *)
(***************************************************************************)
Peer == {"open", "closed", "gone", "reset"}
Request == {"none", "part", "whole", "read"}

\* Closed is not the socket of any heater.
LEMMA ClosedLemma == Closed \notin Socket
  BY HeatersAssumption DEF Closed, Socket

LEMMA NewLemma == \A h \in Heaters : New(h) \in Socket
  BY DEF New, Socket

LEMMA ChangedLemma ==
    ASSUME NEW s \in Socket
    PROVE  /\ \A r \in Request : [s EXCEPT !.request = r] \in Socket
           /\ \A p \in Peer : [s EXCEPT !.peer = p] \in Socket
           /\ \A r \in Request, y \in HeaterState \cup {NoReply} :
                 [s EXCEPT !.request = r, !.reply = y] \in Socket
  BY DEF Socket, Request, Peer

SocketsTypeOK == socket \in [Fds -> Socket \cup {Closed}]

LEMMA InUseLemma ==
    ASSUME SocketsTypeOK
    PROVE  /\ InUse \subseteq Fds
           /\ \A f \in InUse : socket[f] \in Socket
           /\ \A f \in Fds : socket[f] \in Socket => f \in InUse
  BY ClosedLemma DEF SocketsTypeOK, InUse

\* A socket in use that changes and stays one.
LEMMA SocketChanges ==
    ASSUME SocketsTypeOK, NEW f \in InUse, NEW s \in Socket,
           socket' = [socket EXCEPT ![f] = s]
    PROVE  SocketsTypeOK' /\ InUse' = InUse
  BY ClosedLemma DEF SocketsTypeOK, InUse

\* Requests and the end of a connection change a socket in the backlog or one
\* in use, and open and close none.
LEMMA TransmitLemma ==
    ASSUME SocketsTypeOK, backlog \in Seq(Socket), NEW h,
           NEW before, NEW after \in Request, Transmit(h, before, after)
    PROVE  SocketsTypeOK' /\ backlog' \in Seq(Socket) /\ InUse' = InUse
<1>1. ASSUME NEW i \in Queued(h),
             backlog' = [backlog EXCEPT ![i].request = after], UNCHANGED socket
      PROVE  SocketsTypeOK' /\ backlog' \in Seq(Socket) /\ InUse' = InUse
  <2>1. i \in 1 .. Len(backlog) /\ backlog[i] \in Socket
    BY DEF Queued
  <2>2. [backlog[i] EXCEPT !.request = after] \in Socket
    BY <2>1, ChangedLemma
  <2>3. backlog' \in Seq(Socket)
    BY <1>1, <2>1, <2>2, ExceptSeq
  <2> QED
    BY <1>1, <2>3 DEF SocketsTypeOK, InUse
<1>2. ASSUME NEW f \in Using(h),
             socket' = [socket EXCEPT ![f].request = after], UNCHANGED backlog
      PROVE  SocketsTypeOK' /\ backlog' \in Seq(Socket) /\ InUse' = InUse
  <2>1. f \in InUse /\ socket[f] \in Socket
    BY InUseLemma DEF Using
  <2>2. [socket[f] EXCEPT !.request = after] \in Socket
    BY <2>1, ChangedLemma
  <2> QED
    BY <1>2, <2>1, <2>2, SocketChanges
<1> QED
  BY <1>1, <1>2 DEF Transmit

LEMMA DisconnectLemma ==
    ASSUME SocketsTypeOK, backlog \in Seq(Socket), NEW h,
           NEW end \in Peer, Disconnect(h, end)
    PROVE  SocketsTypeOK' /\ backlog' \in Seq(Socket) /\ InUse' = InUse
<1>1. ASSUME NEW i \in Queued(h),
             backlog' = [backlog EXCEPT ![i].peer = end], UNCHANGED socket
      PROVE  SocketsTypeOK' /\ backlog' \in Seq(Socket) /\ InUse' = InUse
  <2>1. i \in 1 .. Len(backlog) /\ backlog[i] \in Socket
    BY DEF Queued
  <2>2. [backlog[i] EXCEPT !.peer = end] \in Socket
    BY <2>1, ChangedLemma
  <2>3. backlog' \in Seq(Socket)
    BY <1>1, <2>1, <2>2, ExceptSeq
  <2> QED
    BY <1>1, <2>3 DEF SocketsTypeOK, InUse
<1>2. ASSUME NEW f \in Using(h),
             socket' = [socket EXCEPT ![f].peer = end], UNCHANGED backlog
      PROVE  SocketsTypeOK' /\ backlog' \in Seq(Socket) /\ InUse' = InUse
  <2>1. f \in InUse /\ socket[f] \in Socket
    BY InUseLemma DEF Using
  <2>2. [socket[f] EXCEPT !.peer = end] \in Socket
    BY <2>1, ChangedLemma
  <2> QED
    BY <1>2, <2>1, <2>2, SocketChanges
<1> QED
  BY <1>1, <1>2 DEF Disconnect

LEMMA LeaveLemma ==
    ASSUME SocketsTypeOK, backlog \in Seq(Socket), NEW h,
           NEW ends \in SUBSET Peer, Leave(h, ends)
    PROVE  SocketsTypeOK' /\ backlog' \in Seq(Socket) /\ InUse' = InUse
<1>1. CASE UNCHANGED <<backlog, socket>>
  BY <1>1 DEF SocketsTypeOK, InUse
<1>2. CASE \E end \in ends : Disconnect(h, end)
  BY <1>2, DisconnectLemma
<1> QED
  BY <1>1, <1>2 DEF Leave

LEMMA TargetsLemma == Targets \subseteq HeaterState
  BY StatesAssumption DEF Targets, HeaterState, FALLBACK_HEATER_STATE
-----------------------------------------------------------------------------
(***************************************************************************)
(* The invariant, in parts: what the heaters do, the kernel's side, the    *)
(* base station's, and how the last two agree.  The mutex is why what poll *)
(* returned is still open: whoever else closes connections needs it.       *)
(***************************************************************************)
HeatersTypeOK ==
    /\ target \in [Heaters -> HeaterState]
    /\ heater_state \in [Heaters -> HeaterState]
    /\ asked \in [Heaters -> SUBSET HeaterState]
KernelTypeOK == SocketsTypeOK /\ backlog \in Seq(Socket)
MainTypeOK ==
    /\ accepted \in Fds \cup {NoFd}
    /\ m_connections \in SUBSET Fds
    /\ last_seen \in [Fds -> 0 .. MaxIdle + 1]
    /\ m_connections_mutex \in {"free", "main", "stale"}
    /\ ready \in SUBSET Fds
    /\ reading \in Fds \cup {NoFd}
    /\ closing \in Fds \cup {NoFd}

LEMMA TypeParts == TypeOK <=> HeatersTypeOK /\ KernelTypeOK /\ MainTypeOK
  BY DEF TypeOK, HeatersTypeOK, KernelTypeOK, SocketsTypeOK, MainTypeOK

MutexHeld ==
    /\ m_connections_mutex # "main" => ready = {} /\ reading = NoFd
    /\ m_connections_mutex = "free" => closing = NoFd
    /\ reading # NoFd => closing = NoFd

\* What was closed is still in the list until its entry is erased.
EntryErased == closing # NoFd => closing \in m_connections

\* No descriptor is read twice in a round: the first time may close it.
ReadOnce == reading \notin ready

DescriptorsInv ==
    /\ HeatersTypeOK /\ KernelTypeOK /\ MainTypeOK
    /\ DescriptorsAccounted /\ MutexHeld /\ ReadOnce /\ EntryErased

LEMMA DescriptorsInit == Init => DescriptorsInv
<1> SUFFICES ASSUME Init PROVE DescriptorsInv
  OBVIOUS
<1>1. HeatersTypeOK
  BY DEF Init, HeatersTypeOK, HeaterState, FALLBACK_HEATER_STATE
<1>2. KernelTypeOK
  BY DEF Init, KernelTypeOK, SocketsTypeOK
<1>3. MainTypeOK
  BY BoundsAssumption DEF Init, MainTypeOK
<1>4. InUse = {}
  BY DEF Init, InUse
<1>5. DescriptorsAccounted /\ MutexHeld /\ ReadOnce /\ EntryErased
  BY <1>4 DEF Init, DescriptorsAccounted, MutexHeld, ReadOnce, EntryErased
<1> QED
  BY <1>1, <1>2, <1>3, <1>5 DEF DescriptorsInv

\* A step of the kernel or of a heater that opens and closes no descriptor.
LEMMA OutsideStep ==
    ASSUME DescriptorsInv, HeatersTypeOK', KernelTypeOK', InUse' = InUse,
           UNCHANGED <<accepted, main>>
    PROVE  DescriptorsInv'
  BY DEF DescriptorsInv, MainTypeOK, DescriptorsAccounted, MutexHeld, ReadOnce,
         EntryErased, main

LEMMA HeaterStep ==
    ASSUME DescriptorsInv, NEW h \in Heaters, Heater(h)
    PROVE  DescriptorsInv'
<1>0. HeatersTypeOK /\ SocketsTypeOK /\ backlog \in Seq(Socket)
  BY DEF DescriptorsInv, KernelTypeOK
<1>1. CASE Connect(h)
  <2>1. backlog' \in Seq(Socket)
    BY <1>0, <1>1, NewLemma, AppendProperties DEF Connect
  <2>2. KernelTypeOK' /\ InUse' = InUse
    BY <1>0, <1>1, <2>1 DEF Connect, KernelTypeOK, SocketsTypeOK, InUse
  <2>3. HeatersTypeOK'
    BY <1>0, <1>1 DEF Connect, HeatersTypeOK
  <2> QED
    BY <1>1, <2>2, <2>3, OutsideStep DEF Connect
<1>2. CASE SendRequest(h)
  <2>1. PICK amount \in {"part", "whole"} : Transmit(h, "none", amount)
    BY <1>2 DEF SendRequest
  <2>2. KernelTypeOK' /\ InUse' = InUse
    BY <1>0, <2>1, TransmitLemma DEF KernelTypeOK, Request
  <2>3. HeatersTypeOK'
    BY <1>0, <1>2 DEF SendRequest, HeatersTypeOK
  <2> QED
    BY <1>2, <2>2, <2>3, OutsideStep DEF SendRequest
<1>3. CASE SendRest(h)
  <2>1. KernelTypeOK' /\ InUse' = InUse
    BY <1>0, <1>3, TransmitLemma DEF SendRest, KernelTypeOK, Request
  <2>2. HeatersTypeOK'
    BY <1>0, <1>3 DEF SendRest, HeatersTypeOK
  <2> QED
    BY <1>3, <2>1, <2>2, OutsideStep DEF SendRest
<1>4. CASE ReceiveReply(h)
  <2>1. PICK f \in Using(h) :
            /\ socket[f].reply # NoReply
            /\ heater_state' = [heater_state EXCEPT ![h] = socket[f].reply]
            /\ socket' = [socket EXCEPT ![f].peer = "closed"]
    BY <1>4 DEF ReceiveReply
  <2>2. f \in InUse /\ socket[f] \in Socket
    BY <1>0, InUseLemma DEF Using
  <2>3. [socket[f] EXCEPT !.peer = "closed"] \in Socket
    BY <2>2, ChangedLemma DEF Peer
  <2>4. KernelTypeOK' /\ InUse' = InUse
    BY <1>0, <1>4, <2>1, <2>2, <2>3, SocketChanges DEF ReceiveReply, KernelTypeOK
  <2>5. socket[f].reply \in HeaterState
    BY <2>1, <2>2 DEF Socket
  <2>6. HeatersTypeOK'
    BY <1>0, <1>4, <2>1, <2>5 DEF ReceiveReply, HeatersTypeOK
  <2> QED
    BY <1>4, <2>4, <2>6, OutsideStep DEF ReceiveReply
<1>5. CASE GiveUp(h)
  <2>1. Leave(h, {"closed", "gone"}) /\ {"closed", "gone"} \in SUBSET Peer
    BY <1>5 DEF GiveUp, Peer
  <2>2. KernelTypeOK' /\ InUse' = InUse
    BY <1>0, <2>1, LeaveLemma DEF KernelTypeOK
  <2>3. HeatersTypeOK'
    BY <1>0, <1>5 DEF GiveUp, HeatersTypeOK, HeaterState, FALLBACK_HEATER_STATE
  <2> QED
    BY <1>5, <2>2, <2>3, OutsideStep DEF GiveUp
<1>6. CASE PowerCut(h)
  <2>0. Leave(h, {"gone"}) /\ {"gone"} \in SUBSET Peer
    BY <1>6 DEF PowerCut, Peer
  <2>1. KernelTypeOK' /\ InUse' = InUse
    BY <1>0, <2>0, LeaveLemma DEF KernelTypeOK
  <2>2. HeatersTypeOK'
    BY <1>0, <1>6 DEF PowerCut, HeatersTypeOK, HeaterState, FALLBACK_HEATER_STATE
  <2> QED
    BY <1>6, <2>1, <2>2, OutsideStep DEF PowerCut
<1> QED
  BY <1>1, <1>2, <1>3, <1>4, <1>5, <1>6 DEF Heater
-----------------------------------------------------------------------------
(***************************************************************************)
(* The steps of the base station's two threads.                            *)
(***************************************************************************)
LEMMA ServerStep ==
    ASSUME DescriptorsInv, Accept \/ HandleNewDevice
    PROVE  DescriptorsInv'
<1>0. /\ HeatersTypeOK /\ SocketsTypeOK /\ backlog \in Seq(Socket) /\ MainTypeOK
      /\ DescriptorsAccounted /\ MutexHeld /\ ReadOnce /\ EntryErased
  BY DEF DescriptorsInv, KernelTypeOK
<1>1. CASE Accept
  <2>1. PICK f \in Fds \ InUse :
            /\ socket' = [socket EXCEPT ![f] = Head(backlog)]
            /\ accepted' = f
    BY <1>1 DEF Accept
  <2>2. Head(backlog) \in Socket /\ Tail(backlog) \in Seq(Socket)
    BY <1>0, <1>1, HeadTailProperties DEF Accept
  <2>3. SocketsTypeOK' /\ InUse' = InUse \cup {f}
    BY <1>0, <2>1, <2>2, ClosedLemma DEF SocketsTypeOK, InUse
  <2>4. KernelTypeOK'
    BY <1>1, <2>2, <2>3 DEF Accept, KernelTypeOK
  <2>5. f # NoFd /\ (f \in m_connections => f = closing)
    BY <1>0, <2>1, FdsAssumption DEF DescriptorsAccounted
  <2>6. f = closing => m_connections_mutex # "free"
    BY <1>0, <2>5 DEF MutexHeld
  <2>7. DescriptorsAccounted'
    BY <1>0, <1>1, <2>1, <2>3, <2>5, <2>6 DEF Accept, main, DescriptorsAccounted
  <2>8. HeatersTypeOK' /\ MainTypeOK' /\ MutexHeld' /\ ReadOnce' /\ EntryErased'
    BY <1>0, <1>1, <2>1
    DEF Accept, main, HeatersTypeOK, MainTypeOK, MutexHeld, ReadOnce, EntryErased
  <2> QED
    BY <2>4, <2>7, <2>8 DEF DescriptorsInv
<1>2. CASE HandleNewDevice
  <2>1. accepted \in Fds
    BY <1>0, <1>2 DEF HandleNewDevice, MainTypeOK
  <2>2. last_seen' \in [Fds -> 0 .. MaxIdle + 1]
    BY <1>0, <1>2, BoundsAssumption DEF HandleNewDevice, MainTypeOK
  <2>3. HeatersTypeOK' /\ KernelTypeOK' /\ MainTypeOK' /\ InUse' = InUse
    BY <1>0, <1>2, <2>1, <2>2
    DEF HandleNewDevice, HeatersTypeOK, KernelTypeOK, SocketsTypeOK, MainTypeOK,
        InUse
  <2>4. NoFd \notin m_connections \cup {accepted}
    BY <1>0, <2>1, FdsAssumption DEF MainTypeOK
  <2>5. closing = NoFd /\ closing' = NoFd /\ accepted' = NoFd
    BY <1>0, <1>2 DEF HandleNewDevice, MutexHeld
  <2>6. DescriptorsAccounted' /\ MutexHeld' /\ ReadOnce' /\ EntryErased'
    BY <1>0, <1>2, <2>3, <2>4, <2>5
    DEF HandleNewDevice, DescriptorsAccounted, MutexHeld, ReadOnce, EntryErased
  <2> QED
    BY <2>3, <2>6 DEF DescriptorsInv
<1> QED
  BY <1>1, <1>2

\* A listed descriptor is closed; its entry is the next thing to go.
LEMMA CloseLemma ==
    ASSUME DescriptorsInv, NEW f \in m_connections, Close(f),
           closing = NoFd, m_connections_mutex # "free",
           f \notin ready, reading' = NoFd,
           UNCHANGED <<target, backlog, accepted, m_connections, last_seen,
                       m_connections_mutex, ready, heater_state, asked>>
    PROVE  DescriptorsInv'
<1>0. /\ HeatersTypeOK /\ SocketsTypeOK /\ backlog \in Seq(Socket) /\ MainTypeOK
      /\ DescriptorsAccounted /\ MutexHeld /\ ReadOnce /\ EntryErased
  BY DEF DescriptorsInv, KernelTypeOK
<1>1. f \in Fds /\ f # NoFd /\ NoFd \notin m_connections /\ f # accepted
  BY <1>0, FdsAssumption DEF MainTypeOK, DescriptorsAccounted
<1>2. SocketsTypeOK' /\ InUse' = InUse \ {f}
  BY <1>0, <1>1, ClosedLemma DEF Close, SocketsTypeOK, InUse
<1>3. HeatersTypeOK' /\ KernelTypeOK' /\ MainTypeOK'
  BY <1>0, <1>1, <1>2 DEF Close, HeatersTypeOK, KernelTypeOK, MainTypeOK
<1>4. InUse = m_connections \cup ({accepted} \ {NoFd})
  BY <1>0, <1>1 DEF DescriptorsAccounted
<1>5. DescriptorsAccounted'
  BY <1>0, <1>1, <1>2, <1>4 DEF Close, DescriptorsAccounted
<1>6. MutexHeld' /\ ReadOnce' /\ EntryErased'
  BY <1>0, <1>1, FdsAssumption
  DEF Close, MainTypeOK, MutexHeld, ReadOnce, EntryErased
<1> QED
  BY <1>3, <1>5, <1>6 DEF DescriptorsInv

LEMMA CloseStep ==
    ASSUME DescriptorsInv, ReadEnd \/ CloseStale
    PROVE  DescriptorsInv'
<1>0. MainTypeOK /\ DescriptorsAccounted /\ MutexHeld /\ ReadOnce
  BY DEF DescriptorsInv
<1>1. CASE ReadEnd
  BY <1>0, <1>1, CloseLemma DEF ReadEnd, DescriptorsAccounted, MutexHeld, ReadOnce
<1>2. CASE CloseStale
  <2>1. PICK f \in Stale : Close(f)
    BY <1>2 DEF CloseStale
  <2>2. f \in m_connections /\ f \notin ready /\ reading = NoFd
    BY <1>0, <1>2, <2>1 DEF CloseStale, Stale, MutexHeld
  <2> QED
    BY <1>2, <2>1, <2>2, CloseLemma DEF CloseStale
<1> QED
  BY <1>1, <1>2

\* The entry that goes is the old one, even if its number is in use again: the
\* new connection is still on its way to the list.
LEMMA EraseStep ==
    ASSUME DescriptorsInv, EraseConnection
    PROVE  DescriptorsInv'
<1>0. /\ HeatersTypeOK /\ KernelTypeOK /\ MainTypeOK
      /\ DescriptorsAccounted /\ MutexHeld /\ ReadOnce /\ EntryErased
  BY DEF DescriptorsInv
<1>1. /\ m_connections' = m_connections \ {closing} /\ closing' = NoFd
      /\ closing \in Fds
  BY <1>0 DEF EraseConnection, MainTypeOK
<1>2. last_seen' \in [Fds -> 0 .. MaxIdle + 1]
  BY <1>0, BoundsAssumption DEF EraseConnection, MainTypeOK
<1>3. HeatersTypeOK' /\ KernelTypeOK' /\ MainTypeOK' /\ InUse' = InUse
  BY <1>0, <1>1, <1>2
  DEF EraseConnection, HeatersTypeOK, KernelTypeOK, SocketsTypeOK, MainTypeOK,
      InUse
<1>4. NoFd \notin m_connections
  BY <1>0, FdsAssumption DEF MainTypeOK
<1>5. DescriptorsAccounted'
  BY <1>0, <1>1, <1>3, <1>4 DEF EraseConnection, DescriptorsAccounted
<1>6. MutexHeld' /\ ReadOnce' /\ EntryErased'
  BY <1>0, <1>1 DEF EraseConnection, MutexHeld, ReadOnce, EntryErased
<1> QED
  BY <1>3, <1>5, <1>6 DEF DescriptorsInv

\* The steps of the main thread that close nothing.
LEMMA ReadStep ==
    ASSUME DescriptorsInv,
           \/ PollConnections \/ NextConnection \/ ReadRequest
           \/ ReadError \/ FinishConnections
           \/ LockStale \/ FinishStale
    PROVE  DescriptorsInv'
<1>0. /\ HeatersTypeOK /\ SocketsTypeOK /\ backlog \in Seq(Socket) /\ MainTypeOK
      /\ DescriptorsAccounted /\ MutexHeld /\ ReadOnce /\ EntryErased
  BY DEF DescriptorsInv, KernelTypeOK
<1>1. CASE \/ PollConnections \/ NextConnection \/ FinishConnections
           \/ LockStale \/ FinishStale
  <2>1. HeatersTypeOK' /\ KernelTypeOK' /\ InUse' = InUse
    BY <1>0, <1>1
    DEF PollConnections, NextConnection, FinishConnections, LockStale,
        FinishStale, HeatersTypeOK, KernelTypeOK, SocketsTypeOK, InUse
  <2>2. CASE PollConnections
    <3>1. ready' \subseteq m_connections /\ reading' = NoFd /\ closing = NoFd
      BY <1>0, <2>2 DEF PollConnections, MutexHeld
    <3>2. NoFd \notin ready'
      BY <1>0, <3>1, FdsAssumption DEF MainTypeOK
    <3>3. MainTypeOK'
      BY <1>0, <2>2, <3>1 DEF PollConnections, MainTypeOK
    <3> QED
      BY <1>0, <2>1, <2>2, <3>1, <3>2, <3>3
      DEF PollConnections, DescriptorsInv, DescriptorsAccounted, MutexHeld,
          ReadOnce, EntryErased
  <2>3. CASE NextConnection
    <3>1. PICK f \in ready : reading' = f /\ ready' = ready \ {f}
      BY <2>3 DEF NextConnection
    <3>2. m_connections_mutex' = "main"
      BY <1>0, <2>3, <3>1 DEF NextConnection, MainTypeOK, MutexHeld
    <3>3. MainTypeOK'
      BY <1>0, <2>3, <3>1 DEF NextConnection, MainTypeOK
    <3> QED
      BY <1>0, <2>1, <2>3, <3>1, <3>2, <3>3
      DEF NextConnection, DescriptorsInv, DescriptorsAccounted, MutexHeld,
          ReadOnce, EntryErased
  <2>4. CASE FinishConnections \/ FinishStale
    <3>1. /\ closing = NoFd /\ ready = {} /\ reading = NoFd
          /\ NoFd \notin m_connections
      BY <1>0, <2>4, FdsAssumption
      DEF FinishConnections, FinishStale, MainTypeOK, MutexHeld
    <3>2. accepted \notin m_connections
      BY <1>0, <3>1 DEF DescriptorsAccounted
    <3> QED
      BY <1>0, <2>1, <2>4, <3>1, <3>2
      DEF FinishConnections, FinishStale, DescriptorsInv, MainTypeOK,
          DescriptorsAccounted, MutexHeld, ReadOnce, EntryErased
  <2>5. CASE LockStale
    BY <1>0, <2>1, <2>5
    DEF LockStale, DescriptorsInv, MainTypeOK, DescriptorsAccounted, MutexHeld,
        ReadOnce, EntryErased
  <2> QED
    BY <1>1, <2>2, <2>3, <2>4, <2>5
<1>2. CASE ReadRequest \/ ReadError
  <2>1. reading \in Fds /\ reading \in m_connections /\ reading \in InUse
    BY <1>0, <1>2
    DEF ReadRequest, ReadError, MainTypeOK, DescriptorsAccounted
  <2>2. socket[reading] \in Socket
    BY <1>0, <2>1, InUseLemma
  <2>3. SocketsTypeOK' /\ InUse' = InUse
    <3>1. CASE ReadRequest
      <4>1. ReplyTo(reading) \in HeaterState
        BY <1>0, <2>2 DEF ReplyTo, Socket, HeatersTypeOK
      <4>2. [socket[reading] EXCEPT !.request = "read",
                                    !.reply = ReplyTo(reading)] \in Socket
        BY <2>2, <4>1, ChangedLemma DEF Request
      <4>3. socket' = [socket EXCEPT ![reading] =
                [socket[reading] EXCEPT !.request = "read",
                                        !.reply = ReplyTo(reading)]]
        BY <1>0, <2>1, <2>2, <3>1 DEF ReadRequest, SocketsTypeOK, Socket
      <4> QED
        BY <1>0, <2>1, <4>2, <4>3, SocketChanges
    <3>2. CASE ReadError
      <4>1. [socket[reading] EXCEPT !.peer = "closed"] \in Socket
        BY <2>2, ChangedLemma DEF Peer
      <4> QED
        BY <1>0, <2>1, <3>2, <4>1, SocketChanges DEF ReadError
    <3> QED
      BY <1>2, <3>1, <3>2
  <2>4. HeatersTypeOK' /\ KernelTypeOK'
    BY <1>0, <1>2, <2>3 DEF ReadRequest, ReadError, HeatersTypeOK, KernelTypeOK
  <2>5. MainTypeOK'
    BY <1>0, <1>2, BoundsAssumption DEF ReadRequest, ReadError, MainTypeOK
  <2>6. ReadOnce'
    BY <1>0, <1>2, FdsAssumption DEF ReadRequest, ReadError, MainTypeOK, ReadOnce
  <2>7. DescriptorsAccounted' /\ MutexHeld' /\ EntryErased'
    BY <1>0, <1>2, <2>1, <2>3
    DEF ReadRequest, ReadError, DescriptorsAccounted, MutexHeld, EntryErased
  <2> QED
    BY <2>4, <2>5, <2>6, <2>7 DEF DescriptorsInv
<1> QED
  BY <1>1, <1>2
-----------------------------------------------------------------------------
(***************************************************************************)
(* The theorems.                                                           *)
(***************************************************************************)
LEMMA RetargetTypes ==
    ASSUME HeatersTypeOK, NEW new \in [Heaters -> HeaterState], Retarget(new),
           UNCHANGED heater_state
    PROVE  HeatersTypeOK'
  BY DEF HeatersTypeOK, Retarget

LEMMA RestStep ==
    ASSUME DescriptorsInv,
           \/ \E f \in Fds : PeerResets(f)
           \/ \E hs : \E state \in Targets : SetTarget(hs, state)
           \/ Minute
           \/ Restart
           \/ UNCHANGED vars
    PROVE  DescriptorsInv'
<1>0. /\ HeatersTypeOK /\ SocketsTypeOK /\ backlog \in Seq(Socket) /\ MainTypeOK
      /\ DescriptorsAccounted /\ MutexHeld /\ ReadOnce /\ EntryErased
  BY DEF DescriptorsInv, KernelTypeOK
<1>1. ASSUME NEW f \in Fds, PeerResets(f) PROVE DescriptorsInv'
  <2>1. f \in InUse /\ [socket[f] EXCEPT !.peer = "reset"] \in Socket
    BY <1>0, <1>1, InUseLemma, ChangedLemma DEF PeerResets, Peer
  <2>2. SocketsTypeOK' /\ InUse' = InUse
    BY <1>0, <1>1, <2>1, SocketChanges DEF PeerResets
  <2>3. HeatersTypeOK' /\ KernelTypeOK'
    BY <1>0, <1>1, <2>2 DEF PeerResets, HeatersTypeOK, KernelTypeOK
  <2> QED
    BY <1>1, <2>2, <2>3, OutsideStep DEF PeerResets
<1>2. ASSUME NEW hs, NEW state \in Targets, SetTarget(hs, state)
      PROVE  DescriptorsInv'
  <2>1. state \in HeaterState
    BY TargetsLemma
  <2>2. [h \in Heaters |-> IF h \in hs THEN state ELSE target[h]]
            \in [Heaters -> HeaterState]
    BY <1>0, <2>1 DEF HeatersTypeOK
  <2>3. HeatersTypeOK'
    BY <1>0, <1>2, <2>2, RetargetTypes DEF SetTarget
  <2>4. KernelTypeOK' /\ InUse' = InUse
    BY <1>0, <1>2 DEF SetTarget, KernelTypeOK, SocketsTypeOK, InUse
  <2> QED
    BY <1>2, <2>3, <2>4, OutsideStep DEF SetTarget
<1>3. CASE Minute
  <2>1. last_seen' \in [Fds -> 0 .. MaxIdle + 1]
    BY <1>0, <1>3, BoundsAssumption DEF Minute, MainTypeOK
  <2> QED
    BY <1>0, <1>3, <2>1
    DEF Minute, DescriptorsInv, HeatersTypeOK, KernelTypeOK, SocketsTypeOK,
        MainTypeOK, DescriptorsAccounted, MutexHeld, ReadOnce, EntryErased, InUse
<1>4. CASE Restart
  <2>1. SocketsTypeOK' /\ InUse' = {}
    BY <1>4 DEF Restart, SocketsTypeOK, InUse
  <2>2. HeatersTypeOK'
    BY <1>0, <1>4, TargetsLemma, RetargetTypes DEF Restart
  <2>3. KernelTypeOK' /\ MainTypeOK'
    BY <1>0, <1>4, <2>1, BoundsAssumption DEF Restart, KernelTypeOK, MainTypeOK
  <2> QED
    BY <1>4, <2>1, <2>2, <2>3
    DEF Restart, DescriptorsInv, DescriptorsAccounted, MutexHeld, ReadOnce,
        EntryErased
<1>5. CASE UNCHANGED vars
  BY <1>0, <1>5
  DEF vars, main, DescriptorsInv, HeatersTypeOK, KernelTypeOK, SocketsTypeOK,
      MainTypeOK, DescriptorsAccounted, MutexHeld, ReadOnce, EntryErased, InUse
<1> QED
  BY <1>1, <1>2, <1>3, <1>4, <1>5

LEMMA DescriptorsStep == DescriptorsInv /\ [Next]_vars => DescriptorsInv'
  BY HeaterStep, ServerStep, CloseStep, EraseStep, ReadStep, RestStep
  DEF Next, HandleConnections, checkStaleConnections

\* Type correctness for any number of heaters, descriptors and minutes.
THEOREM ConnectionsTypeCorrect == Spec => []TypeOK
<1>1. DescriptorsInv => TypeOK
  BY TypeParts DEF DescriptorsInv
<1> QED
  BY DescriptorsInit, DescriptorsStep, <1>1, PTL DEF Spec

\* Descriptors are neither leaked nor used after they were closed, although
\* two threads handle them and the kernel reuses them at once, also between
\* the close of a descriptor and the removal of its entry.
THEOREM NoDescriptorLost == Spec => []DescriptorsAccounted
<1>1. DescriptorsInv => DescriptorsAccounted
  BY DEF DescriptorsInv
<1> QED
  BY DescriptorsInit, DescriptorsStep, <1>1, PTL DEF Spec
-----------------------------------------------------------------------------
(***************************************************************************)
(* What poll saw stays to be read.  A heater can add to what is readable,  *)
(* but only the main thread takes from it, one descriptor at a time.       *)
(***************************************************************************)
LEMMA StaysReadable ==
    ASSUME DescriptorsInv,
           \/ \E h \in Heaters : Heater(h)
           \/ \E f \in Fds : PeerResets(f)
           \/ Accept,
           NEW f \in Fds, Readable(f)
    PROVE  Readable(f)'
<1>0. /\ SocketsTypeOK /\ backlog \in Seq(Socket)
      /\ socket[f] \in Socket \cup {Closed}
  BY DEF DescriptorsInv, KernelTypeOK, SocketsTypeOK
<1>1. CASE UNCHANGED socket
  BY <1>1 DEF Readable
<1>2. ASSUME NEW g \in Fds, NEW s,
             socket' = [socket EXCEPT ![g] = s],
             g = f => s.request \in {"part", "whole"} \/ s.peer \in {"closed", "reset"}
      PROVE  Readable(f)'
  BY <1>0, <1>2 DEF Readable, SocketsTypeOK
<1>3. ASSUME NEW h, NEW g \in Using(h), NEW r \in {"part", "whole"},
             socket' = [socket EXCEPT ![g].request = r]
      PROVE  Readable(f)'
  <2>1. g \in Fds /\ socket[g] \in Socket
    BY <1>0, InUseLemma DEF Using
  <2>2. [socket[g] EXCEPT !.request = r].request = r
    BY <2>1 DEF Socket
  <2> QED
    BY <1>2, <1>3, <2>1, <2>2
<1>4. ASSUME NEW h, NEW g \in Using(h), NEW end \in {"closed", "gone"},
             socket' = [socket EXCEPT ![g].peer = end]
      PROVE  Readable(f)'
  <2>1. g \in Fds /\ socket[g] \in Socket /\ socket[g].peer = "open"
    BY <1>0, InUseLemma DEF Using
  <2>2. [socket[g] EXCEPT !.peer = end].request = socket[g].request
    BY <2>1 DEF Socket
  <2>3. g = f => socket[g].request \in {"part", "whole"}
    BY <2>1 DEF Readable
  <2> QED
    BY <1>2, <1>4, <2>1, <2>2, <2>3
<1>5. ASSUME NEW h \in Heaters, Heater(h) PROVE Readable(f)'
  <2>1. CASE Connect(h)
    BY <1>1, <2>1 DEF Connect
  <2>2. CASE SendRequest(h) \/ SendRest(h)
    <3>1. \/ UNCHANGED socket
          \/ \E g \in Using(h), r \in {"part", "whole"} :
                socket' = [socket EXCEPT ![g].request = r]
      BY <2>2 DEF SendRequest, SendRest, Transmit
    <3> QED
      BY <1>1, <1>3, <3>1
  <2>3. CASE ReceiveReply(h) \/ GiveUp(h) \/ PowerCut(h)
    <3>1. \/ UNCHANGED socket
          \/ \E g \in Using(h), end \in {"closed", "gone"} :
                socket' = [socket EXCEPT ![g].peer = end]
      BY <2>3 DEF ReceiveReply, GiveUp, PowerCut, Leave, Disconnect
    <3> QED
      BY <1>1, <1>4, <3>1
  <2> QED
    BY <1>5, <2>1, <2>2, <2>3 DEF Heater
<1>6. ASSUME NEW g \in Fds, PeerResets(g) PROVE Readable(f)'
  <2>1. socket[g] \in Socket
    BY <1>0, <1>6, InUseLemma DEF PeerResets
  <2>2. [socket[g] EXCEPT !.peer = "reset"].peer = "reset"
    BY <2>1 DEF Socket
  <2> QED
    BY <1>2, <1>6, <2>2 DEF PeerResets
<1>7. CASE Accept
  <2>1. PICK g \in Fds \ InUse : socket' = [socket EXCEPT ![g] = Head(backlog)]
    BY <1>7 DEF Accept
  <2>2. g # f
    BY <2>1 DEF InUse, Readable, Closed
  <2> QED
    BY <1>2, <2>1, <2>2
<1> QED
  BY <1>5, <1>6, <1>7

LEMMA ReadableStep ==
    DescriptorsInv /\ ReadReturns /\ [Next]_vars => ReadReturns'
<1> SUFFICES ASSUME DescriptorsInv, ReadReturns, [Next]_vars PROVE ReadReturns'
  OBVIOUS
<1>0. /\ SocketsTypeOK /\ MainTypeOK /\ MutexHeld /\ ReadOnce
      /\ ready \cup ({reading} \ {NoFd}) \subseteq Fds
  BY DEF DescriptorsInv, KernelTypeOK, MainTypeOK
<1>1. CASE \/ \E h \in Heaters : Heater(h)
           \/ \E f \in Fds : PeerResets(f)
           \/ Accept
  <2>1. UNCHANGED <<ready, reading>>
    BY <1>1 DEF Heater, Connect, SendRequest, SendRest, ReceiveReply, GiveUp,
                PowerCut, PeerResets, Accept, main
  <2> QED
    BY <1>0, <1>1, <2>1, StaysReadable DEF ReadReturns
<1>2. CASE PollConnections
  <2>1. \A f \in ready' : Readable(f)'
    BY <1>2 DEF PollConnections, Readable
  <2>2. reading' = NoFd
    BY <1>0, <1>2 DEF PollConnections, MutexHeld
  <2> QED
    BY <2>1, <2>2 DEF ReadReturns
<1>3. CASE NextConnection
  BY <1>3 DEF NextConnection, ReadReturns, Readable
<1>4. CASE ReadRequest \/ ReadEnd \/ ReadError
  <2>1. reading' = NoFd /\ ready' = ready /\ reading \notin ready
    BY <1>0, <1>4 DEF ReadRequest, ReadEnd, ReadError, ReadOnce
  <2>2. \A f \in Fds : f # reading => socket'[f] = socket[f]
    BY <1>0, <1>4
    DEF ReadRequest, ReadEnd, ReadError, Close, SocketsTypeOK
  <2>3. \A f \in ready : Readable(f)'
    BY <1>0, <2>1, <2>2 DEF ReadReturns, Readable
  <2> QED
    BY <2>1, <2>3 DEF ReadReturns
<1>5. CASE CloseStale \/ Restart
  BY <1>0, <1>5 DEF CloseStale, Restart, MutexHeld, ReadReturns
<1>6. CASE \/ HandleNewDevice \/ FinishConnections \/ Minute
           \/ EraseConnection \/ LockStale \/ FinishStale
           \/ (\E hs, state : SetTarget(hs, state)) \/ UNCHANGED vars
  <2>1. UNCHANGED <<socket, ready, reading>>
    BY <1>6 DEF HandleNewDevice, FinishConnections, Minute, EraseConnection,
                LockStale, FinishStale, SetTarget, main, vars
  <2> QED
    BY <2>1 DEF ReadReturns, Readable
<1> QED
  BY <1>1, <1>2, <1>3, <1>4, <1>5, <1>6
  DEF Next, HandleConnections, checkStaleConnections

\* The read that follows poll never waits for the first byte.
THEOREM ReadNeverWaits == Spec => []ReadReturns
<1>1. Init => ReadReturns
  BY DEF Init, ReadReturns
<1> QED
  BY DescriptorsInit, DescriptorsStep, ReadableStep, <1>1, PTL DEF Spec
-----------------------------------------------------------------------------
(***************************************************************************)
(* States are current.  A heater has at most one open connection; while a  *)
(* request on it is unanswered the target is among `asked', and a reply on *)
(* it is a member of `asked'.                                              *)
(***************************************************************************)
Sound(s) ==
    /\ s.request = "none" => s.reply = NoReply
    /\ s.request \in {"part", "whole"} => target[s.heater] \in asked[s.heater]
    /\ s.reply # NoReply => s.reply \in asked[s.heater]

OneConnection(h) ==
    /\ \A i, j \in Queued(h) : i = j
    /\ \A f, g \in Using(h) : f = g
    /\ Queued(h) = {} \/ Using(h) = {}

Current(h) ==
    /\ OneConnection(h)
    /\ \A i \in Queued(h) : Sound(backlog[i])
    /\ \A f \in Using(h) : Sound(socket[f])

CurrentInv == \A h \in Heaters : Current(h)

\* No open connection of `h' is new or changed.
Untouched(h) ==
    /\ \A i \in Queued(h)' : i \in Queued(h) /\ backlog'[i] = backlog[i]
    /\ \A f \in Using(h)' : f \in Using(h) /\ socket'[f] = socket[f]

LEMMA FieldsLemma ==
    ASSUME NEW s \in Socket, NEW x, NEW y
    PROVE  /\ [s EXCEPT !.request = x].heater = s.heater
           /\ [s EXCEPT !.request = x].peer = s.peer
           /\ [s EXCEPT !.request = x].reply = s.reply
           /\ [s EXCEPT !.request = x].request = x
           /\ [s EXCEPT !.peer = x].heater = s.heater
           /\ [s EXCEPT !.peer = x].peer = x
           /\ [s EXCEPT !.request = x, !.reply = y].heater = s.heater
           /\ [s EXCEPT !.request = x, !.reply = y].peer = s.peer
           /\ [s EXCEPT !.request = x, !.reply = y].request = x
           /\ [s EXCEPT !.request = x, !.reply = y].reply = y
  BY DEF Socket

LEMMA UsingLemma ==
    ASSUME SocketsTypeOK, backlog \in Seq(Socket), NEW h
    PROVE  /\ Queued(h) \subseteq 1 .. Len(backlog)
           /\ \A i \in Queued(h) : /\ backlog[i] \in Socket
                                   /\ backlog[i].heater = h
                                   /\ backlog[i].peer = "open"
           /\ \A f \in Using(h) : /\ f \in InUse /\ f \in Fds
                                  /\ socket[f] \in Socket
                                  /\ socket[f].heater = h
                                  /\ socket[f].peer = "open"
  BY InUseLemma DEF Queued, Using

LEMMA FrameLemma ==
    ASSUME NEW h, Current(h), Untouched(h),
           target'[h] = target[h], asked'[h] = asked[h],
           SocketsTypeOK, backlog \in Seq(Socket)
    PROVE  Current(h)'
<1>1. OneConnection(h)'
  BY DEF Current, OneConnection, Untouched
<1>2. ASSUME NEW i \in Queued(h)' PROVE Sound(backlog[i])'
  <2>1. backlog'[i] = backlog[i] /\ i \in Queued(h) /\ backlog[i].heater = h
    BY <1>2, UsingLemma DEF Untouched
  <2> QED
    BY <2>1 DEF Current, Sound
<1>3. ASSUME NEW f \in Using(h)' PROVE Sound(socket[f])'
  <2>1. socket'[f] = socket[f] /\ f \in Using(h) /\ socket[f].heater = h
    BY <1>3, UsingLemma DEF Untouched
  <2> QED
    BY <2>1 DEF Current, Sound
<1> QED
  BY <1>1, <1>2, <1>3 DEF Current

\* Sockets that stay as they are.
LEMMA SameSockets ==
    ASSUME UNCHANGED <<backlog, socket>>, NEW h
    PROVE  Untouched(h) /\ Queued(h)' = Queued(h) /\ Using(h)' = Using(h)
  BY DEF Untouched, Queued, Using, InUse

\* What is transmitted changes the request of the one open connection.
LEMMA TransmitCurrent ==
    ASSUME SocketsTypeOK, backlog \in Seq(Socket), NEW h,
           NEW before, NEW after \in Request, Transmit(h, before, after)
    PROVE  /\ \A g : g # h => Untouched(g)
           /\ Queued(h)' = Queued(h) /\ Using(h)' = Using(h)
           /\ \/ \E i \in Queued(h) :
                    /\ backlog[i].request = before
                    /\ backlog'[i] = [backlog[i] EXCEPT !.request = after]
                    /\ \A j \in Queued(h) \ {i} : backlog'[j] = backlog[j]
                    /\ UNCHANGED socket
              \/ \E f \in Using(h) :
                    /\ socket[f].request = before
                    /\ socket'[f] = [socket[f] EXCEPT !.request = after]
                    /\ \A g \in Using(h) \ {f} : socket'[g] = socket[g]
                    /\ UNCHANGED backlog
<1>1. ASSUME NEW i \in Queued(h), backlog[i].request = before,
             backlog' = [backlog EXCEPT ![i].request = after], UNCHANGED socket
      PROVE  /\ \A g : g # h => Untouched(g)
             /\ Queued(h)' = Queued(h) /\ Using(h)' = Using(h)
             /\ backlog'[i] = [backlog[i] EXCEPT !.request = after]
             /\ \A j \in Queued(h) \ {i} : backlog'[j] = backlog[j]
  <2>1. i \in 1 .. Len(backlog) /\ backlog[i] \in Socket /\ backlog[i].heater = h
        /\ backlog[i].peer = "open"
    BY UsingLemma
  <2>2. DOMAIN backlog' = DOMAIN backlog
    BY <1>1
  <2>3. /\ backlog'[i] = [backlog[i] EXCEPT !.request = after]
        /\ \A j \in DOMAIN backlog \ {i} : backlog'[j] = backlog[j]
    BY <1>1, <2>1
  <2>4. backlog'[i].heater = h /\ backlog'[i].peer = "open"
    BY <2>1, <2>3, FieldsLemma
  <2>5. ASSUME NEW g PROVE Queued(g)' = Queued(g)
    <3>1. \A j \in DOMAIN backlog :
              /\ backlog'[j].heater = backlog[j].heater
              /\ backlog'[j].peer = backlog[j].peer
      BY <2>1, <2>3, <2>4
    <3> QED
      BY <2>2, <3>1 DEF Queued
  <2>6. \A g : Using(g)' = Using(g)
    BY <1>1 DEF Using, InUse
  <2>7. \A g : g # h => i \notin Queued(g)
    BY <2>1 DEF Queued
  <2>8. \A g : Queued(g) \subseteq DOMAIN backlog
    BY DEF Queued
  <2> QED
    BY <1>1, <2>3, <2>5, <2>6, <2>7, <2>8 DEF Untouched
<1>2. ASSUME NEW f \in Using(h), socket[f].request = before,
             socket' = [socket EXCEPT ![f].request = after], UNCHANGED backlog
      PROVE  /\ \A g : g # h => Untouched(g)
             /\ Queued(h)' = Queued(h) /\ Using(h)' = Using(h)
             /\ socket'[f] = [socket[f] EXCEPT !.request = after]
             /\ \A g \in Using(h) \ {f} : socket'[g] = socket[g]
  <2>1. f \in Fds /\ socket[f] \in Socket /\ socket[f].heater = h
        /\ socket[f].peer = "open" /\ f \in InUse
    BY UsingLemma
  <2>2. /\ socket'[f] = [socket[f] EXCEPT !.request = after]
        /\ \A g \in Fds \ {f} : socket'[g] = socket[g]
    BY <1>2, <2>1 DEF SocketsTypeOK
  <2>3. socket'[f].heater = h /\ socket'[f].peer = "open"
    BY <2>1, <2>2, FieldsLemma
  <2>4. InUse' = InUse
    BY <1>2, <2>1, ChangedLemma, SocketChanges
  <2>5. ASSUME NEW g PROVE Using(g)' = Using(g)
    <3>1. \A d \in Fds : /\ socket'[d].heater = socket[d].heater
                         /\ socket'[d].peer = socket[d].peer
      BY <2>1, <2>2, <2>3
    <3>2. InUse \subseteq Fds
      BY DEF InUse
    <3>3. Using(g) = {d \in InUse : socket[d].heater = g /\ socket[d].peer = "open"}
      BY DEF Using
    <3>4. Using(g)' = {d \in InUse' : socket'[d].heater = g /\ socket'[d].peer = "open"}
      BY DEF Using
    <3> HIDE DEF InUse
    <3> QED
      BY <2>4, <3>1, <3>2, <3>3, <3>4
  <2>6. \A g : Queued(g)' = Queued(g)
    BY <1>2 DEF Queued
  <2>7. \A g : g # h => f \notin Using(g)
    BY <2>1 DEF Using
  <2>8. \A g : Using(g) \subseteq Fds
    BY DEF Using, InUse
  <2> QED
    BY <1>2, <2>2, <2>5, <2>6, <2>7, <2>8 DEF Untouched
<1> QED
  BY <1>1, <1>2 DEF Transmit

\* A heater that ends its connection has none, and leaves the others alone.
LEMMA DisconnectCurrent ==
    ASSUME SocketsTypeOK, backlog \in Seq(Socket), NEW h, OneConnection(h),
           NEW end \in Peer \ {"open"}, Disconnect(h, end)
    PROVE  /\ \A g : g # h => Untouched(g)
           /\ Queued(h)' = {} /\ Using(h)' = {}
<1>1. ASSUME NEW i \in Queued(h),
             backlog' = [backlog EXCEPT ![i].peer = end], UNCHANGED socket
      PROVE  /\ \A g : g # h => Untouched(g)
             /\ Queued(h)' = {} /\ Using(h)' = {}
  <2>1. i \in 1 .. Len(backlog) /\ backlog[i] \in Socket /\ backlog[i].heater = h
    BY UsingLemma
  <2>2. DOMAIN backlog' = DOMAIN backlog
    BY <1>1
  <2>3. /\ backlog'[i] = [backlog[i] EXCEPT !.peer = end]
        /\ \A j \in DOMAIN backlog \ {i} : backlog'[j] = backlog[j]
    BY <1>1, <2>1
  <2>4. backlog'[i].heater = h /\ backlog'[i].peer # "open"
    BY <2>1, <2>3, FieldsLemma
  <2>5. \A g : Queued(g)' = Queued(g) \ {i}
    BY <2>1, <2>2, <2>3, <2>4 DEF Queued
  <2>6. \A g : Using(g)' = Using(g)
    BY <1>1 DEF Using, InUse
  <2>7. \A g : Queued(g) \subseteq DOMAIN backlog
    BY DEF Queued
  <2>8. Queued(h) = {i} /\ Using(h) = {}
    BY DEF OneConnection
  <2> QED
    BY <1>1, <2>3, <2>5, <2>6, <2>7, <2>8 DEF Untouched
<1>2. ASSUME NEW f \in Using(h),
             socket' = [socket EXCEPT ![f].peer = end], UNCHANGED backlog
      PROVE  /\ \A g : g # h => Untouched(g)
             /\ Queued(h)' = {} /\ Using(h)' = {}
  <2>1. f \in Fds /\ socket[f] \in Socket /\ socket[f].heater = h /\ f \in InUse
    BY UsingLemma
  <2>2. /\ socket'[f] = [socket[f] EXCEPT !.peer = end]
        /\ \A g \in Fds \ {f} : socket'[g] = socket[g]
    BY <1>2, <2>1 DEF SocketsTypeOK
  <2>3. socket'[f].heater = h /\ socket'[f].peer # "open"
    BY <2>1, <2>2, FieldsLemma
  <2>4. InUse' = InUse
    BY <1>2, <2>1, ChangedLemma, SocketChanges
  <2>5. \A g : Using(g)' = Using(g) \ {f}
    BY <2>1, <2>2, <2>3, <2>4 DEF Using, InUse
  <2>6. \A g : Queued(g)' = Queued(g)
    BY <1>2 DEF Queued
  <2>7. \A g : Using(g) \subseteq Fds
    BY DEF Using, InUse
  <2>8. Using(h) = {f} /\ Queued(h) = {}
    BY DEF OneConnection
  <2> QED
    BY <1>2, <2>2, <2>5, <2>6, <2>7, <2>8 DEF Untouched
<1> QED
  BY <1>1, <1>2 DEF Disconnect

LEMMA LeaveCurrent ==
    ASSUME SocketsTypeOK, backlog \in Seq(Socket), NEW h, OneConnection(h),
           NEW ends \in SUBSET (Peer \ {"open"}), Leave(h, ends)
    PROVE  /\ \A g : g # h => Untouched(g)
           /\ Queued(h)' = {} /\ Using(h)' = {}
<1>1. CASE ~Connected(h) /\ UNCHANGED <<backlog, socket>>
  BY <1>1, SameSockets DEF Connected
<1>2. CASE \E end \in ends : Disconnect(h, end)
  BY <1>2, DisconnectCurrent
<1> QED
  BY <1>1, <1>2 DEF Leave

LEMMA CurrentInit == Init => CurrentInv
<1> SUFFICES ASSUME Init, NEW h \in Heaters PROVE Current(h)
  BY DEF CurrentInv
<1>1. Queued(h) = {} /\ Using(h) = {}
  BY DEF Init, Queued, Using, InUse
<1> QED
  BY <1>1 DEF Current, OneConnection

\* A step of heater `h' leaves the other heaters' connections as they are.
LEMMA OneHeater ==
    ASSUME DescriptorsInv, CurrentInv, NEW h \in Heaters,
           target' = target,
           \A g \in Heaters \ {h} : Untouched(g) /\ asked'[g] = asked[g],
           Current(h)'
    PROVE  CurrentInv'
<1>1. SocketsTypeOK /\ backlog \in Seq(Socket)
  BY DEF DescriptorsInv, KernelTypeOK
<1> SUFFICES ASSUME NEW g \in Heaters PROVE Current(g)'
  BY DEF CurrentInv
<1> QED
  BY <1>1, FrameLemma DEF CurrentInv

LEMMA HeaterCurrent ==
    ASSUME DescriptorsInv, CurrentInv, NEW h \in Heaters, Heater(h)
    PROVE  CurrentInv'
<1>0. /\ SocketsTypeOK /\ backlog \in Seq(Socket)
      /\ target \in [Heaters -> HeaterState]
      /\ asked \in [Heaters -> SUBSET HeaterState]
      /\ Current(h) /\ OneConnection(h)
  BY DEF DescriptorsInv, KernelTypeOK, HeatersTypeOK, CurrentInv, Current
<1>1. target' = target /\ \A g \in Heaters \ {h} : asked'[g] = asked[g]
  BY <1>0 DEF Heater, Connect, SendRequest, SendRest, ReceiveReply, GiveUp,
              PowerCut
<1>2. CASE Connect(h)
  <2> DEFINE last == Len(backlog) + 1
  <2>1. Queued(h) = {} /\ Using(h) = {}
    BY <1>2 DEF Connect, Connected
  <2>2. /\ DOMAIN backlog' = DOMAIN backlog \cup {last}
        /\ backlog'[last] = New(h)
        /\ \A i \in DOMAIN backlog : backlog'[i] = backlog[i]
    BY <1>0, <1>2, NewLemma, AppendProperties DEF Connect
  <2>3. /\ New(h).heater = h /\ New(h).peer = "open"
        /\ New(h).request = "none" /\ New(h).reply = NoReply
    BY DEF New
  <2>4. \A g : Using(g)' = Using(g)
    BY <1>2 DEF Connect, Using, InUse
  <2>5. Queued(h)' = {last}
    BY <2>1, <2>2, <2>3 DEF Queued
  <2>6. ASSUME NEW g \in Heaters \ {h} PROVE Untouched(g)
    <3>1. Queued(g)' = Queued(g)
      BY <2>2, <2>3 DEF Queued
    <3>2. Queued(g) \subseteq DOMAIN backlog
      BY DEF Queued
    <3> QED
      BY <1>2, <2>2, <2>4, <3>1, <3>2 DEF Untouched, Connect
  <2>7. Current(h)'
    BY <2>1, <2>2, <2>3, <2>4, <2>5 DEF Current, OneConnection, Sound
  <2> QED
    BY <1>1, <2>6, <2>7, OneHeater
<1>3. CASE SendRequest(h)
  <2>1. PICK amount \in {"part", "whole"} : Transmit(h, "none", amount)
    BY <1>3 DEF SendRequest
  <2>2. amount \in Request
    BY DEF Request
  <2>3. /\ \A g : g # h => Untouched(g)
        /\ Queued(h)' = Queued(h) /\ Using(h)' = Using(h)
    BY <1>0, <2>1, <2>2, TransmitCurrent
  <2>4. asked'[h] = {target[h]}
    BY <1>0, <1>3 DEF SendRequest
  <2>5. OneConnection(h)'
    BY <1>0, <2>3 DEF OneConnection
  <2>6. CASE \E i \in Queued(h) :
                /\ backlog[i].request = "none"
                /\ backlog'[i] = [backlog[i] EXCEPT !.request = amount]
    <3>1. PICK i \in Queued(h) :
                /\ backlog[i].request = "none"
                /\ backlog'[i] = [backlog[i] EXCEPT !.request = amount]
      BY <2>6
    <3>2. backlog[i] \in Socket /\ backlog[i].heater = h
      BY <1>0, UsingLemma
    <3>3. backlog[i].reply = NoReply
      BY <1>0, <3>1 DEF Current, Sound
    <3>4. /\ backlog'[i].request = amount /\ backlog'[i].heater = h
          /\ backlog'[i].reply = NoReply
      BY <3>1, <3>2, <3>3, FieldsLemma
    <3>5. Queued(h) = {i} /\ Using(h) = {}
      BY <1>0, <3>1 DEF OneConnection
    <3>6. Sound(backlog[i])'
      BY <1>1, <2>4, <3>4 DEF Sound
    <3> QED
      BY <1>1, <2>3, <2>5, <3>5, <3>6, OneHeater DEF Current
  <2>7. CASE \E f \in Using(h) :
                /\ socket[f].request = "none"
                /\ socket'[f] = [socket[f] EXCEPT !.request = amount]
    <3>1. PICK f \in Using(h) :
                /\ socket[f].request = "none"
                /\ socket'[f] = [socket[f] EXCEPT !.request = amount]
      BY <2>7
    <3>2. socket[f] \in Socket /\ socket[f].heater = h
      BY <1>0, UsingLemma
    <3>3. socket[f].reply = NoReply
      BY <1>0, <3>1 DEF Current, Sound
    <3>4. /\ socket'[f].request = amount /\ socket'[f].heater = h
          /\ socket'[f].reply = NoReply
      BY <3>1, <3>2, <3>3, FieldsLemma
    <3>5. Using(h) = {f} /\ Queued(h) = {}
      BY <1>0, <3>1 DEF OneConnection
    <3>6. Sound(socket[f])'
      BY <1>1, <2>4, <3>4 DEF Sound
    <3> QED
      BY <1>1, <2>3, <2>5, <3>5, <3>6, OneHeater DEF Current
  <2> QED
    BY <1>0, <2>1, <2>2, <2>6, <2>7, TransmitCurrent
<1>4. CASE SendRest(h)
  <2>1. Transmit(h, "part", "whole") /\ "whole" \in Request /\ asked' = asked
    BY <1>4 DEF SendRest, Request
  <2>2. /\ \A g : g # h => Untouched(g)
        /\ Queued(h)' = Queued(h) /\ Using(h)' = Using(h)
    BY <1>0, <2>1, TransmitCurrent
  <2>3. OneConnection(h)'
    BY <1>0, <2>2 DEF OneConnection
  <2>4. CASE \E i \in Queued(h) :
                /\ backlog[i].request = "part"
                /\ backlog'[i] = [backlog[i] EXCEPT !.request = "whole"]
    <3>1. PICK i \in Queued(h) :
                /\ backlog[i].request = "part"
                /\ backlog'[i] = [backlog[i] EXCEPT !.request = "whole"]
      BY <2>4
    <3>2. backlog[i] \in Socket /\ backlog[i].heater = h
      BY <1>0, UsingLemma
    <3>3. /\ backlog'[i].request = "whole" /\ backlog'[i].heater = h
          /\ backlog'[i].reply = backlog[i].reply
      BY <3>1, <3>2, FieldsLemma
    <3>4. Queued(h) = {i} /\ Using(h) = {}
      BY <1>0, <3>1 DEF OneConnection
    <3>5. Sound(backlog[i])
      BY <1>0 DEF Current
    <3>6. Sound(backlog[i])'
      BY <1>1, <2>1, <3>1, <3>2, <3>3, <3>5 DEF Sound
    <3> QED
      BY <1>1, <2>2, <2>3, <3>4, <3>6, OneHeater DEF Current
  <2>5. CASE \E f \in Using(h) :
                /\ socket[f].request = "part"
                /\ socket'[f] = [socket[f] EXCEPT !.request = "whole"]
    <3>1. PICK f \in Using(h) :
                /\ socket[f].request = "part"
                /\ socket'[f] = [socket[f] EXCEPT !.request = "whole"]
      BY <2>5
    <3>2. socket[f] \in Socket /\ socket[f].heater = h
      BY <1>0, UsingLemma
    <3>3. /\ socket'[f].request = "whole" /\ socket'[f].heater = h
          /\ socket'[f].reply = socket[f].reply
      BY <3>1, <3>2, FieldsLemma
    <3>4. Using(h) = {f} /\ Queued(h) = {}
      BY <1>0, <3>1 DEF OneConnection
    <3>5. Sound(socket[f])
      BY <1>0 DEF Current
    <3>6. Sound(socket[f])'
      BY <1>1, <2>1, <3>1, <3>2, <3>3, <3>5 DEF Sound
    <3> QED
      BY <1>1, <2>2, <2>3, <3>4, <3>6, OneHeater DEF Current
  <2> QED
    BY <1>0, <2>1, <2>4, <2>5, TransmitCurrent
<1>5. CASE ReceiveReply(h) \/ GiveUp(h) \/ PowerCut(h)
  <2>1. \E ends \in SUBSET (Peer \ {"open"}) : Leave(h, ends)
    <3>1. CASE ReceiveReply(h)
      <4>1. Disconnect(h, "closed")
        BY <3>1 DEF ReceiveReply, Disconnect
      <4> QED
        BY <4>1 DEF Leave, Peer
    <3>2. CASE GiveUp(h) \/ PowerCut(h)
      BY <3>2 DEF GiveUp, PowerCut, Peer
    <3> QED
      BY <1>5, <3>1, <3>2
  <2>2. /\ \A g : g # h => Untouched(g)
        /\ Queued(h)' = {} /\ Using(h)' = {}
    BY <1>0, <2>1, LeaveCurrent
  <2>3. Current(h)'
    BY <2>2 DEF Current, OneConnection
  <2> QED
    BY <1>1, <2>2, <2>3, OneHeater
<1> QED
  BY <1>2, <1>3, <1>4, <1>5 DEF Heater

\* Steps that change no target and no history, and no connection that is open.
LEMMA UntouchedStep ==
    ASSUME DescriptorsInv, CurrentInv, UNCHANGED <<target, asked>>,
           \A h \in Heaters : Untouched(h)
    PROVE  CurrentInv'
<1>1. SocketsTypeOK /\ backlog \in Seq(Socket)
  BY DEF DescriptorsInv, KernelTypeOK
<1> SUFFICES ASSUME NEW h \in Heaters PROVE Current(h)'
  BY DEF CurrentInv
<1> QED
  BY <1>1, FrameLemma DEF CurrentInv

\* A socket that is not open, before or after.
LEMMA NotOpenLemma ==
    ASSUME SocketsTypeOK, UNCHANGED backlog, NEW f \in Fds,
           socket' = [socket EXCEPT ![f].peer = "reset"]
              \/ socket' = [socket EXCEPT ![f].peer = "closed"],
           socket[f] \in Socket, NEW h
    PROVE  Untouched(h)
<1>1. \A g \in Fds \ {f} : socket'[g] = socket[g]
  BY DEF SocketsTypeOK
<1>2. socket'[f].peer # "open"
  BY DEF SocketsTypeOK, Socket
<1>3. \A g \in Using(h)' : g \in Fds \ {f}
  BY <1>2 DEF Using, InUse
<1>4. \A g \in Using(h)' : g \in Using(h)
  BY <1>1, <1>3 DEF Using, InUse
<1>5. Queued(h)' = Queued(h)
  BY DEF Queued
<1> QED
  BY <1>1, <1>3, <1>4, <1>5 DEF Untouched

\* A connection taken from the backlog is the same on its descriptor.
LEMMA AcceptCurrent ==
    ASSUME DescriptorsInv, CurrentInv, Accept
    PROVE  CurrentInv'
<1>0. /\ SocketsTypeOK /\ backlog \in Seq(Socket) /\ backlog # <<>>
      /\ UNCHANGED <<target, asked>> /\ backlog' = Tail(backlog)
  BY DEF DescriptorsInv, KernelTypeOK, Accept
<1>1. PICK f \in Fds \ InUse : socket' = [socket EXCEPT ![f] = Head(backlog)]
  BY DEF Accept
<1> DEFINE s == backlog[1]
<1>2. /\ Head(backlog) = s /\ s \in Socket
      /\ 1 \in DOMAIN backlog
      /\ DOMAIN backlog' = 1 .. (Len(backlog) - 1)
      /\ DOMAIN backlog = 1 .. Len(backlog)
      /\ Len(backlog) \in Nat
      /\ \A i \in DOMAIN backlog' : backlog'[i] = backlog[i + 1]
  BY <1>0, HeadTailProperties
<1>3. socket'[f] = s /\ \A g \in Fds \ {f} : socket'[g] = socket[g]
  BY <1>0, <1>1, <1>2 DEF SocketsTypeOK
<1>4. InUse' = InUse \cup {f} /\ InUse \subseteq Fds
  BY <1>0, <1>1, <1>2, <1>3, ClosedLemma DEF SocketsTypeOK, InUse
<1> SUFFICES ASSUME NEW h \in Heaters PROVE Current(h)'
  BY DEF CurrentInv
<1>5. Current(h) /\ OneConnection(h)
  BY DEF CurrentInv, Current
<1>6. \A i \in Queued(h)' : i + 1 \in Queued(h) /\ i \in Nat \ {0}
                            /\ backlog'[i] = backlog[i + 1]
  BY <1>2 DEF Queued
<1>7. \A g \in Using(h) : g \in Using(h)' /\ g # f /\ socket'[g] = socket[g]
  BY <1>1, <1>3, <1>4 DEF Using
<1>8. \A g \in Using(h)' : g = f \/ g \in Using(h)
  BY <1>3, <1>4 DEF Using
<1>9. CASE 1 \in Queued(h)
  <2>1. Queued(h) = {1} /\ Using(h) = {}
    BY <1>5, <1>9 DEF OneConnection
  <2>2. Queued(h)' = {}
    <3> SUFFICES ASSUME NEW i \in Queued(h)' PROVE FALSE
      OBVIOUS
    <3>1. i + 1 = 1 /\ i \in Nat \ {0}
      BY <1>6, <2>1
    <3> QED
      BY <3>1
  <2>3. \A g \in Using(h)' : g = f
    BY <1>8, <2>1
  <2>4. Sound(s)
    BY <1>5, <1>9 DEF Current
  <2>5. Sound(socket[f])'
    BY <1>0, <1>3, <2>4 DEF Sound
  <2> QED
    BY <2>2, <2>3, <2>5 DEF Current, OneConnection
<1>10. CASE 1 \notin Queued(h)
  <2>1. f \notin Using(h)'
    BY <1>2, <1>3, <1>10 DEF Using, Queued
  <2>2. \A g \in Using(h)' : g \in Using(h) /\ socket'[g] = socket[g]
    BY <1>7, <1>8, <2>1
  <2>3. \A i \in Queued(h)' : Sound(backlog[i])'
    <3> SUFFICES ASSUME NEW i \in Queued(h)' PROVE Sound(backlog[i])'
      OBVIOUS
    <3>1. i + 1 \in Queued(h) /\ backlog'[i] = backlog[i + 1]
      BY <1>6
    <3>2. Sound(backlog[i + 1])
      BY <1>5, <3>1 DEF Current
    <3> QED
      BY <1>0, <3>1, <3>2 DEF Sound
  <2>4. \A g \in Using(h)' : Sound(socket[g])'
    <3> SUFFICES ASSUME NEW g \in Using(h)' PROVE Sound(socket[g])'
      OBVIOUS
    <3>1. Sound(socket[g]) /\ socket'[g] = socket[g]
      BY <1>5, <2>2 DEF Current
    <3> QED
      BY <1>0, <3>1 DEF Sound
  <2>5. \A i, j \in Queued(h)' : i = j
    <3> SUFFICES ASSUME NEW i \in Queued(h)', NEW j \in Queued(h)' PROVE i = j
      OBVIOUS
    <3>1. i + 1 = j + 1 /\ i \in Nat /\ j \in Nat
      BY <1>5, <1>6 DEF OneConnection
    <3> QED
      BY <3>1
  <2>6. OneConnection(h)'
    BY <1>5, <1>6, <2>2, <2>5 DEF OneConnection
  <2> QED
    BY <2>3, <2>4, <2>6 DEF Current
<1> QED
  BY <1>9, <1>10

\* The reply is the target, which is in `asked' if somebody still waits for it.
LEMMA ReplyCurrent ==
    ASSUME DescriptorsInv, CurrentInv, ReadRequest
    PROVE  CurrentInv'
<1>0. /\ SocketsTypeOK /\ backlog \in Seq(Socket)
      /\ UNCHANGED <<target, asked, backlog>>
  BY DEF DescriptorsInv, KernelTypeOK, ReadRequest
<1> DEFINE f == reading
           s == socket[f]
<1>1. f \in Fds /\ f \in InUse /\ s \in Socket /\ s.request = "whole"
  <2>1. f \in InUse
    BY DEF DescriptorsInv, DescriptorsAccounted, ReadRequest
  <2> QED
    BY <1>0, <2>1, InUseLemma DEF ReadRequest
<1>2. /\ socket'[f] = [s EXCEPT !.request = "read", !.reply = ReplyTo(f)]
      /\ \A g \in Fds \ {f} : socket'[g] = socket[g]
  BY <1>0, <1>1 DEF ReadRequest, SocketsTypeOK, Socket
<1>3. /\ socket'[f].heater = s.heater /\ socket'[f].peer = s.peer
      /\ socket'[f].request = "read" /\ socket'[f].reply = ReplyTo(f)
  BY <1>1, <1>2, FieldsLemma
<1>4. ReplyTo(f) = target[s.heater]
  BY DEF ReplyTo
<1>5. s.heater \in Heaters
  BY <1>1 DEF Socket
<1>6. socket'[f] # Closed
  BY <1>3, <1>5, HeatersAssumption DEF Closed
<1>7. InUse' = InUse /\ InUse \subseteq Fds
  BY <1>1, <1>2, <1>6 DEF InUse
<1> SUFFICES ASSUME NEW h \in Heaters PROVE Current(h)'
  BY DEF CurrentInv
<1>8. Current(h) /\ OneConnection(h)
  BY DEF CurrentInv, Current
<1>9. Using(h)' = Using(h) /\ Queued(h)' = Queued(h)
  <2>1. \A g \in Fds : /\ socket'[g].heater = socket[g].heater
                       /\ socket'[g].peer = socket[g].peer
    BY <1>2, <1>3
  <2>2. Using(h)' = Using(h)
    BY <1>7, <2>1 DEF Using
  <2>3. Queued(h)' = Queued(h)
    BY <1>0 DEF Queued
  <2> QED
    BY <2>2, <2>3
<1>10. OneConnection(h)'
  BY <1>8, <1>9 DEF OneConnection
<1>11. \A i \in Queued(h)' : Sound(backlog[i])'
  BY <1>0, <1>8, <1>9 DEF Current, Sound
<1>12. ASSUME NEW g \in Using(h)' PROVE Sound(socket[g])'
  <2>1. CASE g = f
    <3>1. Sound(s)
      BY <1>8, <1>9, <1>12, <2>1 DEF Current
    <3>2. target[s.heater] \in asked[s.heater]
      BY <1>1, <3>1 DEF Sound
    <3> QED
      BY <1>0, <1>3, <1>4, <2>1, <3>2 DEF Sound
  <2>2. CASE g # f
    <3>1. socket'[g] = socket[g] /\ g \in Using(h)
      BY <1>2, <1>7, <1>9, <1>12, <2>2 DEF Using
    <3>2. Sound(socket[g])
      BY <1>8, <3>1 DEF Current
    <3> QED
      BY <1>0, <3>1, <3>2 DEF Sound
  <2> QED
    BY <2>1, <2>2
<1> QED
  BY <1>10, <1>11, <1>12 DEF Current

\* A new target is remembered by a heater that waits for a reply.
LEMMA TargetCurrent ==
    ASSUME DescriptorsInv, CurrentInv, NEW new, Retarget(new),
           UNCHANGED <<backlog, socket>>
    PROVE  CurrentInv'
<1>0. /\ SocketsTypeOK /\ backlog \in Seq(Socket)
  BY DEF DescriptorsInv, KernelTypeOK
<1> SUFFICES ASSUME NEW h \in Heaters PROVE Current(h)'
  BY DEF CurrentInv
<1>1. Current(h) /\ OneConnection(h)
  BY DEF CurrentInv, Current
<1>2. Queued(h)' = Queued(h) /\ Using(h)' = Using(h)
  BY SameSockets
<1>3. /\ target'[h] = new[h]
      /\ asked[h] # {} => asked'[h] = asked[h] \cup {new[h]}
  BY DEF Retarget
<1>4. ASSUME NEW s, s.heater = h, Sound(s)
      PROVE  /\ s.request = "none" => s.reply = NoReply
             /\ s.request \in {"part", "whole"} => target'[h] \in asked'[h]
             /\ s.reply # NoReply => s.reply \in asked'[h]
  BY <1>3, <1>4 DEF Sound
<1>5. OneConnection(h)'
  BY <1>1, <1>2 DEF OneConnection
<1>6. ASSUME NEW i \in Queued(h)' PROVE Sound(backlog[i])'
  <2>1. backlog[i].heater = h /\ Sound(backlog[i])
    BY <1>0, <1>1, <1>2, <1>6, UsingLemma DEF Current
  <2> QED
    BY <1>4, <2>1 DEF Sound
<1>7. ASSUME NEW f \in Using(h)' PROVE Sound(socket[f])'
  <2>1. socket[f].heater = h /\ Sound(socket[f])
    BY <1>0, <1>1, <1>2, <1>7, UsingLemma DEF Current
  <2> QED
    BY <1>4, <2>1 DEF Sound
<1> QED
  BY <1>5, <1>6, <1>7 DEF Current

LEMMA CurrentStep == DescriptorsInv /\ CurrentInv /\ [Next]_vars => CurrentInv'
<1> SUFFICES ASSUME DescriptorsInv, CurrentInv, [Next]_vars PROVE CurrentInv'
  OBVIOUS
<1>0. SocketsTypeOK /\ backlog \in Seq(Socket)
  BY DEF DescriptorsInv, KernelTypeOK
<1>1. CASE \E h \in Heaters : Heater(h)
  BY <1>1, HeaterCurrent
<1>2. CASE Accept
  BY <1>2, AcceptCurrent
<1>3. CASE ReadRequest
  BY <1>3, ReplyCurrent
<1>4. CASE \E hs, state : SetTarget(hs, state)
  BY <1>4, TargetCurrent DEF SetTarget
<1>5. CASE (\E f \in Fds : PeerResets(f)) \/ ReadError
  <2>1. PICK f \in InUse :
            /\ \/ socket' = [socket EXCEPT ![f].peer = "reset"]
               \/ socket' = [socket EXCEPT ![f].peer = "closed"]
            /\ UNCHANGED <<target, asked, backlog>>
    BY <1>5 DEF PeerResets, ReadError, DescriptorsInv, DescriptorsAccounted
  <2>2. f \in Fds /\ socket[f] \in Socket
    BY <1>0, <2>1, InUseLemma
  <2> QED
    BY <1>0, <2>1, <2>2, NotOpenLemma, UntouchedStep
<1>6. CASE ReadEnd \/ CloseStale
  <2>1. PICK closed : Close(closed)
    BY <1>6 DEF ReadEnd, CloseStale
  <2>2. UNCHANGED <<target, asked, backlog>>
    BY <1>6 DEF ReadEnd, CloseStale
  <2>3. \A f \in Fds : socket'[f] = Closed \/ socket'[f] = socket[f]
    BY <1>0, <2>1 DEF Close, SocketsTypeOK
  <2>4. ASSUME NEW h \in Heaters PROVE Untouched(h)
    BY <2>2, <2>3 DEF Untouched, Queued, Using, InUse
  <2> QED
    BY <2>2, <2>4, UntouchedStep
<1>7. CASE Restart
  <2>1. \A h : Queued(h)' = {} /\ Using(h)' = {}
    BY <1>7 DEF Restart, Queued, Using, InUse
  <2> QED
    BY <2>1 DEF CurrentInv, Current, OneConnection
<1>8. CASE \/ HandleNewDevice \/ PollConnections \/ NextConnection
           \/ FinishConnections \/ EraseConnection \/ LockStale
           \/ FinishStale \/ Minute \/ UNCHANGED vars
  <2>1. UNCHANGED <<target, asked, backlog, socket>>
    BY <1>8 DEF HandleNewDevice, PollConnections, NextConnection,
                FinishConnections, EraseConnection, LockStale, FinishStale,
                Minute, vars
  <2> QED
    BY <2>1, SameSockets, UntouchedStep
<1> QED
  BY <1>1, <1>2, <1>3, <1>4, <1>5, <1>6, <1>7, <1>8
  DEF Next, HandleConnections, checkStaleConnections

\* What a reply tells a heater was its target since its request.
LEMMA ReplyInTime ==
    ASSUME DescriptorsInv, CurrentInv, NEW h \in Heaters, ReceiveReply(h)
    PROVE  heater_state'[h] \in asked[h]
<1>0. /\ SocketsTypeOK /\ backlog \in Seq(Socket)
      /\ heater_state \in [Heaters -> HeaterState]
  BY DEF DescriptorsInv, KernelTypeOK, HeatersTypeOK
<1>1. PICK f \in Using(h) :
          /\ socket[f].reply # NoReply
          /\ heater_state' = [heater_state EXCEPT ![h] = socket[f].reply]
  BY DEF ReceiveReply
<1>2. heater_state'[h] = socket[f].reply
  BY <1>0, <1>1
<1>3. Sound(socket[f]) /\ socket[f].heater = h
  BY <1>0, <1>1, UsingLemma DEF CurrentInv, Current
<1> QED
  BY <1>1, <1>2, <1>3 DEF Sound

\* Only a reply on its own connection, or a failure, changes what a heater does.
LEMMA CurrentAction ==
    ASSUME DescriptorsInv, CurrentInv, [Next]_vars, NEW h \in Heaters,
           heater_state'[h] # heater_state[h]
    PROVE  heater_state'[h] \in asked[h] \cup {FALLBACK_HEATER_STATE}
<1>0. /\ SocketsTypeOK /\ backlog \in Seq(Socket)
      /\ heater_state \in [Heaters -> HeaterState]
  BY DEF DescriptorsInv, KernelTypeOK, HeatersTypeOK
<1>1. \E g \in Heaters : Heater(g)
  BY DEF Next, PeerResets, Accept, HandleNewDevice, HandleConnections,
         PollConnections, NextConnection, ReadRequest, ReadEnd, EraseConnection,
         ReadError, FinishConnections, checkStaleConnections, LockStale,
         CloseStale, FinishStale, SetTarget, Minute, Restart, vars
<1>2. PICK g \in Heaters : ReceiveReply(g) \/ GiveUp(g) \/ PowerCut(g)
  BY <1>1 DEF Heater, Connect, SendRequest, SendRest
<1>3. CASE GiveUp(g) \/ PowerCut(g)
  BY <1>0, <1>3 DEF GiveUp, PowerCut
<1>4. CASE ReceiveReply(g)
  <2>1. g = h
    BY <1>0, <1>4 DEF ReceiveReply
  <2> QED
    BY <1>4, <2>1, ReplyInTime
<1> QED
  BY <1>2, <1>3, <1>4

\* A heater only ever takes a state that was its target between its request
\* and the reply, or DEFROST.
THEOREM StatesCurrent == Spec => StatesAreCurrent
<1>1. DescriptorsInv /\ CurrentInv /\ [Next]_vars =>
        [\A h \in Heaters :
           heater_state'[h] # heater_state[h] =>
             heater_state'[h] \in asked[h] \cup {FALLBACK_HEATER_STATE}]_vars
  BY CurrentAction
<1> QED
  BY DescriptorsInit, CurrentInit, DescriptorsStep, CurrentStep, <1>1, PTL
  DEF Spec, StatesAreCurrent
=============================================================================
