--------------------------- MODULE SmsGatewayProofs --------------------------
(***************************************************************************)
(* Proofs about SmsGateway: what its runs check of the SMS that arrive, of *)
(* the replies and of the outgoing directory holds for any number of SMS,  *)
(* of writes per file, of events per read, of processes and for any times. *)
(***************************************************************************)
EXTENDS SmsGateway, FiniteSetTheorems, FunctionTheorems, SequenceTheorems, TLAPS

(***************************************************************************)
(* What a step of the composition does to each part.                       *)
(***************************************************************************)
SenderSteps ==
    \/ \E p \in Pids : StartSender(p)
    \/ StopSender
    \/ Instance
    \/ SpoolSms
    \/ DiscardSms
    \/ CleanupSMS
    \/ TakeSms
    \/ Tick
    \/ UNCHANGED senderVars

\* The main thread takes a command.
TakeCommand ==
    /\ m_commands # <<>>
    /\ m_commands' = Tail(m_commands)
    /\ UNCHANGED <<incoming, events, receiver, event, delivered, understood,
                   rejected>>

ReceiverSteps ==
    \/ \E n \in Sms : WriteSms(n)
    \/ StartReceiver
    \/ StopReceiver
    \/ ReadEvents
    \/ ParseSMS
    \/ TakeCommand
    \/ UNCHANGED receiverVars

LEMMA Steps == [Next]_vars => SenderSteps /\ ReceiverSteps
<1> SUFFICES ASSUME [Next]_vars PROVE SenderSteps /\ ReceiverSteps
  OBVIOUS
<1>1. CASE Start \/ Smsd \/ TimePasses
  BY <1>1 DEF Start, Smsd, TimePasses, SenderSteps, ReceiverSteps
<1>2. CASE StartThread
  BY <1>2 DEF StartThread, SenderSteps, ReceiverSteps
<1>3. CASE Crash
  BY <1>3 DEF Crash, SenderSteps, ReceiverSteps
<1>4. CASE SmsArrives \/ ReceiveSms
  BY <1>4 DEF SmsArrives, ReceiveSms, SmsArrive, ReceiverThread, SenderSteps,
              ReceiverSteps
<1>5. CASE ParseCommand
  <2>1. TakeCommand
    BY <1>5 DEF ParseCommand, AnswerCommand, IgnoreCommand, TakeCommand
  <2> QED
    BY <1>5, <2>1 DEF ParseCommand, SenderSteps, ReceiverSteps
<1>6. CASE SendNotice \/ SendSms \/ Cleanup
  BY <1>6 DEF SendNotice, SendSms, Cleanup, SenderSteps, ReceiverSteps
<1>7. CASE UNCHANGED vars
  BY <1>7 DEF vars, SenderSteps, ReceiverSteps
<1> QED
  BY <1>1, <1>2, <1>3, <1>4, <1>5, <1>6, <1>7 DEF Next, MainThread
-----------------------------------------------------------------------------
(***************************************************************************)
(* The sender.                                                             *)
(***************************************************************************)
ProcessTypeOK ==
    /\ pid \in Pids \cup {NoPid}
    /\ m_counter \in 0 .. MaxCounter
    /\ due \in 0 .. CLEANUP_SMS_PERIOD
FlagsTypeOK ==
    /\ instantiated \in BOOLEAN
    /\ replaced \in BOOLEAN
FilesTypeOK ==
    /\ m_old_files \subseteq File
    /\ kept \subseteq File
DirectoryTypeOK ==
    /\ Spooled \subseteq File
    /\ outgoing \in [Spooled -> 0 .. MaxAge]

LEMMA SenderTypeParts ==
    SenderTypeOK <=> /\ ProcessTypeOK /\ FlagsTypeOK
                     /\ FilesTypeOK /\ DirectoryTypeOK
BY DEF SenderTypeOK, ProcessTypeOK, FlagsTypeOK, FilesTypeOK, DirectoryTypeOK

\* The directory without some files.
LEMMA WithoutLemma ==
    ASSUME DirectoryTypeOK, NEW gone, outgoing' = Without(gone)
    PROVE  /\ Spooled' = Spooled \ gone
           /\ \A f \in Spooled' : outgoing'[f] = outgoing[f]
           /\ DirectoryTypeOK'
<1>1. Spooled' = Spooled \ gone
  BY DEF Without, Spooled
<1>2. \A f \in Spooled' : outgoing'[f] = outgoing[f]
  BY <1>1 DEF Without
<1>3. outgoing' \in [Spooled' -> 0 .. MaxAge]
  BY <1>1 DEF Without, DirectoryTypeOK
<1> QED
  BY <1>1, <1>2, <1>3 DEF DirectoryTypeOK

\* The directory with a new file.
LEMMA SpoolLemma ==
    ASSUME ProcessTypeOK, DirectoryTypeOK, instantiated => pid # NoPid, SpoolSms
    PROVE  /\ <<pid, m_counter>> \in File
           /\ Spooled' = Spooled \cup {<<pid, m_counter>>}
           /\ outgoing'[<<pid, m_counter>>] = 0
           /\ \A f \in Spooled :
                  f # <<pid, m_counter>> => outgoing'[f] = outgoing[f]
           /\ DirectoryTypeOK'
<1> DEFINE f == <<pid, m_counter>>
<1>1. outgoing' = [g \in Spooled \cup {f} |-> IF g = f THEN 0 ELSE outgoing[g]]
  BY DEF SpoolSms
<1>2. f \in File
  BY SenderAssumption DEF SpoolSms, File, ProcessTypeOK
<1>3. 0 \in 0 .. MaxAge
  BY SenderAssumption DEF MaxAge
<1>4. Spooled' = Spooled \cup {f}
  BY <1>1 DEF Spooled
<1> HIDE DEF f
<1>5. outgoing' \in [Spooled' -> 0 .. MaxAge]
  BY <1>1, <1>3, <1>4 DEF DirectoryTypeOK
<1>6. outgoing'[f] = 0 /\ \A g \in Spooled : g # f => outgoing'[g] = outgoing[g]
  BY <1>1
<1> QED
  BY <1>2, <1>4, <1>5, <1>6 DEF f, DirectoryTypeOK

\* Ages stop at MaxAge.
LEMMA TickLemma ==
    ASSUME DirectoryTypeOK, Tick
    PROVE  /\ Spooled' = Spooled
           /\ \A f \in Spooled :
                  outgoing'[f] = IF outgoing[f] < MaxAge THEN outgoing[f] + 1
                                 ELSE MaxAge
           /\ DirectoryTypeOK'
<1>1. outgoing' = [f \in Spooled |->
                       IF outgoing[f] < MaxAge THEN outgoing[f] + 1 ELSE MaxAge]
  BY DEF Tick
<1>2. Spooled' = Spooled
  BY <1>1 DEF Spooled
<1>3. MaxAge \in Nat
  BY SenderAssumption DEF MaxAge
<1>4. \A f \in Spooled :
          (IF outgoing[f] < MaxAge THEN outgoing[f] + 1 ELSE MaxAge) \in 0 .. MaxAge
  BY <1>3 DEF DirectoryTypeOK
<1>5. outgoing' \in [Spooled' -> 0 .. MaxAge]
  BY <1>1, <1>2, <1>4
<1> QED
  BY <1>1, <1>2, <1>5 DEF DirectoryTypeOK

\* Once the constructor has run, every file is one it could not remove or has
\* a number that this process has used already.
Accounted(f) == f \in kept \/ (f[1] = pid /\ f[2] < m_counter)
SenderInv ==
    /\ instantiated => pid # NoPid
    /\ instantiated => \A f \in Spooled : Accounted(f)
    /\ ~replaced

LEMMA SenderTypeStep ==
    ASSUME SenderTypeOK, SenderInv, SenderSteps
    PROVE  SenderTypeOK'
<1>1. ProcessTypeOK /\ FlagsTypeOK /\ FilesTypeOK /\ DirectoryTypeOK
  BY SenderTypeParts
<1>2. ProcessTypeOK'
  BY <1>1, SenderAssumption
  DEF SenderSteps, ProcessTypeOK, StartSender, StopSender, Instance, SpoolSms,
      DiscardSms, CleanupSMS, TakeSms, Tick, senderVars
<1>3. FlagsTypeOK'
  <2>1. instantiated' \in BOOLEAN
    <3>1. instantiated' \in {instantiated, TRUE, FALSE}
      BY DEF SenderSteps, StartSender, StopSender, Instance, Instantiate,
             SpoolSms, DiscardSms, CleanupSMS, TakeSms, Tick, senderVars
    <3> QED
      BY <1>1, <3>1 DEF FlagsTypeOK
  <2>2. replaced' \in BOOLEAN
    <3>1. CASE SpoolSms
      BY <3>1 DEF SpoolSms
    <3>2. CASE ~SpoolSms
      <4>1. replaced' = replaced
        BY <3>2
        DEF SenderSteps, StartSender, StopSender, Instance, Instantiate,
            DiscardSms, CleanupSMS, TakeSms, Tick, senderVars
      <4> QED
        BY <1>1, <4>1 DEF FlagsTypeOK
    <3> QED
      BY <3>1, <3>2
  <2> QED
    BY <2>1, <2>2 DEF FlagsTypeOK
<1>4. FilesTypeOK'
  <2>1. CASE SpoolSms
    <3>1. <<pid, m_counter>> \in File
      BY <1>1, <2>1, SpoolLemma DEF SenderInv
    <3> QED
      BY <1>1, <2>1, <3>1 DEF SpoolSms, FilesTypeOK
  <2>2. CASE ~SpoolSms
    BY <1>1, <2>2
    DEF SenderSteps, FilesTypeOK, DirectoryTypeOK, StartSender, StopSender,
        Instance, Instantiate, DiscardSms, CleanupSMS, TakeSms, Tick,
        senderVars
  <2> QED
    BY <2>1, <2>2
<1>5. DirectoryTypeOK'
  <2>1. CASE UNCHANGED outgoing
    BY <1>1, <2>1 DEF DirectoryTypeOK, Spooled
  <2>2. CASE SpoolSms
    BY <1>1, <2>2, SpoolLemma DEF SenderInv
  <2>3. CASE Tick
    BY <1>1, <2>3, TickLemma
  <2>4. CASE Instance \/ CleanupSMS \/ TakeSms
    <3>1. \E gone : outgoing' = Without(gone)
      BY <2>4 DEF Instance, Instantiate, CleanupSMS, DeleteOld, TakeSms
    <3> QED
      BY <1>1, <3>1, WithoutLemma
  <2> QED
    BY <2>1, <2>2, <2>3, <2>4
    DEF SenderSteps, StartSender, StopSender, DiscardSms, senderVars
<1> QED
  BY <1>2, <1>3, <1>4, <1>5
  DEF SenderTypeOK, ProcessTypeOK, FlagsTypeOK, FilesTypeOK, DirectoryTypeOK

LEMMA SenderInvStep ==
    ASSUME SenderTypeOK, SenderInv, SenderSteps
    PROVE  SenderInv'
<1>1. ProcessTypeOK /\ FilesTypeOK /\ DirectoryTypeOK
  BY SenderTypeParts
<1>2. (instantiated => pid # NoPid)'
  BY SenderAssumption
  DEF SenderInv, SenderSteps, StartSender, StopSender, Instance, SpoolSms,
      DiscardSms, CleanupSMS, TakeSms, Tick, senderVars
<1>3. CASE UNCHANGED senderVars
  BY <1>3 DEF senderVars, SenderInv, Accounted, Spooled
<1>4. CASE StopSender \/ \E p \in Pids : StartSender(p)
  BY <1>4 DEF StartSender, StopSender, SenderInv
<1>5. ASSUME Instantiate, UNCHANGED replaced PROVE SenderInv'
  <2>1. Spooled' \subseteq kept'
    BY <1>1, <1>5, WithoutLemma DEF Instantiate
  <2> QED
    BY <1>2, <1>5, <2>1 DEF SenderInv, Accounted
<1>6. CASE SpoolSms
  <2>1. PICK f \in File : f = <<pid, m_counter>>
    BY <1>1, <1>6, SpoolLemma DEF SenderInv
  <2>0. f[1] = pid /\ f[2] = m_counter
    BY <2>1
  <2>2. /\ instantiated /\ UNCHANGED <<pid, instantiated>>
        /\ m_counter' = m_counter + 1
        /\ kept' = kept \ {f}
        /\ replaced' = (replaced \/ f \in Spooled \ kept)
    BY <1>6, <2>1 DEF SpoolSms
  <2>3. Spooled' = Spooled \cup {f}
    BY <1>1, <1>6, <2>1, SpoolLemma DEF SenderInv
  <2>4. f \notin Spooled \ kept
    BY <1>1, <2>0, <2>2 DEF SenderInv, Accounted, ProcessTypeOK
  <2>5. ~replaced'
    BY <2>2, <2>4 DEF SenderInv
  <2>6. Accounted(f)'
    BY <1>1, <2>0, <2>2 DEF Accounted, ProcessTypeOK
  <2>7. ASSUME NEW g \in Spooled, g # f PROVE Accounted(g)'
    <3>1. Accounted(g)
      BY <2>2 DEF SenderInv
    <3>2. g[2] \in Nat
      BY <1>1 DEF DirectoryTypeOK, File
    <3> QED
      BY <1>1, <2>2, <2>7, <3>1, <3>2 DEF Accounted, ProcessTypeOK
  <2> QED
    BY <1>2, <2>3, <2>5, <2>6, <2>7 DEF SenderInv
<1>7. CASE DiscardSms
  <2>1. UNCHANGED <<pid, instantiated, outgoing, kept, replaced>>
        /\ m_counter' \in {m_counter, m_counter + 1}
    BY <1>7 DEF DiscardSms
  <2>2. ASSUME NEW g \in Spooled, Accounted(g) PROVE Accounted(g)'
    <3>1. g[2] \in Nat
      BY <1>1 DEF DirectoryTypeOK, File
    <3> QED
      BY <1>1, <2>1, <2>2, <3>1 DEF Accounted, ProcessTypeOK
  <2> QED
    BY <1>2, <2>1, <2>2 DEF SenderInv, Spooled
<1>8. CASE CleanupSMS /\ instantiated
  <2>1. /\ UNCHANGED <<pid, m_counter, instantiated, replaced, kept>>
        /\ DeleteOld
    BY <1>8 DEF CleanupSMS
  <2>2. Spooled' \subseteq Spooled
    BY <1>1, <2>1, WithoutLemma DEF DeleteOld
  <2> QED
    BY <1>2, <2>1, <2>2 DEF SenderInv, Accounted
<1>9. CASE TakeSms
  <2>1. PICK f \in Spooled : outgoing' = Without({f}) /\ kept' = kept \ {f}
    BY <1>9 DEF TakeSms
  <2>2. Spooled' = Spooled \ {f}
    BY <1>1, <2>1, WithoutLemma
  <2>3. UNCHANGED <<pid, instantiated, m_counter, replaced>>
    BY <1>9 DEF TakeSms
  <2> QED
    BY <1>2, <2>1, <2>2, <2>3 DEF SenderInv, Accounted
<1>10. CASE Tick
  <2>1. UNCHANGED <<pid, instantiated, m_counter, kept, replaced>>
    BY <1>10 DEF Tick
  <2> QED
    BY <1>1, <1>2, <1>10, <2>1, TickLemma DEF SenderInv, Accounted
<1> QED
  BY <1>3, <1>4, <1>5, <1>6, <1>7, <1>8, <1>9, <1>10
  DEF SenderSteps, Instance, CleanupSMS

SenderSafe == SenderTypeOK /\ SenderInv

LEMMA SenderInvariant == Spec => []SenderSafe
<1>1. Init => SenderSafe
  <2> SUFFICES ASSUME Init PROVE SenderSafe
    OBVIOUS
  <2>1. Spooled = {} /\ outgoing \in [Spooled -> 0 .. MaxAge]
    BY DEF Init, SenderInit, Spooled
  <2>2. ProcessTypeOK /\ FilesTypeOK
    BY SenderAssumption DEF Init, SenderInit, ProcessTypeOK, FilesTypeOK
  <2>3. FlagsTypeOK /\ ~instantiated /\ ~replaced
    BY DEF Init, SenderInit, FlagsTypeOK
  <2>4. DirectoryTypeOK
    BY <2>1 DEF DirectoryTypeOK
  <2> QED
    BY <2>2, <2>3, <2>4, SenderTypeParts DEF SenderSafe, SenderInv
<1>2. SenderSafe /\ [Next]_vars => SenderSafe'
  BY Steps, SenderTypeStep, SenderInvStep DEF SenderSafe
<1> QED
  BY <1>1, <1>2, PTL DEF Spec

\* No SMS is replaced by a later one before the daemon has taken it, but for
\* one of an earlier process that the constructor could not remove: all other
\* files have numbers that this process will not use again.
THEOREM NothingReplaced == Spec => []NoSmsReplaced
<1>1. SenderSafe => NoSmsReplaced
  BY DEF SenderSafe, SenderInv, NoSmsReplaced
<1> QED
  BY <1>1, SenderInvariant, PTL

LEMMA YoungStep ==
    ASSUME SenderTypeOK, SenderSteps, instantiated, ~TakeSms,
           NEW f \in Spooled \ Spooled'
    PROVE  Old(f)
<1>1. DirectoryTypeOK
  BY SenderTypeParts
<1>2. outgoing' # outgoing
  BY DEF Spooled
<1>3. CASE Tick
  BY <1>1, <1>3, TickLemma
<1>4. CASE SpoolSms
  <2>1. Spooled \subseteq Spooled'
    BY <1>4 DEF SpoolSms, Spooled
  <2> QED
    BY <2>1
<1>5. CASE CleanupSMS
  <2>1. PICK deleted \in SUBSET {g \in m_old_files \cap Spooled : Old(g)} :
            outgoing' = Without(deleted)
    BY <1>5 DEF CleanupSMS, DeleteOld
  <2>2. f \in deleted
    BY <1>1, <2>1, WithoutLemma
  <2> QED
    BY <2>1, <2>2
<1> QED
  BY <1>2, <1>3, <1>4, <1>5
  DEF SenderSteps, StartSender, StopSender, Instance, DiscardSms, senderVars

\* While a process runs, its SMS leave the directory to be sent or when old.
THEOREM YoungKept == Spec => YoungSmsStay
<1>1. SenderSafe /\ [Next]_vars =>
        [instantiated /\ ~TakeSms =>
             \A f \in Spooled \ Spooled' : Old(f)]_senderVars
  BY Steps, YoungStep DEF SenderSafe
<1> QED
  BY <1>1, SenderInvariant, PTL DEF Spec, YoungSmsStay
-----------------------------------------------------------------------------
(***************************************************************************)
(* The receiver.  The daemon writes its files one after the other, so that *)
(* the queue of inotify events never holds a file twice, and the file the  *)
(* thread is about to parse is not later than any in the queue.            *)
(***************************************************************************)
WrittenTypeOK ==
    /\ incoming \in [Sms -> 0 .. Writes]
    /\ understood \subseteq Sms
    /\ rejected \subseteq Sms
ThreadTypeOK ==
    /\ events \in Seq(Sms)
    /\ receiver \in {"down", "poll", "parse"}
    /\ event \in IF receiver = "parse" THEN Sms ELSE {0}
GivenTypeOK ==
    /\ m_commands \in Seq(Received)
    /\ delivered \in [Sms -> Nat]

\* The files in the queue.
Waiting == {events[i] : i \in 1 .. Len(events)}
Increasing == \A i, j \in 1 .. Len(events) : i < j => events[i] < events[j]

WrittenInOrder ==
    \A m, n \in Sms : m < n /\ incoming[n] > 0 => incoming[m] = Writes
QueueInv ==
    /\ Increasing
    /\ \A n \in Waiting : incoming[n] > 0 /\ event <= n
    /\ event # 0 => incoming[event] > 0
\* No SMS was delivered that is later than one still to be parsed.
PastInv ==
    \A n \in Sms : delivered[n] > 0 =>
        /\ event # 0 => n <= event
        /\ \A m \in Waiting : n <= m
\* Each write lets a file be parsed once at most.
Awaits(n) == (IF event = n THEN 1 ELSE 0) + (IF n \in Waiting THEN 1 ELSE 0)
WritesInv == \A n \in Sms : delivered[n] + Awaits(n) <= incoming[n]
ReceiverSafe ==
    /\ WrittenTypeOK /\ ThreadTypeOK /\ GivenTypeOK
    /\ WrittenInOrder /\ QueueInv /\ PastInv /\ WritesInv

LEMMA SmsNat == ASSUME NEW n \in Sms PROVE n \in Nat /\ n > 0
BY DEF Sms

\* The queue after a write.
LEMMA NotifiedLemma ==
    ASSUME ThreadTypeOK, Increasing, NEW n \in Sms,
           \A m \in Waiting : m <= n,
           events' = Notified(n)
    PROVE  events' \in Seq(Sms) /\ Increasing' /\ Waiting' \subseteq Waiting \cup {n}
<1>1. CASE events' = <<>>
  BY <1>1 DEF Increasing, Waiting
<1>2. CASE events' = events
  BY <1>2 DEF ThreadTypeOK, Increasing, Waiting
<1>3. CASE /\ events' = Append(events, n)
           /\ events = <<>> \/ events[Len(events)] # n
  <2>1. /\ events' \in Seq(Sms) /\ Len(events') = Len(events) + 1
        /\ \A i \in 1 .. Len(events) : events'[i] = events[i]
        /\ events'[Len(events) + 1] = n
    BY <1>3, AppendProperties DEF ThreadTypeOK
  <2>2. Len(events) \in Nat /\ (events # <<>> => Len(events) > 0)
    BY LenProperties, EmptySeq DEF ThreadTypeOK
  <2>3. \A i \in 1 .. Len(events) : events[i] \in Waiting /\ events[i] \in Sms
    BY ElementOfSeq DEF ThreadTypeOK, Waiting
  <2>4. ASSUME NEW i \in 1 .. Len(events) PROVE events[i] < n
    <3>1. events[i] <= n /\ events[i] \in Nat /\ n \in Nat
      BY <2>3, <2>4, SmsNat
    <3>2. events[Len(events)] # n /\ Len(events) \in 1 .. Len(events)
      BY <1>3, <2>2, <2>4, EmptySeq
    <3>3. events[Len(events)] <= n /\ events[Len(events)] \in Nat
      BY <2>3, <3>2, SmsNat
    <3>4. i < Len(events) => events[i] < events[Len(events)]
      BY <2>4, <3>2 DEF Increasing
    <3>5. i = Len(events) \/ i < Len(events)
      BY <2>2, <2>4
    <3> QED
      BY <3>1, <3>2, <3>3, <3>4, <3>5
  <2>5. Increasing'
    <3> SUFFICES ASSUME NEW i \in 1 .. Len(events'), NEW j \in 1 .. Len(events'),
                        i < j
                 PROVE  events'[i] < events'[j]
      BY DEF Increasing
    <3>1. i \in 1 .. Len(events) /\ (j \in 1 .. Len(events) \/ j = Len(events) + 1)
      BY <2>1, <2>2
    <3> QED
      BY <2>1, <2>4, <3>1 DEF Increasing
  <2>6. Waiting' \subseteq Waiting \cup {n}
    <3> SUFFICES ASSUME NEW i \in 1 .. Len(events')
                 PROVE  events'[i] \in Waiting \cup {n}
      BY DEF Waiting
    <3>1. i \in 1 .. Len(events) \/ i = Len(events) + 1
      BY <2>1, <2>2
    <3> QED
      BY <2>1, <2>3, <3>1
  <2> QED
    BY <2>1, <2>5, <2>6
<1> QED
  BY <1>1, <1>2, <1>3 DEF Notified

\* The queue after a read.
LEMMA ReadLemma ==
    ASSUME ThreadTypeOK, Increasing, ReadEvents
    PROVE  /\ event' \in Waiting /\ event' \in Sms
           /\ events' \in Seq(Sms) /\ Increasing'
           /\ Waiting' \subseteq Waiting
           /\ \A m \in Waiting' : event' < m
<1>1. events \in Seq(Sms) /\ events # <<>>
  BY DEF ThreadTypeOK, ReadEvents
<1>2. Len(events) \in Nat /\ Len(events) > 0
  BY <1>1, LenProperties, EmptySeq
<1>3. event' = events[1] /\ event' \in Waiting /\ event' \in Sms
  BY <1>1, <1>2, ElementOfSeq DEF ReadEvents, Waiting
<1>4. PICK k \in Nat \ {0} : events' = SubSeq(events, k + 1, Len(events))
  BY ReceiverAssumption DEF ReadEvents
<1>5. \A i \in k + 1 .. Len(events) : events[i] \in Sms
  BY <1>1, <1>4, ElementOfSeq
<1>6. /\ events' \in Seq(Sms)
      /\ Len(events') =
             IF k + 1 <= Len(events) THEN Len(events) - (k + 1) + 1 ELSE 0
      /\ \A i \in 1 .. Len(events) - (k + 1) + 1 : events'[i] = events[k + 1 + i - 1]
  BY <1>2, <1>4, <1>5, SubSeqProperties
<1>7. ASSUME NEW i \in 1 .. Len(events')
      PROVE  i + k \in 2 .. Len(events) /\ events'[i] = events[i + k]
  <2>1. k + 1 <= Len(events) /\ i \in 1 .. Len(events) - (k + 1) + 1
    BY <1>2, <1>4, <1>6, <1>7
  <2>2. k + 1 + i - 1 = i + k
    BY <1>4, <1>7
  <2> QED
    BY <1>2, <1>4, <1>6, <2>1, <2>2
<1>8. Increasing'
  <2> SUFFICES ASSUME NEW i \in 1 .. Len(events'), NEW j \in 1 .. Len(events'),
                      i < j
               PROVE  events'[i] < events'[j]
    BY DEF Increasing
  <2>1. i + k < j + k
    BY <1>4
  <2> QED
    BY <1>7, <2>1 DEF Increasing
<1>9. Waiting' \subseteq Waiting
  BY <1>7 DEF Waiting
<1>10. ASSUME NEW m \in Waiting' PROVE event' < m
  <2>1. PICK i \in 1 .. Len(events') : m = events'[i]
    BY <1>10 DEF Waiting
  <2> QED
    BY <1>2, <1>3, <1>7, <2>1 DEF Increasing
<1> QED
  BY <1>3, <1>6, <1>8, <1>9, <1>10

LEMMA WriteStep ==
    ASSUME ReceiverSafe, NEW n \in Sms, WriteSms(n)
    PROVE  ReceiverSafe'
<1>t. /\ WrittenTypeOK /\ ThreadTypeOK /\ GivenTypeOK
      /\ WrittenInOrder /\ QueueInv /\ PastInv /\ WritesInv
  BY DEF ReceiverSafe
<1>1. PICK k \in incoming[n] + 1 .. Writes :
          incoming' = [incoming EXCEPT ![n] = k]
  BY DEF WriteSms
<1>2. /\ \A m \in 1 .. n - 1 : Whole(m)
      /\ events' = Notified(n)
      /\ UNCHANGED <<receiver, event, m_commands, delivered, understood, rejected>>
  BY DEF WriteSms
<1>3. Writes \in Nat /\ Writes > 0 /\ incoming[n] \in Nat
  BY <1>t, ReceiverAssumption DEF WrittenTypeOK
<1>4. WrittenTypeOK'
  BY <1>t, <1>1, <1>2, <1>3 DEF WrittenTypeOK
<1>5. /\ \A m \in Sms : m # n => incoming'[m] = incoming[m]
      /\ incoming'[n] \in Nat /\ incoming'[n] > incoming[n]
      /\ incoming'[n] <= Writes
  BY <1>t, <1>1, <1>3 DEF WrittenTypeOK
<1>6. \A m \in Sms : m < n => incoming[m] = Writes
  BY <1>2, SmsNat DEF Whole, Sms
<1>7. \A m \in Sms : incoming[m] > 0 => m <= n
  <2> SUFFICES ASSUME NEW m \in Sms, incoming[m] > 0, n < m PROVE FALSE
    BY SmsNat
  <2>1. incoming[n] = Writes
    BY <1>t DEF WrittenInOrder
  <2> QED
    BY <2>1 DEF WriteSms, Whole
<1>8. WrittenInOrder'
  <2> SUFFICES ASSUME NEW m \in Sms, NEW l \in Sms, m < l, incoming'[l] > 0
               PROVE  incoming'[m] = Writes
    BY DEF WrittenInOrder
  <2>1. CASE l = n
    BY <1>5, <1>6, <2>1, SmsNat
  <2>2. CASE l # n
    <3>1. incoming[m] = Writes /\ l <= n
      BY <1>t, <1>5, <1>7, <2>2 DEF WrittenInOrder
    <3> QED
      BY <1>5, <3>1, SmsNat
  <2> QED
    BY <2>1, <2>2
<1>9. Waiting \subseteq Sms /\ \A m \in Waiting : m <= n
  <2>1. Waiting \subseteq Sms
    BY <1>t, ElementOfSeq DEF ThreadTypeOK, Waiting
  <2> QED
    BY <1>t, <1>7, <2>1 DEF QueueInv
<1>10. events' \in Seq(Sms) /\ Increasing' /\ Waiting' \subseteq Waiting \cup {n}
  BY <1>t, <1>2, <1>9, NotifiedLemma DEF QueueInv
<1>11. event # 0 => event \in Sms /\ event <= n
  BY <1>t, <1>7 DEF ThreadTypeOK, QueueInv
<1>12. ThreadTypeOK' /\ GivenTypeOK'
  BY <1>t, <1>2, <1>10 DEF ThreadTypeOK, GivenTypeOK
<1>13. QueueInv'
  <2>1. ASSUME NEW m \in Waiting' PROVE incoming'[m] > 0 /\ event' <= m
    <3>1. CASE m = n
      BY <1>2, <1>3, <1>5, <1>11, <3>1, SmsNat
    <3>2. CASE m # n
      BY <1>t, <1>2, <1>5, <1>9, <1>10, <2>1, <3>2 DEF QueueInv
    <3> QED
      BY <3>1, <3>2
  <2>2. event' # 0 => incoming'[event'] > 0
    BY <1>t, <1>2, <1>3, <1>5, <1>11 DEF QueueInv
  <2> QED
    BY <1>10, <2>1, <2>2 DEF QueueInv
<1>14. PastInv'
  <2> SUFFICES ASSUME NEW m \in Sms, delivered[m] > 0
               PROVE  /\ event # 0 => m <= event
                      /\ \A l \in Waiting' : m <= l
    BY <1>2 DEF PastInv
  <2>1. incoming[m] > 0
    <3>1. /\ delivered[m] + Awaits(m) <= incoming[m] /\ Awaits(m) \in {0, 1, 2}
          /\ delivered[m] \in Nat /\ incoming[m] \in Nat
      BY <1>t, ReceiverAssumption
      DEF WritesInv, Awaits, GivenTypeOK, WrittenTypeOK
    <3> QED
      BY <3>1
  <2> QED
    BY <1>t, <1>7, <1>10, <2>1 DEF PastInv
<1>15. WritesInv'
  <2> SUFFICES ASSUME NEW m \in Sms
               PROVE  delivered[m] + Awaits(m)' <= incoming'[m]
    BY <1>2 DEF WritesInv
  <2>1. delivered[m] + Awaits(m) <= incoming[m] /\ delivered[m] \in Nat
    BY <1>t DEF WritesInv, GivenTypeOK
  <2>2. CASE m = n
    BY <1>2, <1>3, <1>5, <2>1, <2>2 DEF Awaits
  <2>3. CASE m # n
    <3>1. m \in Waiting' => m \in Waiting
      BY <1>10, <2>3
    <3>2. incoming[m] \in Nat /\ incoming'[m] = incoming[m]
      BY <1>t, <1>3, <1>5, <2>3 DEF WrittenTypeOK
    <3> QED
      BY <1>2, <2>1, <3>1, <3>2 DEF Awaits
  <2> QED
    BY <2>2, <2>3
<1> QED
  BY <1>4, <1>8, <1>12, <1>13, <1>14, <1>15 DEF ReceiverSafe

LEMMA ReadStep ==
    ASSUME ReceiverSafe, ReadEvents
    PROVE  ReceiverSafe'
<1>t. /\ WrittenTypeOK /\ ThreadTypeOK /\ GivenTypeOK
      /\ WrittenInOrder /\ QueueInv /\ PastInv /\ WritesInv
  BY DEF ReceiverSafe
<1>1. /\ receiver = "poll" /\ receiver' = "parse"
      /\ UNCHANGED <<incoming, m_commands, delivered, understood, rejected>>
  BY DEF ReadEvents
<1>2. event = 0
  BY <1>t, <1>1 DEF ThreadTypeOK
<1>3. /\ event' \in Waiting /\ event' \in Sms
      /\ events' \in Seq(Sms) /\ Increasing'
      /\ Waiting' \subseteq Waiting
      /\ \A m \in Waiting' : event' < m
  BY <1>t, ReadLemma DEF QueueInv
<1>4. Waiting \subseteq Sms
  BY <1>t, ElementOfSeq DEF ThreadTypeOK, Waiting
<1>5. WrittenTypeOK' /\ ThreadTypeOK' /\ GivenTypeOK' /\ WrittenInOrder'
  BY <1>t, <1>1, <1>3
  DEF WrittenTypeOK, ThreadTypeOK, GivenTypeOK, WrittenInOrder
<1>6. QueueInv'
  <2>1. ASSUME NEW m \in Waiting' PROVE incoming'[m] > 0 /\ event' <= m
    BY <1>t, <1>1, <1>3, <1>4, <2>1, SmsNat DEF QueueInv
  <2> QED
    BY <1>t, <1>1, <1>3, <2>1 DEF QueueInv
<1>7. PastInv'
  BY <1>t, <1>1, <1>3 DEF PastInv
<1>8. WritesInv'
  <2> SUFFICES ASSUME NEW m \in Sms
               PROVE  delivered[m] + Awaits(m)' <= incoming[m]
    BY <1>1 DEF WritesInv
  <2>1. /\ delivered[m] + Awaits(m) <= incoming[m]
        /\ delivered[m] \in Nat /\ incoming[m] \in Nat
    BY <1>t, ReceiverAssumption DEF WritesInv, GivenTypeOK, WrittenTypeOK
  <2>2. m # 0 /\ ~(m = event' /\ m \in Waiting')
    BY <1>3, SmsNat
  <2>3. m = event' \/ m \in Waiting' => m \in Waiting
    BY <1>3
  <2> QED
    BY <1>2, <2>1, <2>2, <2>3 DEF Awaits
<1> QED
  BY <1>5, <1>6, <1>7, <1>8 DEF ReceiverSafe

LEMMA ParseStep ==
    ASSUME ReceiverSafe, ParseSMS
    PROVE  ReceiverSafe'
<1>t. /\ WrittenTypeOK /\ ThreadTypeOK /\ GivenTypeOK
      /\ WrittenInOrder /\ QueueInv /\ PastInv /\ WritesInv
  BY DEF ReceiverSafe
<1>1. /\ receiver = "parse" /\ receiver' = "poll" /\ event' = 0
      /\ UNCHANGED <<incoming, events>>
  BY DEF ParseSMS
<1>2. event \in Sms /\ event # 0
  BY <1>t, <1>1, SmsNat DEF ThreadTypeOK
<1>3. Waiting' = Waiting /\ (Increasing <=> Increasing')
  BY <1>1 DEF Waiting, Increasing
<1>4. /\ rejected' \in {rejected, rejected \cup {event}}
      /\ \/ UNCHANGED <<m_commands, delivered, understood>>
         \/ /\ m_commands' = Append(m_commands, Text(event))
            /\ delivered' = [delivered EXCEPT ![event] = @ + 1]
            /\ understood' \in {understood, understood \cup {event}}
  BY DEF ParseSMS, DeliverSms, RejectSms
<1>5. Text(event) \in Received
  BY <1>2 DEF Text, Received, Whole
<1>6. WrittenTypeOK' /\ WrittenInOrder'
  BY <1>t, <1>1, <1>2, <1>4 DEF WrittenTypeOK, WrittenInOrder
<1>7. GivenTypeOK'
  <2>1. m_commands' \in Seq(Received)
    BY <1>t, <1>4, <1>5, AppendProperties DEF GivenTypeOK
  <2>2. delivered' \in [Sms -> Nat]
    BY <1>t, <1>2, <1>4 DEF GivenTypeOK
  <2> QED
    BY <2>1, <2>2 DEF GivenTypeOK
<1>8. ThreadTypeOK'
  BY <1>t, <1>1 DEF ThreadTypeOK
<1>9. Waiting \subseteq Sms
  BY <1>t, ElementOfSeq DEF ThreadTypeOK, Waiting
<1>10. QueueInv'
  BY <1>t, <1>1, <1>3, <1>9, SmsNat DEF QueueInv
<1>11. /\ \A m \in Sms : m # event => delivered'[m] = delivered[m]
       /\ delivered'[event] \in {delivered[event], delivered[event] + 1}
  BY <1>t, <1>2, <1>4 DEF GivenTypeOK
<1>12. PastInv'
  <2> SUFFICES ASSUME NEW m \in Sms, delivered'[m] > 0, NEW l \in Waiting
               PROVE  m <= l
    BY <1>1, <1>3 DEF PastInv
  <2>1. CASE m = event
    BY <1>t, <2>1 DEF QueueInv
  <2>2. CASE m # event
    BY <1>t, <1>11, <2>2 DEF PastInv
  <2> QED
    BY <2>1, <2>2
<1>13. WritesInv'
  <2> SUFFICES ASSUME NEW m \in Sms
               PROVE  delivered'[m] + Awaits(m)' <= incoming[m]
    BY <1>1 DEF WritesInv
  <2>1. /\ delivered[m] + Awaits(m) <= incoming[m]
        /\ delivered[m] \in Nat /\ incoming[m] \in Nat /\ m # 0
    BY <1>t, ReceiverAssumption, SmsNat
    DEF WritesInv, GivenTypeOK, WrittenTypeOK
  <2>2. CASE m = event
    BY <1>1, <1>3, <1>11, <2>1, <2>2 DEF Awaits
  <2>3. CASE m # event
    BY <1>1, <1>3, <1>11, <2>1, <2>3 DEF Awaits
  <2> QED
    BY <2>2, <2>3
<1> QED
  BY <1>6, <1>7, <1>8, <1>10, <1>12, <1>13 DEF ReceiverSafe

LEMMA StopStep ==
    ASSUME ReceiverSafe, StopReceiver
    PROVE  ReceiverSafe'
<1>t. /\ WrittenTypeOK /\ ThreadTypeOK /\ GivenTypeOK
      /\ WrittenInOrder /\ QueueInv /\ PastInv /\ WritesInv
  BY DEF ReceiverSafe
<1>1. /\ receiver' = "down" /\ events' = <<>> /\ event' = 0 /\ m_commands' = <<>>
      /\ UNCHANGED <<incoming, delivered, understood, rejected>>
  BY DEF StopReceiver
<1>2. Waiting' = {} /\ Increasing'
  BY <1>1 DEF Waiting, Increasing
<1>3. WrittenTypeOK' /\ ThreadTypeOK' /\ GivenTypeOK' /\ WrittenInOrder'
  BY <1>t, <1>1 DEF WrittenTypeOK, ThreadTypeOK, GivenTypeOK, WrittenInOrder
<1>4. QueueInv' /\ PastInv'
  BY <1>1, <1>2 DEF QueueInv, PastInv
<1>5. WritesInv'
  <2> SUFFICES ASSUME NEW m \in Sms
               PROVE  delivered[m] + Awaits(m)' <= incoming[m]
    BY <1>1 DEF WritesInv
  <2>1. /\ delivered[m] + Awaits(m) <= incoming[m]
        /\ delivered[m] \in Nat /\ incoming[m] \in Nat /\ m # 0
    BY <1>t, ReceiverAssumption, SmsNat
    DEF WritesInv, GivenTypeOK, WrittenTypeOK
  <2> QED
    BY <1>1, <1>2, <2>1 DEF Awaits
<1> QED
  BY <1>3, <1>4, <1>5 DEF ReceiverSafe

LEMMA ReceiverStep ==
    ASSUME ReceiverSafe, ReceiverSteps
    PROVE  ReceiverSafe'
<1>1. CASE StartReceiver \/ TakeCommand \/ UNCHANGED receiverVars
  <2>1. /\ UNCHANGED <<incoming, events, event, delivered, understood, rejected>>
        /\ \/ receiver' = receiver
           \/ /\ receiver = "down"
              /\ receiver' = "poll"
        /\ \/ m_commands' = m_commands
           \/ /\ m_commands # <<>>
              /\ m_commands' = Tail(m_commands)
    <3>1. CASE StartReceiver
      BY <3>1 DEF StartReceiver
    <3>2. CASE TakeCommand
      BY <3>2 DEF TakeCommand
    <3>3. CASE UNCHANGED receiverVars
      BY <3>3 DEF receiverVars
    <3> QED
      BY <1>1, <3>1, <3>2, <3>3
  <2>2. GivenTypeOK'
    BY <2>1, HeadTailProperties DEF ReceiverSafe, GivenTypeOK
  <2> QED
    BY <2>1, <2>2
    DEF ReceiverSafe, WrittenTypeOK, ThreadTypeOK, WrittenInOrder, QueueInv,
        PastInv, WritesInv, Awaits, Waiting, Increasing
<1> QED
  BY <1>1, WriteStep, ReadStep, ParseStep, StopStep DEF ReceiverSteps

LEMMA ReceiverInvariant == Spec => []ReceiverSafe
<1>1. Init => ReceiverSafe
  <2> SUFFICES ASSUME Init PROVE ReceiverSafe
    OBVIOUS
  <2>1. ReceiverInit
    BY DEF Init
  <2>2. Waiting = {} /\ Increasing
    BY <2>1 DEF ReceiverInit, Waiting, Increasing
  <2>3. WrittenTypeOK /\ ThreadTypeOK /\ GivenTypeOK
    BY <2>1, ReceiverAssumption
    DEF ReceiverInit, WrittenTypeOK, ThreadTypeOK, GivenTypeOK
  <2>4. WrittenInOrder /\ QueueInv /\ PastInv
    BY <2>1, <2>2 DEF ReceiverInit, WrittenInOrder, QueueInv, PastInv
  <2>5. WritesInv
    BY <2>1, <2>2, SmsNat DEF ReceiverInit, WritesInv, Awaits
  <2> QED
    BY <2>3, <2>4, <2>5 DEF ReceiverSafe
<1>2. ReceiverSafe /\ [Next]_vars => ReceiverSafe'
  BY Steps, ReceiverStep
<1> QED
  BY <1>1, <1>2, PTL DEF Spec
-----------------------------------------------------------------------------
(***************************************************************************)
(* The SMS whose turn it is.                                               *)
(***************************************************************************)
\* Of a file that is half written nothing later waits: no other file follows.
LEMMA HalfWritten ==
    ASSUME ReceiverSafe, NEW n \in Sms, event = n, ~Whole(n), events # <<>>
    PROVE  Head(events) = n
<1>1. events \in Seq(Sms) /\ WrittenInOrder /\ QueueInv
  BY DEF ReceiverSafe, ThreadTypeOK
<1>2. 1 \in 1 .. Len(events) /\ Head(events) = events[1]
  BY <1>1, LenProperties, EmptySeq
<1> DEFINE m == events[1]
<1>3. m \in Sms /\ m \in Waiting
  BY <1>1, <1>2, ElementOfSeq DEF Waiting
<1>4. n <= m /\ incoming[m] > 0
  BY <1>1, <1>3 DEF QueueInv
<1>5. ~(n < m)
  BY <1>1, <1>3, <1>4 DEF WrittenInOrder, Whole
<1> QED
  BY <1>2, <1>3, <1>4, <1>5, SmsNat

LEMMA TurnStep ==
    ASSUME ReceiverSafe, ReceiverSteps, NEW n \in Sms, Attended(n),
           n \notin understood', ~GivesUp(n), receiver' # "down"
    PROVE  Attended(n)'
<1>1. /\ events \in Seq(Sms) /\ WrittenInOrder /\ QueueInv
      /\ event \in IF receiver = "parse" THEN Sms ELSE {0}
      /\ n \in Nat /\ n > 0
  BY SmsNat DEF ReceiverSafe, ThreadTypeOK
<1>2. CASE StartReceiver \/ TakeCommand \/ UNCHANGED receiverVars
  <2>1. UNCHANGED <<incoming, events, event>>
    BY <1>2 DEF StartReceiver, TakeCommand, receiverVars
  <2> QED
    BY <2>1 DEF Attended, Whole
<1>3. CASE StopReceiver
  BY <1>3 DEF StopReceiver
<1>4. CASE ReadEvents
  <2>1. event # n /\ events # <<>> /\ event' = Head(events)
    BY <1>1, <1>4 DEF ReadEvents
  <2> QED
    BY <2>1 DEF Attended
<1>5. CASE ParseSMS
  <2>1. UNCHANGED <<incoming, events>>
    BY <1>5 DEF ParseSMS
  <2>2. CASE event = n
    <3>1. ~Whole(n)
      BY <1>5, <2>2 DEF ParseSMS, DeliverSms, RejectSms, GivesUp
    <3>2. incoming[n] > 0
      BY <1>1, <2>2 DEF QueueInv
    <3>3. events = <<>> \/ Head(events) = n
      BY <2>2, <3>1, HalfWritten
    <3> QED
      BY <2>1, <3>1, <3>2, <3>3 DEF Attended, Whole
  <2>3. CASE event # n
    BY <2>1, <2>3 DEF Attended, Whole
  <2> QED
    BY <2>2, <2>3
<1>6. ASSUME NEW m \in Sms, WriteSms(m) PROVE Attended(n)'
  <2>1. /\ event' = event /\ receiver # "down"
        /\ events' = Notified(m)
        /\ ~Whole(m) /\ \A k \in 1 .. m - 1 : Whole(k)
    BY <1>6 DEF WriteSms
  <2>2. events' = events \/ events' = Append(events, m)
    BY <2>1 DEF Notified
  <2>3. CASE event = n
    BY <2>1, <2>3 DEF Attended
  <2>4. CASE events # <<>> /\ Head(events) = n
    <3>1. events' # <<>> /\ Head(events') = n
      <4>1. CASE events' = events
        BY <2>4, <4>1
      <4>2. CASE events' = Append(events, m)
        <5>1. Len(events) > 0 /\ Len(events') = Len(events) + 1
          BY <1>1, <2>4, <4>2, AppendProperties, LenProperties, EmptySeq
        <5>2. events'[1] = events[1] /\ events' # <<>>
          BY <1>1, <4>2, <5>1, AppendProperties, LenProperties
        <5> QED
          BY <1>1, <2>4, <4>2, <5>2, AppendProperties
      <4> QED
        BY <2>2, <4>1, <4>2
    <3> QED
      BY <3>1 DEF Attended
  <2>5. CASE events = <<>> /\ incoming[n] > 0 /\ ~Whole(n)
    <3>1. m \in Nat /\ m > 0
      BY SmsNat
    <3>2. ~(m < n)
      BY <1>1, <2>1, <2>5 DEF WrittenInOrder, Whole
    <3>3. ~(n < m)
      BY <1>1, <2>1, <2>5, <3>1
    <3>4. m = n
      BY <1>1, <3>1, <3>2, <3>3
    <3>5. events' = <<n>>
      BY <2>1, <2>5, <3>4 DEF Notified
    <3> QED
      BY <3>5 DEF Attended
  <2> QED
    BY <2>3, <2>4, <2>5 DEF Attended
<1> QED
  BY <1>2, <1>3, <1>4, <1>5, <1>6 DEF ReceiverSteps

\* An SMS keeps its turn until it is understood, its finished file is given up
\* or the process ends.
THEOREM TurnIsKept == Spec => FirstStaysFirst
<1>1. ReceiverSafe /\ [Next]_vars =>
        [\A n \in Sms : KeepsTurn(n)]_receiverVars
  BY Steps, TurnStep DEF KeepsTurn
<1> QED
  BY ReceiverInvariant, <1>1, PTL DEF Spec, FirstStaysFirst
-----------------------------------------------------------------------------
(***************************************************************************)
(* The receiver implements SmsDelivery.                                    *)
(***************************************************************************)
\* `k' is the last SMS of which anything is written.
Last(k) ==
    /\ k # 0 => k \in Sms /\ incoming[k] > 0
    /\ \A m \in Sms : m > k => incoming[m] = 0
ArrivedInv == \E k \in Sms \cup {0} : Last(k)

LEMMA LastArrived ==
    ASSUME WrittenTypeOK, NEW k \in Sms \cup {0}, Last(k)
    PROVE  Arrived = k
<1>1. ASSUME NEW n \in Sms, incoming[n] > 0,
             \A m \in Sms : m > n => incoming[m] = 0
      PROVE  n = k
  <2>1. n \in Nat /\ k \in Nat
    BY SmsNat
  <2>2. ~(n > k)
    BY <1>1 DEF Last
  <2>3. ~(k > n)
    BY <1>1, <2>1, SmsNat DEF Last
  <2> QED
    BY <2>1, <2>2, <2>3
<1>2. CASE k = 0
  <2>1. \A n \in Sms : ~(incoming[n] > 0)
    BY <1>2, SmsNat DEF Last
  <2> QED
    BY <1>2, <2>1 DEF Arrived
<1>3. CASE k # 0
  <2>1. k \in Sms /\ incoming[k] > 0 /\ \A m \in Sms : m > k => incoming[m] = 0
    BY <1>3 DEF Last
  <2>2. Arrived = CHOOSE n \in Sms :
                      /\ incoming[n] > 0
                      /\ \A m \in Sms : m > n => incoming[m] = 0
    BY <2>1 DEF Arrived
  <2>3. Arrived \in Sms /\ incoming[Arrived] > 0
        /\ \A m \in Sms : m > Arrived => incoming[m] = 0
    BY <2>1, <2>2
  <2> QED
    BY <1>1, <2>3
<1> QED
  BY <1>2, <1>3

\* A write is of the SMS that arrived last or of the next.
LEMMA WriteArrives ==
    ASSUME ReceiverSafe, ArrivedInv, NEW n \in Sms, WriteSms(n)
    PROVE  /\ Last(n)'
           /\ n \in {Arrived, Arrived + 1} /\ Arrived' = n
<1>1. PICK k \in Sms \cup {0} : Last(k)
  BY DEF ArrivedInv
<1>2. WrittenTypeOK /\ WrittenTypeOK' /\ WrittenInOrder
  BY WriteStep DEF ReceiverSafe
<1>3. Arrived = k
  BY <1>1, <1>2, LastArrived
<1>4. /\ \A m \in Sms : m # n => incoming'[m] = incoming[m]
      /\ incoming'[n] > 0 /\ incoming[n] \in Nat /\ incoming[n] # Writes
      /\ \A m \in Sms : m < n => incoming[m] = Writes
  BY <1>2, ReceiverAssumption, SmsNat DEF WriteSms, WrittenTypeOK, Whole, Sms
<1>5. \A m \in Sms : m > n => incoming[m] = 0
  <2> SUFFICES ASSUME NEW m \in Sms, m > n PROVE ~(incoming[m] > 0)
    BY <1>2, ReceiverAssumption DEF WrittenTypeOK
  <2> QED
    BY <1>2, <1>4 DEF WrittenInOrder
<1>6. Last(n)'
  <2>1. \A m \in Sms : m > n => incoming'[m] = 0
    BY <1>4, <1>5, SmsNat
  <2> QED
    BY <1>4, <2>1 DEF Last
<1>7. Arrived' = n
  <2>1. WrittenTypeOK' /\ n \in Sms \cup {0} /\ Last(n)' => Arrived' = n
    <3>1. ASSUME WrittenTypeOK', Last(n)',
                 NEW l \in Sms, incoming'[l] > 0,
                 \A m \in Sms : m > l => incoming'[m] = 0
          PROVE  l = n
      <4>1. ~(l > n) /\ ~(n > l)
        BY <1>4, <3>1, SmsNat DEF Last
      <4> QED
        BY <4>1, SmsNat
    <3>2. incoming'[n] > 0 /\ \A m \in Sms : m > n => incoming'[m] = 0
      BY <1>4, <1>5, SmsNat
    <3>3. Arrived' = CHOOSE l \in Sms :
                         /\ incoming'[l] > 0
                         /\ \A m \in Sms : m > l => incoming'[m] = 0
      BY <3>2 DEF Arrived
    <3>4. Arrived' \in Sms /\ incoming'[Arrived'] > 0
          /\ \A m \in Sms : m > Arrived' => incoming'[m] = 0
      BY <3>2, <3>3
    <3> QED
      BY <3>1, <3>4
  <2> QED
    BY <1>2, <1>6, <2>1
<1>8. k \in {n, n - 1}
  <2>1. k \in Nat /\ n \in Nat /\ n > 0 /\ (k # 0 => k \in Sms)
    BY SmsNat
  <2>2. ~(k > n)
    BY <1>1, <1>5, <2>1 DEF Last
  <2>3. ~(n - 1 > k)
    <3> SUFFICES ASSUME n - 1 > k PROVE FALSE
      OBVIOUS
    <3>1. n - 1 \in Sms
      BY <2>1, ReceiverAssumption DEF Sms
    <3>2. incoming[n - 1] = 0 /\ incoming[n - 1] = Writes
      BY <1>1, <1>4, <2>1, <3>1 DEF Last
    <3> QED
      BY <3>2, ReceiverAssumption
  <2> QED
    BY <2>1, <2>2, <2>3
<1> QED
  BY <1>3, <1>6, <1>7, <1>8, SmsNat

LEMMA OtherStepsArrive ==
    ASSUME ReceiverSteps, ~\E n \in Sms : WriteSms(n)
    PROVE  UNCHANGED incoming /\ Arrived' = Arrived
<1>1. UNCHANGED incoming
  BY DEF ReceiverSteps, StartReceiver, StopReceiver, ReadEvents, ParseSMS,
         TakeCommand, receiverVars
<1> QED
  BY <1>1 DEF Arrived

LEMMA ArrivedInvariant == Spec => []ArrivedInv
<1>1. Init => ArrivedInv
  BY DEF Init, ReceiverInit, ArrivedInv, Last
<1>2. ReceiverSafe /\ ArrivedInv /\ [Next]_vars => ArrivedInv'
  <2> SUFFICES ASSUME ReceiverSafe, ArrivedInv, [Next]_vars PROVE ArrivedInv'
    OBVIOUS
  <2>1. CASE \E n \in Sms : WriteSms(n)
    BY <2>1, WriteArrives DEF ArrivedInv
  <2>2. CASE ~\E n \in Sms : WriteSms(n)
    BY <2>2, Steps, OtherStepsArrive DEF ArrivedInv, Last
  <2> QED
    BY <2>1, <2>2
<1> QED
  BY <1>1, <1>2, ReceiverInvariant, PTL DEF Spec

\* Parsing a file delivers an SMS that arrived, none later than it before it,
\* and not more often than it was written.
LEMMA ParseDelivers ==
    ASSUME ReceiverSafe, ArrivedInv, ParseSMS, Arrived' = Arrived
    PROVE  \/ \E n \in Sms : Delivery!Deliver(n)
           \/ UNCHANGED delivered
<1>1. CASE UNCHANGED delivered
  BY <1>1
<1>2. CASE delivered' = [delivered EXCEPT ![event] = @ + 1]
  <2>0. /\ WrittenTypeOK /\ ThreadTypeOK /\ GivenTypeOK
        /\ QueueInv /\ PastInv /\ WritesInv
    BY DEF ReceiverSafe
  <2>1. event \in Sms /\ event \in Nat /\ event > 0
    BY <2>0, SmsNat DEF ParseSMS, ThreadTypeOK
  <2>2. event <= Arrived
    <3>1. PICK k \in Sms \cup {0} : Last(k)
      BY DEF ArrivedInv
    <3>2. Arrived = k /\ k \in Nat
      BY <2>0, <3>1, LastArrived, SmsNat
    <3>3. ~(event > k)
      BY <2>0, <2>1, <3>1 DEF QueueInv, Last
    <3> QED
      BY <2>1, <3>2, <3>3
  <2>3. delivered[event] < Writes
    <3>1. /\ delivered[event] + Awaits(event) <= incoming[event]
          /\ delivered[event] \in Nat /\ incoming[event] \in 0 .. Writes
      BY <2>0, <2>1 DEF WritesInv, GivenTypeOK, WrittenTypeOK
    <3>2. Awaits(event) \in {1, 2}
      BY DEF Awaits
    <3> QED
      BY <3>1, <3>2, ReceiverAssumption
  <2>4. \A m \in Sms : m > event => delivered[m] = 0
    <3> SUFFICES ASSUME NEW m \in Sms, m > event PROVE ~(delivered[m] > 0)
      BY <2>0 DEF GivenTypeOK
    <3> QED
      BY <2>0, <2>1, SmsNat DEF PastInv
  <2>5. Delivery!Deliver(event)
    BY <1>2, <2>2, <2>3, <2>4 DEF Delivery!Deliver, Delivery!Numbered, Sms
  <2> QED
    BY <2>1, <2>5
<1> QED
  BY <1>1, <1>2 DEF ParseSMS, DeliverSms, RejectSms

\* The receiver implements SmsDelivery.
THEOREM Delivers == Spec => DeliverySpec
<1>1. Init => Delivery!Init
  <2> SUFFICES ASSUME Init PROVE Delivery!Init
    OBVIOUS
  <2>1. \A n \in Sms : ~(incoming[n] > 0)
    BY DEF Init, ReceiverInit
  <2>2. Arrived = 0
    BY <2>1 DEF Arrived
  <2> QED
    BY <2>2 DEF Init, ReceiverInit, Delivery!Init, Delivery!Numbered, Sms
<1>2. ReceiverSafe /\ ArrivedInv /\ [Next]_vars
      => [Delivery!Next]_<<Arrived, delivered>>
  <2> SUFFICES ASSUME ReceiverSafe, ArrivedInv, [Next]_vars
               PROVE  Delivery!Next \/ UNCHANGED <<Arrived, delivered>>
    OBVIOUS
  <2>1. CASE \E n \in Sms : WriteSms(n)
    <3>1. PICK n \in Sms : WriteSms(n)
      BY <2>1
    <3>2. n \in {Arrived, Arrived + 1} /\ Arrived' = n /\ UNCHANGED delivered
      BY <3>1, WriteArrives DEF WriteSms
    <3>3. PICK k \in Sms \cup {0} : Arrived = k
      BY LastArrived DEF ReceiverSafe, ArrivedInv
    <3>4. CASE n = Arrived + 1
      <4>1. Arrived < MaxSms
        BY <3>3, <3>4, SmsNat, ReceiverAssumption DEF Sms
      <4> QED
        BY <3>2, <3>4, <4>1 DEF Delivery!Next, Delivery!Arrive
    <3>5. CASE n = Arrived
      BY <3>2, <3>5
    <3> QED
      BY <3>2, <3>4, <3>5
  <2>2. CASE ~\E n \in Sms : WriteSms(n)
    <3>1. Arrived' = Arrived
      BY <2>2, Steps, OtherStepsArrive
    <3>2. CASE ParseSMS
      <4>1. CASE \E n \in Sms : Delivery!Deliver(n)
        BY <4>1 DEF Delivery!Next, Delivery!Numbered, Sms
      <4> QED
        BY <3>1, <3>2, <4>1, ParseDelivers
    <3>3. CASE ~ParseSMS
      <4>1. UNCHANGED delivered
        BY <2>2, <3>3, Steps
        DEF ReceiverSteps, StartReceiver, StopReceiver, ReadEvents,
            TakeCommand, receiverVars
      <4> QED
        BY <3>1, <4>1
    <3> QED
      BY <3>2, <3>3
  <2> QED
    BY <2>1, <2>2
<1> QED
  BY <1>1, <1>2, ReceiverInvariant, ArrivedInvariant, PTL
  DEF Spec, DeliverySpec, Delivery!Spec
-----------------------------------------------------------------------------
(***************************************************************************)
(* The replies.                                                            *)
(***************************************************************************)
\* The places of an SMS in a queue of commands, and their number.
Places(s, n) == {i \in 1 .. Len(s) : s[i].sms = n}
Times(s, n) == Cardinality(Places(s, n))

LEMMA PlacesFinite ==
    ASSUME NEW s \in Seq(Received), NEW n
    PROVE  IsFiniteSet(Places(s, n)) /\ Times(s, n) \in Nat
<1>1. Len(s) \in Nat
  BY LenProperties
<1>2. IsFiniteSet(1 .. Len(s))
  BY <1>1, FS_Interval
<1>3. IsFiniteSet(Places(s, n))
  BY <1>2, FS_Subset DEF Places
<1> QED
  BY <1>3, FS_CardinalityType DEF Times

LEMMA TimesAppend ==
    ASSUME NEW s \in Seq(Received), NEW n, NEW c \in Received
    PROVE  Times(Append(s, c), n) = Times(s, n) + (IF c.sms = n THEN 1 ELSE 0)
<1>1. /\ Len(Append(s, c)) = Len(s) + 1 /\ Len(s) \in Nat
      /\ \A i \in 1 .. Len(s) : Append(s, c)[i] = s[i]
      /\ Append(s, c)[Len(s) + 1] = c
  BY AppendProperties, LenProperties
<1>2. 1 .. Len(s) + 1 = 1 .. Len(s) \cup {Len(s) + 1}
  BY <1>1
<1>3. Len(s) + 1 \notin Places(s, n)
  BY <1>1 DEF Places
<1>4. CASE c.sms = n
  <2>1. Places(Append(s, c), n) = Places(s, n) \cup {Len(s) + 1}
    BY <1>1, <1>2, <1>4 DEF Places
  <2> QED
    BY <1>3, <1>4, <2>1, PlacesFinite, FS_AddElement DEF Times
<1>5. CASE c.sms # n
  <2>1. Places(Append(s, c), n) = Places(s, n)
    BY <1>1, <1>2, <1>5 DEF Places
  <2> QED
    BY <1>5, <2>1, PlacesFinite DEF Times
<1> QED
  BY <1>4, <1>5

LEMMA TimesTail ==
    ASSUME NEW s \in Seq(Received), s # <<>>, NEW n
    PROVE  Times(s, n) =
               Times(Tail(s), n) + (IF Head(s).sms = n THEN 1 ELSE 0)
<1> DEFINE S == Places(Tail(s), n)
           T == Places(s, n) \ {1}
           shift == [i \in S |-> i + 1]
<1>1. /\ Tail(s) \in Seq(Received) /\ Len(Tail(s)) = Len(s) - 1
      /\ \A i \in 1 .. Len(Tail(s)) : Tail(s)[i] = s[i + 1]
      /\ Len(s) \in Nat /\ Len(s) > 0 /\ Head(s) = s[1]
  BY HeadTailProperties, LenProperties, EmptySeq
<1>2. shift \in [S -> T]
  <2> SUFFICES ASSUME NEW i \in S PROVE i + 1 \in T
    OBVIOUS
  <2> QED
    BY <1>1 DEF Places
<1>3. \A a, b \in S : shift[a] = shift[b] => a = b
  BY <1>1 DEF Places
<1>4. \A t \in T : \E a \in S : shift[a] = t
  <2> SUFFICES ASSUME NEW t \in T PROVE \E a \in S : shift[a] = t
    OBVIOUS
  <2>1. t \in 2 .. Len(s) /\ s[t].sms = n
    BY <1>1 DEF Places
  <2>2. t - 1 \in 1 .. Len(Tail(s)) /\ (t - 1) + 1 = t
    BY <1>1, <2>1
  <2>3. t - 1 \in S
    BY <1>1, <2>1, <2>2 DEF Places
  <2> QED
    BY <2>2, <2>3
<1>5. ExistsBijection(S, T)
  <2> HIDE DEF S, T, shift
  <2>1. shift \in Bijection(S, T)
    BY <1>2, <1>3, <1>4, Fun_IsBij
  <2> QED
    BY <2>1 DEF ExistsBijection
<1>6. Cardinality(T) = Cardinality(S)
  <2>1. IsFiniteSet(S)
    BY <1>1, PlacesFinite
  <2> QED
    BY <1>5, <2>1, FS_Bijection
<1>7. Cardinality(T) = IF 1 \in Places(s, n) THEN Times(s, n) - 1
                       ELSE Times(s, n)
  BY PlacesFinite, FS_RemoveElement DEF Times
<1>8. 1 \in Places(s, n) <=> Head(s).sms = n
  BY <1>1 DEF Places
<1>9. Times(s, n) \in Nat /\ Cardinality(S) = Times(Tail(s), n)
  BY PlacesFinite DEF Times
<1> HIDE DEF S, T
<1>10. CASE Head(s).sms = n
  <2>1. Times(Tail(s), n) = Times(s, n) - 1
    BY <1>6, <1>7, <1>8, <1>9, <1>10
  <2> QED
    BY <1>9, <1>10, <2>1
<1>11. CASE Head(s).sms # n
  <2>1. Times(Tail(s), n) = Times(s, n)
    BY <1>6, <1>7, <1>8, <1>9, <1>11
  <2> QED
    BY <1>9, <1>11, <2>1
<1> QED
  BY <1>10, <1>11

MainTypeOK ==
    /\ place \in {"idle", "send"}
    /\ answering \in Sms \cup {0}
    /\ replies \in 0 .. MaxReplies
    /\ answered \in [Sms -> Nat]
PlaceInv ==
    /\ place = "send" => replies > 0
    /\ place = "idle" => replies = 0 /\ answering = 0

\* A delivered SMS is waiting to be executed, or its replies are on their way or
\* spooled or will never be.
Owed(n) ==
    MostReplies(n) * Times(m_commands, n) + (IF answering = n THEN replies ELSE 0)
RepliesInv ==
    \A n \in Sms : answered[n] + Owed(n) <= MostReplies(n) * delivered[n]
RepliesSafe == MainTypeOK /\ PlaceInv /\ RepliesInv

LEMMA MostRepliesLemma ==
    ASSUME NEW n
    PROVE  /\ MostReplies(n) \in Nat \ {0} /\ MostReplies(n) <= MaxReplies
           /\ \A a \in Nat : MostReplies(n) * a \in Nat
           /\ \A a \in Nat :
                 MostReplies(n) * (a + 1) = MostReplies(n) * a + MostReplies(n)
  BY RepliesAssumption DEF MostReplies

\* What the steps that take no command and send nothing leave alone.
LEMMA RepliesFrame ==
    ASSUME RepliesSafe, UNCHANGED <<mainVars, m_commands, delivered>>
    PROVE  RepliesSafe'
  BY DEF mainVars, RepliesSafe, MainTypeOK, PlaceInv, RepliesInv, Owed, Times,
         Places

LEMMA RepliesDeliver ==
    ASSUME ReceiverSafe, RepliesSafe, ParseSMS, DeliverSms, UNCHANGED mainVars
    PROVE  RepliesSafe'
<1>1. /\ MainTypeOK /\ RepliesInv /\ m_commands \in Seq(Received)
      /\ delivered \in [Sms -> Nat]
  BY DEF ReceiverSafe, RepliesSafe, GivenTypeOK
<1>2. event \in Sms /\ Text(event) \in Received /\ Text(event).sms = event
  BY DEF ReceiverSafe, ParseSMS, ThreadTypeOK, Text, Received, Whole
<1>3. /\ m_commands' = Append(m_commands, Text(event))
      /\ delivered' = [delivered EXCEPT ![event] = @ + 1]
  BY DEF DeliverSms
<1>4. ASSUME NEW n \in Sms
      PROVE  answered[n] + Owed(n)' <= MostReplies(n) * delivered'[n]
  <2> DEFINE r == IF answering = n THEN replies ELSE 0
             old == MostReplies(n) * Times(m_commands, n)
  <2>1. Times(m_commands', n) =
            Times(m_commands, n) + (IF event = n THEN 1 ELSE 0)
    BY <1>1, <1>2, <1>3, TimesAppend
  <2>2. Owed(n) = old + r /\ Owed(n)' = MostReplies(n) * Times(m_commands', n) + r
    BY DEF Owed, Times, Places, mainVars
  <2>3. delivered'[n] = delivered[n] + (IF event = n THEN 1 ELSE 0)
    BY <1>1, <1>2, <1>3
  <2>4. /\ answered[n] + (old + r) <= MostReplies(n) * delivered[n]
        /\ answered[n] \in Nat /\ delivered[n] \in Nat /\ r \in Nat
    BY <1>1, <2>2, RepliesAssumption DEF RepliesInv, MainTypeOK
  <2>5. Times(m_commands, n) \in Nat
    BY <1>1, PlacesFinite
  <2>6. old \in Nat /\ MostReplies(n) * delivered[n] \in Nat
        /\ MostReplies(n) \in Nat
    BY <2>4, <2>5, MostRepliesLemma
  <2>7. CASE event = n
    <3>1. MostReplies(n) * Times(m_commands', n) = old + MostReplies(n)
      BY <2>1, <2>5, <2>7, MostRepliesLemma
    <3>2. MostReplies(n) * delivered'[n]
              = MostReplies(n) * delivered[n] + MostReplies(n)
      BY <2>3, <2>4, <2>7, MostRepliesLemma
    <3> HIDE DEF r, old
    <3> QED
      BY <2>2, <2>4, <2>6, <3>1, <3>2
  <2>8. CASE event # n
    <3>1. Times(m_commands', n) = Times(m_commands, n)
          /\ delivered'[n] = delivered[n]
      BY <2>1, <2>3, <2>4, <2>5, <2>8
    <3> QED
      BY <2>2, <2>4, <3>1
  <2> QED
    BY <2>7, <2>8
<1> QED
  BY <1>1, <1>4 DEF RepliesSafe, RepliesInv, PlaceInv, MainTypeOK, mainVars

\* The end of a process leaves nothing to be answered.
LEMMA RepliesCrash ==
    ASSUME ReceiverSafe, RepliesSafe, Crash
    PROVE  RepliesSafe'
<1>1. /\ MainTypeOK /\ RepliesInv /\ m_commands \in Seq(Received)
      /\ delivered \in [Sms -> Nat]
  BY DEF ReceiverSafe, RepliesSafe, GivenTypeOK
<1>2. /\ m_commands' = <<>> /\ answering' = 0 /\ place' = "idle"
      /\ replies' = 0
      /\ UNCHANGED <<answered, delivered>>
  BY DEF Crash, StopReceiver
<1>3. ASSUME NEW n \in Sms PROVE Owed(n)' = 0
  <2>1. Places(m_commands', n) = {}
    BY <1>2 DEF Places
  <2>2. Times(m_commands', n) = 0
    BY <2>1, FS_EmptySet DEF Times
  <2>3. Owed(n)' = MostReplies(n) * Times(m_commands', n)
                       + (IF answering' = n THEN replies' ELSE 0)
    BY DEF Owed, Times, Places
  <2>4. MostReplies(n) * 0 = 0
    BY MostRepliesLemma
  <2> QED
    BY <1>2, <2>2, <2>3, <2>4
<1>4. ASSUME NEW n \in Sms PROVE answered[n] <= MostReplies(n) * delivered[n]
  <2> DEFINE paid == MostReplies(n) * delivered[n]
  <2>1. Owed(n) \in Nat
    <3>1. Times(m_commands, n) \in Nat
      BY <1>1, PlacesFinite
    <3>2. MostReplies(n) * Times(m_commands, n) \in Nat
      BY <3>1, MostRepliesLemma
    <3>3. replies \in Nat
      BY <1>1, RepliesAssumption DEF MainTypeOK
    <3> QED
      BY <3>2, <3>3 DEF Owed
  <2>2. answered[n] + Owed(n) <= paid /\ answered[n] \in Nat /\ paid \in Nat
    BY <1>1, MostRepliesLemma DEF RepliesInv, MainTypeOK
  <2> HIDE DEF paid
  <2>3. answered[n] <= paid
    BY <2>1, <2>2
  <2> QED
    BY <2>3 DEF paid
<1>5. MainTypeOK' /\ PlaceInv'
  BY <1>1, <1>2, RepliesAssumption DEF MainTypeOK, PlaceInv
<1>6. \A n \in Sms : answered[n] + 0 <= MostReplies(n) * delivered[n]
  BY <1>1, <1>4 DEF MainTypeOK
<1> QED
  BY <1>2, <1>3, <1>5, <1>6 DEF RepliesSafe, RepliesInv

LEMMA RepliesTake ==
    ASSUME ReceiverSafe, RepliesSafe, ParseCommand
    PROVE  RepliesSafe'
<1>1. /\ MainTypeOK /\ PlaceInv /\ RepliesInv /\ m_commands \in Seq(Received)
      /\ delivered \in [Sms -> Nat]
  BY DEF ReceiverSafe, RepliesSafe, GivenTypeOK
<1> DEFINE h == Head(m_commands).sms
<1>2. /\ m_commands # <<>> /\ m_commands' = Tail(m_commands)
      /\ UNCHANGED <<answered, delivered>> /\ answering = 0 /\ replies = 0
      /\ \/ place' = place /\ answering' = 0 /\ replies' = 0
         \/ /\ place' = "send" /\ answering' = h
            /\ replies' \in 1 .. MostReplies(h)
  BY <1>1 DEF ParseCommand, AnswerCommand, IgnoreCommand, Idle, PlaceInv
<1>3. h \in Sms /\ h # 0
  <2>1. Head(m_commands) \in Received
    BY <1>1, <1>2, HeadTailProperties
  <2> QED
    BY <2>1, SmsNat DEF Received
<1> HIDE DEF h
<1>4. MainTypeOK' /\ PlaceInv'
  <2>1. MostReplies(h) \in Nat /\ MostReplies(h) <= MaxReplies
    BY MostRepliesLemma
  <2>2. CASE place' = place /\ answering' = 0 /\ replies' = 0
    BY <1>1, <1>2, <2>2 DEF MainTypeOK, PlaceInv
  <2>3. CASE /\ place' = "send" /\ answering' = h
             /\ replies' \in 1 .. MostReplies(h)
    <3>1. replies' \in 0 .. MaxReplies /\ replies' > 0
      BY <2>1, <2>3, RepliesAssumption
    <3> QED
      BY <1>1, <1>2, <1>3, <2>3, <3>1 DEF MainTypeOK, PlaceInv
  <2> QED
    BY <1>2, <2>2, <2>3
<1>5. ASSUME NEW n \in Sms
      PROVE  answered[n] + Owed(n)' <= MostReplies(n) * delivered[n]
  <2> DEFINE r == IF answering' = n THEN replies' ELSE 0
             rest == MostReplies(n) * Times(m_commands', n)
             paid == MostReplies(n) * delivered[n]
  <2>1. Times(m_commands, n) = Times(m_commands', n) + (IF h = n THEN 1 ELSE 0)
    BY <1>1, <1>2, TimesTail DEF h
  <2>2. Times(m_commands', n) \in Nat
    BY <1>1, <1>2, HeadTailProperties, PlacesFinite
  <2>3. Owed(n)' = rest + r /\ Owed(n) = MostReplies(n) * Times(m_commands, n)
    <3>1. n # 0
      BY SmsNat
    <3>2. Owed(n) = MostReplies(n) * Times(m_commands, n) + 0
      BY <1>2, <3>1 DEF Owed
    <3>3. MostReplies(n) * Times(m_commands, n) \in Nat
      BY <1>1, PlacesFinite, MostRepliesLemma
    <3>4. Owed(n)' = rest + r
      BY DEF Owed, Times, Places
    <3> QED
      BY <3>2, <3>3, <3>4
  <2>4. rest \in Nat /\ paid \in Nat /\ answered[n] \in Nat
        /\ MostReplies(n) \in Nat
    BY <1>1, <2>2, MostRepliesLemma DEF MainTypeOK
  <2>5. answered[n] + Owed(n) <= paid
    BY <1>1 DEF RepliesInv
  <2>6. CASE h = n
    <3>1. Owed(n) = rest + MostReplies(n)
      BY <2>1, <2>2, <2>3, <2>6, MostRepliesLemma
    <3>2. r \in Nat /\ r <= MostReplies(n)
      BY <1>2, <2>4, <2>6
    <3> HIDE DEF r, rest, paid
    <3>3. answered[n] + Owed(n)' <= paid
      BY <2>3, <2>4, <2>5, <3>1, <3>2
    <3> QED
      BY <3>3 DEF paid
  <2>7. CASE h # n
    <3>1. Times(m_commands, n) = Times(m_commands', n)
      BY <2>1, <2>2, <2>7
    <3>2. Owed(n) = rest
      BY <2>3, <3>1
    <3>3. r = 0
      BY <1>2, <2>7, SmsNat
    <3> HIDE DEF r, rest, paid
    <3>4. answered[n] + Owed(n)' <= paid
      BY <2>3, <2>4, <2>5, <3>2, <3>3
    <3> QED
      BY <3>4 DEF paid
  <2> QED
    BY <2>6, <2>7
<1> QED
  BY <1>2, <1>4, <1>5 DEF RepliesSafe, RepliesInv

\* Each SMS that is sent, or that is lost before it is, is one reply less owed.
LEMMA RepliesSend ==
    ASSUME ReceiverSafe, RepliesSafe, SendSms
    PROVE  RepliesSafe'
<1>1. /\ MainTypeOK /\ PlaceInv /\ RepliesInv /\ m_commands \in Seq(Received)
      /\ delivered \in [Sms -> Nat]
  BY DEF ReceiverSafe, RepliesSafe, GivenTypeOK
<1>2. UNCHANGED <<m_commands, delivered>> /\ place = "send" /\ replies > 0
  BY <1>1 DEF SendSms, receiverVars, PlaceInv
<1>3. CASE UNCHANGED mainVars
  BY <1>2, <1>3, RepliesFrame
<1>4. CASE /\ Sent
           /\ \/ answered' = answered
              \/ /\ answering # 0
                 /\ answered' = [answered EXCEPT ![answering] = @ + 1]
  <2>1. /\ replies' = replies - 1 /\ replies' \in 0 .. MaxReplies
        /\ \/ replies > 1 /\ UNCHANGED <<place, answering>>
           \/ replies = 1 /\ place' = "idle" /\ answering' = 0
    BY <1>1, <1>2, <1>4, RepliesAssumption DEF Sent, MainTypeOK
  <2>2. MainTypeOK' /\ PlaceInv'
    BY <1>1, <1>2, <1>4, <2>1 DEF MainTypeOK, PlaceInv
  <2>3. ASSUME NEW n \in Sms
        PROVE  answered'[n] + Owed(n)' <= MostReplies(n) * delivered[n]
    <3> DEFINE r == IF answering = n THEN replies ELSE 0
               waiting == MostReplies(n) * Times(m_commands, n)
               paid == MostReplies(n) * delivered[n]
    <3>1. Owed(n) = waiting + r /\ answered[n] + Owed(n) <= paid
      BY <1>1 DEF Owed, RepliesInv
    <3>2. Owed(n)' = waiting + (IF answering' = n THEN replies' ELSE 0)
      BY <1>2 DEF Owed, Times, Places
    <3>3. /\ waiting \in Nat /\ paid \in Nat /\ answered[n] \in Nat
          /\ replies \in Nat /\ n # 0
      <4>1. Times(m_commands, n) \in Nat
        BY <1>1, PlacesFinite
      <4>2. delivered[n] \in Nat /\ answered[n] \in Nat /\ replies \in Nat
        BY <1>1, RepliesAssumption DEF MainTypeOK
      <4>3. waiting \in Nat /\ paid \in Nat
        BY <4>1, <4>2, MostRepliesLemma
      <4> HIDE DEF waiting, paid
      <4> QED
        BY <4>2, <4>3, SmsNat
    <3>4. answered'[n] \in {answered[n],
                            answered[n] + (IF answering = n THEN 1 ELSE 0)}
      BY <1>1, <1>4 DEF MainTypeOK
    <3> HIDE DEF waiting, paid
    <3>5. answered'[n] + Owed(n)' <= paid
      BY <1>2, <2>1, <3>1, <3>2, <3>3, <3>4
    <3> QED
      BY <3>5 DEF paid
  <2> QED
    BY <1>2, <2>2, <2>3 DEF RepliesSafe, RepliesInv
<1> QED
  BY <1>3, <1>4 DEF SendSms

LEMMA RepliesStep ==
    ASSUME ReceiverSafe, RepliesSafe, [Next]_vars
    PROVE  RepliesSafe'
<1>1. CASE SmsArrives \/ Start \/ StartThread \/ Smsd \/ TimePasses \/ Cleanup
           \/ UNCHANGED vars
  BY <1>1, RepliesFrame
  DEF SmsArrives, SmsArrive, WriteSms, Start, StartThread, StartReceiver,
      Smsd, TimePasses, Cleanup, vars, receiverVars
<1>2. CASE ReceiveSms
  <2>1. UNCHANGED mainVars
    BY <1>2 DEF ReceiveSms
  <2>2. CASE ReadEvents
    BY <2>1, <2>2, RepliesFrame DEF ReadEvents
  <2>3. CASE ParseSMS
    <3>1. CASE DeliverSms
      BY <2>1, <2>3, <3>1, RepliesDeliver
    <3>2. CASE RejectSms
      BY <2>1, <3>2, RepliesFrame DEF RejectSms
    <3> QED
      BY <2>3, <3>1, <3>2 DEF ParseSMS
  <2> QED
    BY <1>2, <2>2, <2>3 DEF ReceiveSms, ReceiverThread
<1>3. CASE Crash
  BY <1>3, RepliesCrash
<1>4. CASE ParseCommand
  BY <1>4, RepliesTake
<1>5. CASE SendSms
  BY <1>5, RepliesSend
<1>6. CASE SendNotice
  <2>1. /\ place = "idle" /\ place' = "send" /\ answering' = 0 /\ replies' = 1
        /\ UNCHANGED <<m_commands, delivered, answered>>
    BY <1>6 DEF SendNotice, Idle, receiverVars
  <2>2. answering = 0 /\ MainTypeOK /\ RepliesInv
    BY <2>1 DEF RepliesSafe, PlaceInv
  <2>3. MainTypeOK' /\ PlaceInv'
    BY <2>1, <2>2, RepliesAssumption DEF MainTypeOK, PlaceInv
  <2>4. \A n \in Sms : Owed(n)' = Owed(n)
    BY <2>1, <2>2, SmsNat DEF Owed, Times, Places
  <2> QED
    BY <2>1, <2>2, <2>3, <2>4 DEF RepliesSafe, RepliesInv
<1> QED
  BY <1>1, <1>2, <1>3, <1>4, <1>5, <1>6 DEF Next, MainThread

LEMMA RepliesInvariant == Spec => []RepliesSafe
<1>1. Init => RepliesSafe
  <2> SUFFICES ASSUME Init PROVE RepliesSafe
    OBVIOUS
  <2>1. MainTypeOK /\ PlaceInv /\ m_commands = <<>> /\ answering = 0
        /\ replies = 0
    BY RepliesAssumption DEF Init, ReceiverInit, MainTypeOK, PlaceInv
  <2>2. ASSUME NEW n \in Sms
        PROVE  answered[n] + Owed(n) <= MostReplies(n) * delivered[n]
    <3>1. Places(m_commands, n) = {}
      BY <2>1 DEF Places
    <3>2. Times(m_commands, n) = 0
      BY <3>1, FS_EmptySet DEF Times
    <3>3. MostReplies(n) * 0 = 0
      BY MostRepliesLemma
    <3>4. Owed(n) = 0
      BY <2>1, <3>2, <3>3 DEF Owed
    <3>5. answered[n] = 0 /\ delivered[n] = 0
      BY DEF Init, ReceiverInit
    <3> QED
      BY <3>3, <3>4, <3>5
  <2> QED
    BY <2>1, <2>2 DEF RepliesSafe, RepliesInv
<1>2. ReceiverSafe /\ RepliesSafe /\ [Next]_vars => RepliesSafe'
  BY RepliesStep
<1> QED
  BY <1>1, <1>2, ReceiverInvariant, PTL DEF Spec

\* Nobody gets more replies to an SMS than its command has, times how often it
\* was given to parseCommands.
THEOREM AnswersOwed == Spec => []AnswersAreOwed
<1>1. ReceiverSafe /\ RepliesSafe => AnswersAreOwed
  <2> SUFFICES ASSUME ReceiverSafe, RepliesSafe, NEW n \in Sms
               PROVE  answered[n] <= MostReplies(n) * delivered[n]
    BY DEF AnswersAreOwed
  <2> DEFINE paid == MostReplies(n) * delivered[n]
  <2>1. Times(m_commands, n) \in Nat
    BY PlacesFinite DEF ReceiverSafe, GivenTypeOK
  <2>2. answered[n] \in Nat /\ delivered[n] \in Nat /\ replies \in Nat
        /\ answered[n] + Owed(n) <= paid
    BY RepliesAssumption
    DEF RepliesSafe, RepliesInv, MainTypeOK, ReceiverSafe, GivenTypeOK
  <2>3. MostReplies(n) * Times(m_commands, n) \in Nat /\ paid \in Nat
    BY <2>1, <2>2, MostRepliesLemma
  <2>4. Owed(n) \in Nat
    BY <2>2, <2>3 DEF Owed
  <2> HIDE DEF paid
  <2>5. answered[n] <= paid
    BY <2>2, <2>3, <2>4
  <2> QED
    BY <2>5 DEF paid
<1> QED
  BY <1>1, ReceiverInvariant, RepliesInvariant, PTL

\* Type correctness of the composition.
THEOREM GatewayTypeCorrect == Spec => []TypeOK
<1>1. SenderSafe /\ ReceiverSafe /\ RepliesSafe => TypeOK
  <2> SUFFICES ASSUME SenderSafe, ReceiverSafe, RepliesSafe PROVE TypeOK
    OBVIOUS
  <2>1. delivered \in [Sms -> 0 .. Writes]
    <3> SUFFICES ASSUME NEW n \in Sms PROVE delivered[n] \in 0 .. Writes
      BY DEF ReceiverSafe, GivenTypeOK
    <3>1. /\ delivered[n] + Awaits(n) <= incoming[n] /\ Awaits(n) \in {0, 1, 2}
          /\ delivered[n] \in Nat /\ incoming[n] \in 0 .. Writes
      BY DEF ReceiverSafe, WritesInv, Awaits, GivenTypeOK, WrittenTypeOK
    <3> QED
      BY <3>1, ReceiverAssumption
  <2>2. ReceiverTypeOK
    BY <2>1
    DEF ReceiverSafe, ReceiverTypeOK, WrittenTypeOK, ThreadTypeOK, GivenTypeOK
  <2> QED
    BY <2>2 DEF TypeOK, SenderSafe, RepliesSafe, MainTypeOK
<1> QED
  BY <1>1, SenderInvariant, ReceiverInvariant, RepliesInvariant, PTL
=============================================================================
