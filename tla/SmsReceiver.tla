----------------------------- MODULE SmsReceiver -----------------------------
(***************************************************************************)
(* The thread that receives SMS (SMSReceiver::run): the SMS daemon writes  *)
(* each SMS to a file of the incoming directory; inotify queues an event   *)
(* for each modification; the thread reads the queue and parses the file   *)
(* the first event names (parseSMS), whose text the callback appends to    *)
(* m_commands (BaseStation::handleSMSCommand).                             *)
(*                                                                         *)
(* `receiver' is the place the thread has reached:                         *)
(*   "poll"   waiting for an event;                                        *)
(*   "parse"  an event was read, its file not yet;                         *)
(*   "down"   the process does not run, or not yet this thread.            *)
(***************************************************************************)
EXTENDS Naturals, Sequences

CONSTANTS
    MaxSms,          \* bound on the SMS that arrive, numbered in that order
    Writes,          \* the daemon writes a file in at most so many writes
    EventsPerRead    \* how many events the buffer of BUF_LEN bytes holds

ASSUME ReceiverAssumption ==
    MaxSms \in Nat /\ Writes \in Nat \ {0} /\ EventsPerRead \in Nat \ {0}

VARIABLES
    incoming,        \* how much of each file is written: all if Writes
    events,          \* the inotify events not yet read, by file
    receiver,
    event,           \* the file the thread is about to parse, 0 for none
    m_commands,      \* commands received: the SMS, and whether it is whole
    delivered,       \* history: how often each SMS was given to the callback
    understood,      \* history: the SMS of which the whole text was
    rejected         \* history: the SMS whose finished file parseSMS gave up

receiverVars ==
    <<incoming, events, receiver, event, m_commands, delivered, understood,
      rejected>>

Sms == 1 .. MaxSms
Whole(n) == incoming[n] = Writes
Received == [sms : Sms, whole : BOOLEAN]

\* What becomes of the SMS file `n' if it is parsed now.
Text(n) == [sms |-> n, whole |-> Whole(n)]
-----------------------------------------------------------------------------
ReceiverInit ==
    /\ incoming = [n \in Sms |-> 0]
    /\ events = <<>>
    /\ receiver = "down"
    /\ event = 0
    /\ m_commands = <<>>
    /\ delivered = [n \in Sms |-> 0]
    /\ understood = {}
    /\ rejected = {}

\* inotify drops an event that is equal to the last one in the queue, and
\* tells nobody while there is no watch.
Notified(n) ==
    CASE receiver = "down"                             -> <<>>
      [] events # <<>> /\ events[Len(events)] = n      -> events
      [] OTHER                                         -> Append(events, n)

\* The SMS daemon writes its files one after the other, each in one write or
\* in several; the daemon is a process of its own, that goes on without the
\* base station.
WriteSms(n) ==
    /\ ~Whole(n)
    /\ \A m \in 1 .. n - 1 : Whole(m)
    /\ \E k \in incoming[n] + 1 .. Writes :
           incoming' = [incoming EXCEPT ![n] = k]
    /\ events' = Notified(n)
    /\ UNCHANGED <<receiver, event, m_commands, delivered, understood, rejected>>

\* Mutant: the files that are already there are taken for new ones.
StartWithBacklog ==
    /\ receiver = "down"
    /\ receiver' = "poll"
    /\ events' = SelectSeq([n \in Sms |-> n], Whole)
    /\ UNCHANGED <<incoming, event, m_commands, delivered, understood, rejected>>

\* start(), up to the creation of the watch: what arrived before is not seen.
StartReceiver ==
    /\ receiver = "down"
    /\ receiver' = "poll"
    /\ UNCHANGED <<incoming, events, event, m_commands, delivered, understood,
                   rejected>>

\* The end of the process, with its inotify queue and its commands.
StopReceiver ==
    /\ receiver' = "down"
    /\ events' = <<>>
    /\ event' = 0
    /\ m_commands' = <<>>
    /\ UNCHANGED <<incoming, delivered, understood, rejected>>

\* Mutant: the buffer's last event is taken, and the earlier ones are lost.
ReadLastEvent ==
    /\ receiver = "poll"
    /\ events # <<>>
    /\ LET k == IF Len(events) < EventsPerRead THEN Len(events)
                ELSE EventsPerRead
       IN  event' = events[k] /\ events' = SubSeq(events, k + 1, Len(events))
    /\ receiver' = "parse"
    /\ UNCHANGED <<incoming, m_commands, delivered, understood, rejected>>

\* read() takes every event that fits the buffer; the code looks at the first.
ReadEvents ==
    /\ receiver = "poll"
    /\ events # <<>>
    /\ event' = Head(events)
    /\ events' = SubSeq(events, EventsPerRead + 1, Len(events))
    /\ receiver' = "parse"
    /\ UNCHANGED <<incoming, m_commands, delivered, understood, rejected>>

\* As much of the file as is written is taken for the SMS and given to the
\* callback.
DeliverSms ==
    /\ m_commands' = Append(m_commands, Text(event))
    /\ delivered' = [delivered EXCEPT ![event] = @ + 1]
    /\ understood' = IF Whole(event) THEN understood \cup {event}
                     ELSE understood
    /\ UNCHANGED rejected

\* The file does not open, perhaps for want of a descriptor, or its first line,
\* with the sender, is not there, or not yet.
RejectSms ==
    /\ rejected' = IF Whole(event) THEN rejected \cup {event} ELSE rejected
    /\ UNCHANGED <<m_commands, delivered, understood>>

ParseSMS ==
    /\ receiver = "parse"
    /\ DeliverSms \/ RejectSms
    /\ receiver' = "poll"
    /\ event' = 0
    /\ UNCHANGED <<incoming, events>>

SmsArrive == \E n \in Sms : WriteSms(n)
ReceiverThread == ReadEvents \/ ParseSMS

ReceiverNext ==
    \/ SmsArrive
    \/ StartReceiver
    \/ receiver # "down" /\ StopReceiver
    \/ ReceiverThread

ReceiverSpec == /\ ReceiverInit /\ [][ReceiverNext]_receiverVars
                /\ WF_receiverVars(ReceiverThread)
-----------------------------------------------------------------------------
\* Every variable holds a value the state it stands for can hold.
ReceiverTypeOK ==
    /\ incoming \in [Sms -> 0 .. Writes]
    /\ events \in Seq(Sms)
    /\ receiver \in {"down", "poll", "parse"}
    /\ event \in IF receiver = "parse" THEN Sms ELSE {0}
    /\ m_commands \in Seq(Received)
    /\ delivered \in [Sms -> 0 .. Writes]
    /\ understood \subseteq Sms
    /\ rejected \subseteq Sms

\* The number of SMS of which the daemon has written anything.
Arrived ==
    IF \E n \in Sms : incoming[n] > 0
    THEN CHOOSE n \in Sms :
             /\ incoming[n] > 0
             /\ \A m \in Sms : m > n => incoming[m] = 0
    ELSE 0

\* SMS are given to the callback in the order in which they arrived, and none
\* more often than its file was written, across restarts: a command is never
\* executed again because the base station was started again.
Delivery == INSTANCE SmsDelivery
    WITH MaxCopies <- Writes, arrived <- Arrived
DeliverySpec == Delivery!Spec

\* The file the thread parses now or next: the next read() takes an event of it,
\* or it is half written and its next write finds the queue empty.
Attended(n) ==
    \/ event = n
    \/ events # <<>> /\ Head(events) = n
    \/ events = <<>> /\ incoming[n] > 0 /\ ~Whole(n)

\* parseSMS returns without a command although the file is finished.
GivesUp(n) == event = n /\ event' = 0 /\ Whole(n) /\ UNCHANGED delivered

\* Once it is an SMS's turn, it stays its turn until its whole text was given to
\* the callback, whatever is written meanwhile, and however often the file is
\* parsed too early, unless the process ends or the finished file is given up.
KeepsTurn(n) ==
    Attended(n) =>
        \/ Attended(n)'
        \/ n \in understood'
        \/ GivesUp(n)
        \/ receiver' = "down"
FirstStaysFirst == [][\A n \in Sms : KeepsTurn(n)]_receiverVars

\* An SMS whose first event the next read() takes is understood once its file
\* is finished, unless the process ends or the finished file is given up: the
\* file may be half written when it is parsed, or not open, but then its next
\* modification finds the queue empty.
FirstIsUnderstood ==
    \A n \in Sms :
        events # <<>> /\ Head(events) = n
            ~> \/ n \in understood \cup rejected
               \/ receiver = "down"
               \/ [](~Whole(n))

\* base_station/README.md: all text messages are parsed by the base station,
\* those whose file cannot be opened or has no sender excepted.
Queued(n) == \E i \in DOMAIN events : events[i] = n
AllTextMessagesParsed ==
    \A n \in Sms :
        Queued(n) /\ Whole(n)
            ~> n \in understood \cup rejected \/ receiver = "down"
=============================================================================
