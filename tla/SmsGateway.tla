----------------------------- MODULE SmsGateway ------------------------------
(***************************************************************************)
(* The base station as seen from a telephone: SmsReceiver and SmsSender    *)
(* composed with the main thread, which takes a command from m_commands,   *)
(* executes it and replies (BaseStation::parseCommands), and which sends   *)
(* notices of its own (check3G, checkWifi, sendBootMsg...).  What commands *)
(* do to the heaters is module BaseStation; here a command is an SMS that  *)
(* is answered or not.                                                     *)
(*                                                                         *)
(* `place' is the place the main thread has reached:                       *)
(*   "idle"  between two commands or two handlers of process();            *)
(*   "send"  it is about to call SMSSender::instance().sendSMS().          *)
(***************************************************************************)
EXTENDS SmsReceiver, SmsSender

CONSTANTS
    DebugLogs,    \* the SMS whose text is DEBUG LOG, or begins with it
    MaxReplies    \* how many SMS may answer that command (4)

ASSUME RepliesAssumption == MaxReplies \in Nat \ {0}

VARIABLES
    place,
    answering,    \* the SMS that is being answered, 0 for a notice
    replies,      \* how many more SMS are to be sent in this place
    answered      \* history: the replies spooled to each SMS

mainVars == <<place, answering, replies, answered>>
vars == <<receiverVars, senderVars, mainVars>>

\* How many SMS may answer the command in SMS `n': DEBUG LOG is answered with one
\* for every 512 bytes of its result, the other commands with one.
MostReplies(n) == IF n \in DebugLogs THEN MaxReplies ELSE 1

running == pid # NoPid
Idle == running /\ place = "idle"
-----------------------------------------------------------------------------
Init ==
    /\ ReceiverInit
    /\ SenderInit
    /\ place = "idle"
    /\ answering = 0
    /\ replies = 0
    /\ answered = [n \in Sms |-> 0]

\* main() constructs the base station...
Start ==
    /\ \E p \in Pids : StartSender(p)
    /\ UNCHANGED <<receiverVars, mainVars>>

\* ...and then starts the thread.
StartThread ==
    /\ running
    /\ StartReceiver
    /\ UNCHANGED <<senderVars, mainVars>>

\* The process ends, by DEBUG REBOOT too.
Crash ==
    /\ running
    /\ StopReceiver
    /\ StopSender
    /\ place' = "idle"
    /\ answering' = 0
    /\ replies' = 0
    /\ UNCHANGED answered

SmsArrives == SmsArrive /\ UNCHANGED <<senderVars, mainVars>>
ReceiveSms == ReceiverThread /\ UNCHANGED <<senderVars, mainVars>>
-----------------------------------------------------------------------------
\* Mutant: the command stays in the queue while it is answered.
AnswerHead ==
    /\ place' = "send"
    /\ answering' = Head(m_commands).sms
    /\ replies' \in 1 .. MostReplies(answering')
    /\ UNCHANGED m_commands

\* A command that is answered.
AnswerCommand ==
    /\ place' = "send"
    /\ answering' = Head(m_commands).sms
    /\ replies' \in 1 .. MostReplies(answering')
    /\ m_commands' = Tail(m_commands)

\* A command of a stranger, or one that has no reply.
IgnoreCommand ==
    /\ m_commands' = Tail(m_commands)
    /\ UNCHANGED <<place, answering, replies>>

ParseCommand ==
    /\ Idle
    /\ m_commands # <<>>
    /\ AnswerCommand \/ IgnoreCommand
    /\ UNCHANGED <<incoming, events, receiver, event, delivered, understood,
                   rejected, senderVars, answered>>

\* A notice of one of the handlers.
SendNotice ==
    /\ Idle
    /\ place' = "send"
    /\ answering' = 0
    /\ replies' = 1
    /\ UNCHANGED <<receiverVars, senderVars, answered>>

\* sendSMS has returned: the next reply, or the end of the command.
Sent ==
    /\ replies' = replies - 1
    /\ IF replies > 1 THEN UNCHANGED <<place, answering>>
       ELSE place' = "idle" /\ answering' = 0

\* sendSMS: the instance is made first, if there is none.
SendSms ==
    /\ running /\ place = "send"
    /\ \/ /\ Instance
          /\ UNCHANGED mainVars
       \/ /\ SpoolSms
          /\ answered' = IF answering = 0 THEN answered
                         ELSE [answered EXCEPT ![answering] = @ + 1]
          /\ Sent
       \/ /\ DiscardSms
          /\ Sent
          /\ UNCHANGED answered
    /\ UNCHANGED receiverVars

Cleanup ==
    /\ Idle
    /\ CleanupSMS
    /\ UNCHANGED <<receiverVars, mainVars>>

MainThread == ParseCommand \/ SendNotice \/ SendSms \/ Cleanup
-----------------------------------------------------------------------------
\* The SMS daemon and time.
Smsd == TakeSms /\ UNCHANGED <<receiverVars, mainVars>>
TimePasses == Tick /\ UNCHANGED <<receiverVars, mainVars>>

Next ==
    \/ Start
    \/ StartThread
    \/ Crash
    \/ SmsArrives
    \/ ReceiveSms
    \/ MainThread
    \/ Smsd
    \/ TimePasses

Spec == Init /\ [][Next]_vars

\* The thread is scheduled; it waits for nothing but events.
FairSpec == Spec /\ WF_vars(ReceiveSms)
-----------------------------------------------------------------------------
TypeOK ==
    /\ ReceiverTypeOK
    /\ SenderTypeOK
    /\ place \in {"idle", "send"}
    /\ answering \in Sms \cup {0}
    /\ replies \in 0 .. MaxReplies
    /\ answered \in [Sms -> Nat]

\* However often the base station was started again and SMS were parsed while
\* they were being written, nobody gets the replies to an SMS more often than it
\* was given to parseCommands: a reply that was sent is not sent again.
AnswersAreOwed ==
    \A n \in Sms : answered[n] <= MostReplies(n) * delivered[n]
=============================================================================
