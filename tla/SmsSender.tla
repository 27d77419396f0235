------------------------------ MODULE SmsSender ------------------------------
(***************************************************************************)
(* The SMS to send (SMSSender): each is a file of the outgoing directory   *)
(* of smstools, named after the process and a counter.  The SMS daemon     *)
(* takes files out of the directory; cleanupSMS deletes old ones, and the  *)
(* constructor, which runs at the first use, all of them.  The directory   *)
(* may not open and a file may not be removed: both go on without it.      *)
(*                                                                         *)
(* A file is a pair of a process number and a counter.  Time passes in     *)
(* Ticks; ages stop at MaxAge, which the code cannot tell from older ones. *)
(***************************************************************************)
EXTENDS Naturals, FiniteSets

CONSTANTS
    Pids,                  \* process numbers; one may be used again
    NoPid,
    SMS_TOO_OLD,           \* 15 minutes
    CLEANUP_SMS_PERIOD,    \* 60 minutes
    MaxCounter             \* bound on the SMS a process sends

ASSUME SenderAssumption ==
    /\ NoPid \notin Pids
    /\ SMS_TOO_OLD \in Nat /\ CLEANUP_SMS_PERIOD \in Nat
    /\ SMS_TOO_OLD <= CLEANUP_SMS_PERIOD
    /\ MaxCounter \in Nat

VARIABLES
    pid,            \* the process that runs, NoPid for none
    instantiated,   \* has SMSSender::instance() been called?
    m_counter,
    m_old_files,    \* the files to delete later
    outgoing,       \* the directory: the age of each file
    due,            \* time until the clean-up timer expires
    kept,           \* history: files of earlier processes that the constructor
                    \* could not remove
    replaced        \* history: has a file been replaced that it did not try to
                    \* remove?

senderVars == <<pid, instantiated, m_counter, m_old_files, outgoing, due,
                kept, replaced>>

File == Pids \X (0 .. MaxCounter)
MaxAge == CLEANUP_SMS_PERIOD + 1
Spooled == DOMAIN outgoing
\* The directory without the files `gone'.
Without(gone) == [f \in Spooled \ gone |-> outgoing[f]]
Old(f) == outgoing[f] >= SMS_TOO_OLD
-----------------------------------------------------------------------------
SenderInit ==
    /\ pid = NoPid
    /\ instantiated = FALSE
    /\ m_counter = 0
    /\ m_old_files = {}
    /\ outgoing = [f \in {} |-> 0]
    /\ due = CLEANUP_SMS_PERIOD
    /\ kept = {}
    /\ replaced = FALSE

\* A process is started: under any number, one that was used before too.
StartSender(p) ==
    /\ pid = NoPid
    /\ pid' = p
    /\ due' = CLEANUP_SMS_PERIOD
    /\ UNCHANGED <<instantiated, m_counter, m_old_files, outgoing, kept,
                   replaced>>

\* The process ends, its memory with it; the directory remains.
StopSender ==
    /\ pid' = NoPid
    /\ instantiated' = FALSE
    /\ m_counter' = 0
    /\ m_old_files' = {}
    /\ kept' = {}
    /\ UNCHANGED <<outgoing, due, replaced>>

\* Mutant: the constructor leaves the directory as it is.
InstantiateOnly ==
    /\ instantiated' = TRUE
    /\ UNCHANGED <<outgoing, kept>>

\* The constructor: cleanOutgoingDir deletes what earlier processes left, but
\* for the files it cannot remove: all, if the directory does not open.
Instantiate ==
    /\ instantiated' = TRUE
    /\ kept' \in SUBSET Spooled
    /\ outgoing' = Without(Spooled \ kept')

\* SMSSender::instance(), before sendSMS.
Instance ==
    /\ pid # NoPid /\ ~instantiated
    /\ Instantiate
    /\ UNCHANGED <<pid, m_counter, m_old_files, due, replaced>>

\* sendSMS with a 3G module: the file appears in the directory by a rename.
SpoolSms ==
    /\ instantiated
    /\ m_counter < MaxCounter
    /\ LET f == <<pid, m_counter>>
       IN  /\ outgoing' = [g \in Spooled \cup {f} |->
                               IF g = f THEN 0 ELSE outgoing[g]]
           /\ m_old_files' = m_old_files \cup {f}
           /\ kept' = kept \ {f}
           /\ replaced' = (replaced \/ f \in Spooled \ kept)
    /\ m_counter' = m_counter + 1
    /\ UNCHANGED <<pid, instantiated, due>>

\* sendSMS without a 3G module, or whose rename fails after a number was used.
DiscardSms ==
    /\ instantiated
    /\ m_counter' \in {m_counter} \cup ({m_counter + 1} \cap 0 .. MaxCounter)
    /\ UNCHANGED <<pid, instantiated, m_old_files, outgoing, due, kept,
                   replaced>>

\* Mutant: the test on the age is inverted.
DeleteYoung == outgoing' = Without({f \in m_old_files \cap Spooled : ~Old(f)})

\* The files that are older than SMS_TOO_OLD are deleted, if they can be.
DeleteOld ==
    \E deleted \in SUBSET {f \in m_old_files \cap Spooled : Old(f)} :
        outgoing' = Without(deleted)

\* The timer has expired: cleanupSMS of the one instance.  All files leave
\* m_old_files, the young ones it keeps and those it could not delete as well.
CleanupSMS ==
    /\ pid # NoPid /\ due = 0
    /\ due' = CLEANUP_SMS_PERIOD
    /\ m_old_files' = {}
    /\ \/ instantiated /\ DeleteOld /\ UNCHANGED <<instantiated, kept>>
       \/ ~instantiated /\ Instantiate
    /\ UNCHANGED <<pid, m_counter, replaced>>

\* The SMS daemon has sent a file and takes it out of the directory.
TakeSms ==
    /\ \E f \in Spooled : outgoing' = Without({f}) /\ kept' = kept \ {f}
    /\ UNCHANGED <<pid, instantiated, m_counter, m_old_files, due, replaced>>

\* Time passes.  The main loop comes round every 50 ms: it serves the timer
\* before the next tick.
Tick ==
    /\ pid # NoPid => due > 0
    /\ due' = IF pid # NoPid THEN due - 1 ELSE due
    /\ outgoing' = [f \in Spooled |->
                        IF outgoing[f] < MaxAge THEN outgoing[f] + 1
                        ELSE MaxAge]
    /\ UNCHANGED <<pid, instantiated, m_counter, m_old_files, kept, replaced>>
-----------------------------------------------------------------------------
\* Every variable holds a value the state it stands for can hold.
SenderTypeOK ==
    /\ pid \in Pids \cup {NoPid}
    /\ instantiated \in BOOLEAN
    /\ m_counter \in 0 .. MaxCounter
    /\ m_old_files \subseteq File
    /\ Spooled \subseteq File
    /\ outgoing \in [Spooled -> 0 .. MaxAge]
    /\ due \in 0 .. CLEANUP_SMS_PERIOD
    /\ kept \subseteq File
    /\ replaced \in BOOLEAN

\* No SMS is replaced by a later one before it is sent, although a new process
\* may have the number of an old one and counts from 0 again, but for one that
\* the constructor of the new process tried in vain to remove.
NoSmsReplaced == ~replaced

\* As long as a process runs, the SMS it has spooled leave the directory only
\* to be sent, or when they are older than SMS_TOO_OLD: the constructor, which
\* deletes everything and runs in the middle of whatever first sends or cleans
\* up, never meets them, and the clean-up tells them apart by their age.
YoungSmsStay ==
    [][instantiated /\ ~TakeSms =>
           \A f \in Spooled \ Spooled' : Old(f)]_senderVars
=============================================================================
