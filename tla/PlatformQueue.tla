---------------------------- MODULE PlatformQueue ----------------------------
(***************************************************************************)
(* WinPlatform with its SignaledQueue, and the futures that it answers.    *)
(*                                                                         *)
(* Fibers of the worker ask for native windows or dialogs: they push a     *)
(* promise into the queue of the platform thread and await its future.     *)
(* There is one worker, so that one fiber at a time is between two         *)
(* suspensions, but the platform thread runs beside it.  At the end the    *)
(* main thread stops the worker, finalizes the queue and joins the         *)
(* platform thread.  waitPop() is only called where it does not wait, by   *)
(* the one consumer of a queue that is not empty or is finalized; the      *)
(* mutex covers a push and a pop, which are single steps here.             *)
(***************************************************************************)
EXTENDS Naturals, Sequences, SequencesExt

CONSTANTS
    Requester,      \* fibers that push a promise and await its future
    Once,           \* those that push once, whatever try_push() returns
    Nobody,
    RingSize        \* how many elements the RingBuffer takes: 31

\* Definitions marked "Faulty" are not part of the model, see CompositePipeline.

ASSUME QueueAssumption ==
    Once \subseteq Requester /\ Nobody \notin Requester /\ RingSize \in Nat \ {0}

VARIABLES
    fiber,          \* what a requester is about to do
    running,        \* the fiber that the worker runs
    armed,          \* its promise has not been moved from
    returned,       \* future_state::_returned
    constructed,    \* the value of the future_state is there
    early,          \* history: an await has returned without the value
    queue,          \* SignaledQueue::_buffer
    finalized,      \* SignaledQueue::_mode
    workerUp,       \* the worker has not been stopped
    platform        \* the platform thread: where it is, and whom it serves

fibers == <<fiber, running, armed>>
futures == <<returned, constructed>>
platformVars == <<fibers, futures, early, queue, finalized, workerUp, platform>>

Entry == [for : Requester, armed : BOOLEAN]

QueueTypeOK ==
    /\ fiber \in [Requester -> {"idle", "test", "push", "await", "dropped"}]
    /\ running \in Requester \cup {Nobody}
    /\ armed \in [Requester -> BOOLEAN]
    /\ returned \in [Requester -> BOOLEAN]
    /\ constructed \in [Requester -> BOOLEAN]
    /\ early \in BOOLEAN
    /\ queue \in Seq(Entry) /\ Len(queue) <= RingSize
    /\ finalized \in BOOLEAN /\ workerUp \in BOOLEAN
    /\ platform \in [at : {"poll", "drain", "last", "call", "construct", "ended", "crashed"},
                     back : {"drain", "last"},
                     for : Requester \cup {Nobody}, armed : BOOLEAN]

QueueInit ==
    /\ fiber = [c \in Requester |-> "idle"] /\ running = Nobody
    /\ armed = [c \in Requester |-> FALSE]
    /\ returned = [c \in Requester |-> FALSE] /\ constructed = returned
    /\ early = FALSE /\ queue = <<>> /\ finalized = FALSE /\ workerUp = TRUE
    /\ platform = [at |-> "poll", back |-> "drain", for |-> Nobody, armed |-> FALSE]
------------------------------------------------------------------------------
\* makeNativeWindow() and its like: a promise and its future.
Request(c) ==
    /\ workerUp /\ running = Nobody /\ fiber[c] = "idle"
    /\ running' = c
    /\ fiber' = [fiber EXCEPT ![c] = "test"]
    /\ armed' = [armed EXCEPT ![c] = TRUE]
    /\ returned' = [returned EXCEPT ![c] = FALSE]
    /\ constructed' = [constructed EXCEPT ![c] = FALSE]
    /\ UNCHANGED <<early, queue, finalized, workerUp, platform>>

\* The mode is tested before the lock is taken.  A finalized queue takes nothing.
TestMode(c) ==
    /\ workerUp /\ running = c /\ fiber[c] = "test"
    /\ IF finalized
       THEN fiber' = [fiber EXCEPT ![c] = "dropped"] /\ running' = Nobody
       ELSE fiber' = [fiber EXCEPT ![c] = "push"] /\ UNCHANGED running
    /\ UNCHANGED <<armed, futures, early, queue, finalized, workerUp, platform>>

HasRoom == Len(queue) < RingSize

\* RingBuffer::try_push() of a function that the promise has been moved into: it is
\* gone even if there is no room, and the loop then tries again with what is left.
Push(c) ==
    /\ workerUp /\ running = c /\ fiber[c] = "push"
    /\ armed' = [armed EXCEPT ![c] = FALSE]
    /\ IF HasRoom
       THEN /\ queue' = Append(queue, [for |-> c, armed |-> armed[c]])
            /\ fiber' = [fiber EXCEPT ![c] = "await"] /\ running' = Nobody
       ELSE /\ fiber' = [fiber EXCEPT ![c] = IF c \in Once THEN "await" ELSE "test"]
            /\ running' = IF c \in Once THEN Nobody ELSE c
            /\ UNCHANGED queue
    /\ UNCHANGED <<futures, early, finalized, workerUp, platform>>

\* await(): the fiber is resumed when the future is marked, and reads its value.
Resume(c) ==
    /\ workerUp /\ running = Nobody /\ fiber[c] = "await" /\ returned[c]
    /\ fiber' = [fiber EXCEPT ![c] = "idle"]
    /\ early' = (early \/ ~constructed[c])
    /\ UNCHANGED <<running, armed, futures, queue, finalized, workerUp, platform>>
------------------------------------------------------------------------------
\* The loop of the thread: events are polled, unless the queue has been finalized.
NextRound == IF finalized THEN "last" ELSE "drain"

PlatformPoll ==
    /\ platform.at = "poll"
    /\ platform' = [platform EXCEPT !.at = NextRound]
    /\ UNCHANGED <<fibers, futures, early, queue, finalized, workerUp>>

\* processInternal() takes what is in the queue, the end of the thread what is left.
PlatformPop ==
    /\ platform.at \in {"drain", "last"}
    /\ IF queue = <<>>
       THEN /\ platform' = [platform EXCEPT !.at = IF @ = "drain" THEN "poll" ELSE "ended"]
            /\ UNCHANGED queue
       ELSE /\ platform' = [at |-> "call", back |-> platform.at, for |-> Head(queue).for,
                            armed |-> Head(queue).armed]
            /\ queue' = Tail(queue)
    /\ UNCHANGED <<fibers, futures, early, finalized, workerUp>>

\* Faulty Call: the result is not passed to the future.
CallUnanswered ==
    /\ platform.at = "call"
    /\ platform' = [platform EXCEPT !.at = IF platform.armed THEN "construct" ELSE "crashed"]
    /\ UNCHANGED <<fibers, futures, early, queue, finalized, workerUp>>
\* promise_state::step(): the function is called, and future_state::set() marks the
\* future.  What has been moved from has no state to call.
Call ==
    /\ platform.at = "call"
    /\ IF platform.armed
       THEN /\ returned' = [returned EXCEPT ![platform.for] = TRUE]
            /\ platform' = [platform EXCEPT !.at = "construct"]
       ELSE platform' = [platform EXCEPT !.at = "crashed"] /\ UNCHANGED returned
    /\ UNCHANGED <<fibers, constructed, early, queue, finalized, workerUp>>

\* Then set() constructs the value, of the future that it has marked: a fiber that
\* goes on early may have asked again, for a future that is not marked yet.
Construct ==
    /\ platform.at = "construct"
    /\ constructed' = [constructed EXCEPT ![platform.for] = returned[platform.for]]
    /\ platform' = [at |-> platform.back, back |-> "drain", for |-> Nobody, armed |-> FALSE]
    /\ UNCHANGED <<fibers, returned, early, queue, finalized, workerUp>>

\* shutdown(): CompScheduler::destroy() joins the worker between two fibers ...
StopWorker ==
    /\ workerUp /\ running = Nobody
    /\ workerUp' = FALSE
    /\ UNCHANGED <<fibers, futures, early, queue, finalized, platform>>

\* Faulty TidyPlatform: the platform is tidied before the scheduler is destroyed.
TidyPlatformFirst ==
    /\ ~finalized
    /\ finalized' = TRUE
    /\ UNCHANGED <<fibers, futures, early, queue, workerUp, platform>>

\* ... and then WinPlatform::tidy() finalizes the queue and joins its thread.
TidyPlatform ==
    /\ ~workerUp /\ ~finalized
    /\ finalized' = TRUE
    /\ UNCHANGED <<fibers, futures, early, queue, workerUp, platform>>

PlatformRests ==
    platform.at \in {"ended", "crashed"} /\ ~workerUp /\ finalized /\ UNCHANGED platformVars

WorkerRuns(c) == TestMode(c) \/ Push(c)
PlatformRuns == PlatformPoll \/ PlatformPop \/ Call \/ Construct

QueueNext ==
    \/ \E c \in Requester : Request(c)
    \/ \E c \in Requester : TestMode(c)
    \/ \E c \in Requester : Push(c)
    \/ \E c \in Requester : Resume(c)
    \/ PlatformPoll
    \/ PlatformPop
    \/ Call
    \/ Construct
    \/ StopWorker
    \/ TidyPlatform
    \/ PlatformRests

QueueSpec == QueueInit /\ [][QueueNext]_platformVars
------------------------------------------------------------------------------
(***************************************************************************)
(* Properties.                                                             *)
(***************************************************************************)
Answered(c) == returned[c] \/ fiber[c] \in {"idle", "test", "push"}

\* "While exiting, make sure queue is done": when the platform thread has ended,
\* every promise that was pushed has been called, also those of fibers that the
\* worker has left behind.
QueueDone ==
    platform.at = "ended" => queue = <<>> /\ \A c \in Requester : Answered(c)

\* The promise of a fiber that awaits is on its way: in the queue once, or being
\* called, or the future has been marked.  So no promise is lost or called twice.
PromiseOnItsWay ==
    \A c \in Requester :
        LET queued == {i \in DOMAIN queue : queue[i].for = c}
            called == platform.at = "call" /\ platform.for = c
        IN  IF fiber[c] = "await" /\ ~returned[c] /\ ~called
            THEN \E i \in DOMAIN queue : queued = {i} /\ queue[i].armed
            ELSE queued = {}

\* No function is called whose promise has been moved away by an earlier try_push().
NoEmptyCall == platform.at = "call" => platform.armed

\* Promises: none is lost, called twice or left behind at the end.
PromisesKept == QueueDone /\ PromiseOnItsWay /\ NoEmptyCall

\* An await ends, whoever else asks, unless the worker is stopped before.
AwaitsEnd ==
    \A c \in Requester : fiber[c] = "await" ~> (fiber[c] # "await" \/ ~workerUp)

\* The value that await() returns is the stored value of the future.
AwaitReturnsValue == ~early
==============================================================================
