----------------------------- MODULE ActionManager -----------------------------
(***************************************************************************)
(* The editor's ActionManager with its ActionLog and ActionDispatcher.     *)
(*                                                                         *)
(* Fibers call apply(), undo() and reapply().  The dispatcher passes the   *)
(* body of the action to exec() and awaits the signal of the action, which *)
(* the body clears when it starts and sets when it ends; the body writes   *)
(* its result through a reference into the frame of the caller.  There is  *)
(* one worker and all tasks have the same mask, so that the fibers take    *)
(* turns in one fifo (SameMaskInOrder of TaskSchedule) and only change     *)
(* where a body suspends or a caller awaits.                               *)
(*                                                                         *)
(* The actions are those of the repository: DelegateAction may be          *)
(* reversible, AutoImportAction is not and reports no failure,             *)
(* UnknownImport may fail, or applies an AutoImportAction from its body.   *)
(* None of them can be revoked: revoke() refuses or panics, so that a      *)
(* failed action always ends the program and ActionLog::fail() is never    *)
(* reached.                                                                *)
(***************************************************************************)
EXTENDS Naturals, Sequences, SequencesExt

CONSTANTS
    Client,         \* fibers that call the manager
    Action,
    NoAction,
    Inner,          \* Inner[a]: the action that the body of a applies, or NoAction
    Fails,          \* actions that fail
    Reversible,     \* actions for which isReversible()
    Suspends,       \* actions whose body suspends
    LogSize,        \* action_log_size
    MaxCalls        \* bound: calls of undo() and reapply()

\* Definitions marked "Faulty" are not part of the model, see CompositePipeline.

ASSUME ActionAssumption ==
    /\ Inner \in [Action -> Action \cup {NoAction}] /\ NoAction \notin Action
    \* A body creates the action that it applies.
    /\ \A a, b \in Action : Inner[a] = Inner[b] /\ Inner[a] # NoAction => a = b
    /\ Fails \subseteq Action /\ Reversible \subseteq Action \ Fails
    /\ Suspends \subseteq Action /\ Client \cap Action = {}
    /\ LogSize \in Nat \ {0} /\ MaxCalls \in Nat

\* A body that applies another action calls the manager like a client.
Caller == Client \cup Action
WorkEntry == [kind : {"caller", "apply", "undo", "revoke"}, id : Caller,
          at : {"start", "resume"}, by : Caller]

VARIABLES
    actionLog,      \* ActionLog::_log
    redoLog,        \* ActionLog::_relog
    finished,       \* SimpleAction::_finished
    work,           \* the fifo of the Schedule
    waits,          \* what a caller awaits, and the result in its frame
    applied,        \* history: the actions in the order in which they were logged
    undone,         \* history: how often the undo of an action was dispatched
    overlap,        \* history: undo() has met an action that is being applied
    stray,          \* a result has been written into a frame that is gone
    calls,          \* number of calls of undo() and reapply()
    ended           \* "no", or how the program has ended

actionVars == <<actionLog, redoLog, finished, work, waits, applied, undone, overlap,
                stray, calls, ended>>

ActionCall == [op : {"none", "apply", "undo", "revoke"}, act : Action \cup {NoAction},
         failed : BOOLEAN]
NoCall == [op |-> "none", act |-> NoAction, failed |-> FALSE]

ActionTypeOK ==
    /\ actionLog \in Seq(Action) /\ Len(actionLog) <= LogSize
    /\ redoLog \in Seq(Action)
    /\ finished \in [Action -> BOOLEAN]
    /\ work \in Seq(WorkEntry)
    /\ waits \in [Caller -> ActionCall]
    /\ applied \in Seq(Action)
    /\ undone \in [Action -> Nat]
    /\ overlap \in BOOLEAN /\ stray \in BOOLEAN
    /\ calls \in 0 .. MaxCalls
    /\ ended \in {"no", "panic", "null action"}

ActionInit ==
    /\ actionLog = <<>> /\ redoLog = <<>>
    /\ finished = [a \in Action |-> FALSE]
    /\ work = <<>> /\ waits = [c \in Caller |-> NoCall]
    /\ applied = <<>> /\ undone = [a \in Action |-> 0]
    /\ overlap = FALSE /\ stray = FALSE /\ calls = 0 /\ ended = "no"
------------------------------------------------------------------------------
Entered(kind, c, at, by) == [kind |-> kind, id |-> c, at |-> at, by |-> by]

\* Faulty storeLog: the log grows by one more than its size.
storeLogOneMore(a) ==
    Append(IF Len(actionLog) > LogSize THEN Tail(actionLog) ELSE actionLog, a)
\* Faulty storeLog: the entry goes to the front, where undo() takes it last.
storeLogFront(a) ==
    <<a>> \o (IF Len(actionLog) >= LogSize THEN Front(actionLog) ELSE actionLog)

\* ActionLog::storeLog()
storeLog(a) == Append(IF Len(actionLog) >= LogSize THEN Tail(actionLog) ELSE actionLog, a)

\* ActionLog::popLog() of a log that is not empty: what is left.
popLog == Front(actionLog)

\* ActionDispatcher: exec() of the body, then the caller awaits; rest is what the
\* fifo held.
Dispatched(rest, op, a, c) ==
    rest \o << Entered(op, a, "start", c), Entered("caller", c, "resume", c) >>
Awaiting(op, a) == [op |-> op, act |-> a, failed |-> FALSE]

\* apply(), up to the await of the dispatcher.
Apply(rest, c, a) ==
    /\ actionLog' = storeLog(a)
    /\ applied' = Append(applied, a)
    /\ work' = Dispatched(rest, "apply", a, c)
    /\ waits' = [waits EXCEPT ![c] = Awaiting("apply", a)]

Running == ended = "no"
InnerActions == {a \in Action : \E b \in Action : Inner[b] = a}

\* A client applies an action that it has created.
CallApply(c, a) ==
    /\ Running /\ waits[c] = NoCall
    /\ a \notin ToSet(applied) \cup InnerActions
    /\ Apply(work, c, a)
    /\ UNCHANGED <<redoLog, finished, undone, overlap, stray, calls, ended>>

InFlight(a) == \E i \in DOMAIN work : work[i].kind = "apply" /\ work[i].id = a

\* undo(): an action that is not reversible ends in todo_panic().
CallUndo(c) ==
    /\ Running /\ waits[c] = NoCall /\ calls < MaxCalls
    /\ calls' = calls + 1
    /\ actionLog # <<>>
    /\ actionLog' = popLog
    /\ LET a == Last(actionLog)
       IN  IF a \in Reversible
           THEN /\ work' = Dispatched(work, "undo", a, c)
                /\ waits' = [waits EXCEPT ![c] = Awaiting("undo", a)]
                /\ undone' = [undone EXCEPT ![a] = @ + 1]
                /\ overlap' = (overlap \/ InFlight(a))
                /\ UNCHANGED ended
           ELSE ended' = "panic" /\ UNCHANGED <<work, waits, undone, overlap>>
    /\ UNCHANGED <<redoLog, finished, applied, stray>>

\* reapply(): the test is inverted.  An action that was popped is dropped, and
\* without one the dispatcher is passed a null action.
CallReapply(c) ==
    /\ Running /\ waits[c] = NoCall /\ calls < MaxCalls
    /\ calls' = calls + 1
    /\ IF redoLog # <<>>
       THEN redoLog' = Front(redoLog) /\ UNCHANGED ended
       ELSE ended' = "null action" /\ UNCHANGED redoLog
    /\ UNCHANGED <<actionLog, finished, work, waits, applied, undone, overlap, stray>>
------------------------------------------------------------------------------
\* The worker turns to the front of the fifo.
Turn(kind, at) ==
    Running /\ work # <<>> /\ Head(work).kind = kind /\ Head(work).at = at

\* A caller awaits a signal that is not set: it is pushed again.
CallerWaits ==
    /\ Turn("caller", "resume")
    /\ ~finished[waits[Head(work).id].act]
    /\ work' = Append(Tail(work), Head(work))
    /\ UNCHANGED <<actionLog, redoLog, finished, waits, applied, undone, overlap,
                   stray, calls, ended>>

\* The await returns.  A failed apply is to be revoked; otherwise the call returns,
\* and if the caller is the body of an outer action then that goes on.
CallerResumes ==
    /\ Turn("caller", "resume")
    /\ LET c == Head(work).id  w == waits[c]
       IN  /\ finished[w.act]
           /\ IF w.op = "apply" /\ w.failed
              THEN /\ work' = Dispatched(Tail(work), "revoke", w.act, c)
                   /\ waits' = [waits EXCEPT ![c] = Awaiting("revoke", w.act)]
                   /\ UNCHANGED ended
              ELSE /\ work' = Tail(work)
                   /\ waits' = [waits EXCEPT ![c] = NoCall]
                   /\ ended' = IF w.op = "revoke" /\ w.failed THEN "panic" ELSE ended
    /\ UNCHANGED <<actionLog, redoLog, finished, applied, undone, overlap, stray, calls>>

\* Faulty setRunning: the signal of an earlier run stays set.
setRunningStale(a) == finished
\* setRunning()
setRunning(a) == [finished EXCEPT ![a] = FALSE]

\* Faulty setFinished: a failure returns early, without the signal.
setFinishedUnlessFailed(a) == IF a \in Fails THEN finished ELSE [finished EXCEPT ![a] = TRUE]
\* setFinished()
setFinished(a) == [finished EXCEPT ![a] = TRUE]

\* A body starts; it applies its inner action, or suspends, before it ends.
BodyStarts ==
    /\ Turn("apply", "start") \/ Turn("undo", "start")
    /\ LET e == Head(work)  a == e.id  later == [e EXCEPT !.at = "resume"]
       IN  /\ finished' = setRunning(a)
           /\ IF e.kind = "apply" /\ a \notin Fails /\ Inner[a] # NoAction
              THEN Apply(Append(Tail(work), later), a, Inner[a])
              ELSE /\ work' = IF a \in Suspends THEN Append(Tail(work), later)
                                                ELSE <<later>> \o Tail(work)
                   /\ UNCHANGED <<actionLog, applied, waits>>
    /\ UNCHANGED <<redoLog, undone, overlap, stray, calls, ended>>

\* A body ends, and its result is written through the reference of the lambda.
\* (Its fiber has only been pushed again while its inner call waits.)
BodyEnds ==
    /\ Turn("apply", "resume") \/ Turn("undo", "resume")
    /\ LET e == Head(work)  a == e.id  w == waits[e.by]
       IN  IF waits[a] # NoCall
           THEN work' = Append(Tail(work), e) /\ UNCHANGED <<finished, waits, stray>>
           ELSE /\ finished' = setFinished(a)
                /\ work' = Tail(work)
                /\ IF w.op = e.kind /\ w.act = a
                   THEN /\ waits' = [waits EXCEPT ![e.by].failed =
                                        (e.kind = "apply" /\ a \in Fails)]
                        /\ UNCHANGED stray
                   ELSE stray' = TRUE /\ UNCHANGED waits
    /\ UNCHANGED <<actionLog, redoLog, applied, undone, overlap, calls, ended>>

\* The body of revoke(): UnknownImport panics.
BodyRevokes ==
    /\ Turn("revoke", "start")
    /\ ended' = "panic"
    /\ UNCHANGED <<actionLog, redoLog, finished, work, waits, applied, undone, overlap,
                   stray, calls>>

\* The program has ended, or every call has been made and has returned.
ActionsRest ==
    /\ ~Running \/ (work = <<>> /\ calls = MaxCalls)
    /\ UNCHANGED actionVars

WorkerTurn ==
    CallerWaits \/ CallerResumes \/ BodyStarts \/ BodyEnds \/ BodyRevokes

ActionNext ==
    \/ \E c \in Client, a \in Action : CallApply(c, a)
    \/ \E c \in Client : CallUndo(c)
    \/ \E c \in Client : CallReapply(c)
    \/ CallerWaits
    \/ CallerResumes
    \/ BodyStarts
    \/ BodyEnds
    \/ BodyRevokes
    \/ ActionsRest

ActionSpec == ActionInit /\ [][ActionNext]_actionVars
------------------------------------------------------------------------------
(***************************************************************************)
(* Properties.                                                             *)
(***************************************************************************)

\* The log holds actions in the order in which they were applied, inner actions
\* after the outer one, and when it is full it is the oldest that is forgotten:
\* no action that has left the log to the front is newer than one in it.  The
\* undo of an action is dispatched once, and the log does not offer it again.
LogInOrder ==
    LET pos(a) == CHOOSE i \in DOMAIN applied : applied[i] = a
        left == {a \in ToSet(applied) : a \notin ToSet(actionLog) /\ undone[a] = 0}
    IN  /\ \A i, j \in DOMAIN actionLog : i < j => pos(actionLog[i]) < pos(actionLog[j])
        /\ Running => \A a \in left, b \in ToSet(actionLog) : pos(a) < pos(b)
        /\ \A a \in Action : undone[a] <= 1 /\ (undone[a] = 1 => a \notin ToSet(actionLog))

\* The result of a body finds the frame of the call that awaits it, although the
\* signal is shared by all calls for an action and stays set after each: the only
\* way past it is an undo() that takes an action which is still being applied.
ResultReachesCaller == stray => overlap

\* Every call returns, unless the program ends.
CallsReturnOrPanic ==
    \A c \in Client : waits[c] # NoCall ~> (waits[c] = NoCall \/ ~Running)
==============================================================================
