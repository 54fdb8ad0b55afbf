------------------------------ MODULE MCSupport ------------------------------
(***************************************************************************)
(* One instance for TLC of the components that the engine is built on and  *)
(* that do not interact: the subject, chosen at the beginning, is the one  *)
(* that moves, so that their states add and do not multiply.               *)
(***************************************************************************)
EXTENDS RenderTarget, ActionManager, MemoryPool, SharedReference, PlatformQueue,
        ResourceGuard

CONSTANTS
    h1, h2, h3, h4,             \* handles
    a1, a2, b1, c1,             \* guards
    move, import, auto, bad     \* actions

\* "import" is an UnknownImport that applies the AutoImportAction "auto", "bad" is
\* one that fails, "move" a DelegateAction that can be undone.
MCInner == [a \in {move, import, auto, bad} |-> IF a = import THEN auto ELSE NoAction]

\* Two guards of one thread, and one of each of two others.
MCUserOf == [g \in {a1, a2, b1, c1} |-> CASE g = b1 -> 2 [] g = c1 -> 3 [] OTHER -> 1]
MCNesting == [r \in {"resource"} |-> 1]
------------------------------------------------------------------------------
VARIABLE subject

supportVars == <<subject, targetVars, actionVars, poolVars, sharedVars, platformVars, guardVars>>

SupportInit ==
    /\ subject \in {"targets", "actions", "pool", "shared", "platform", "guards"}
    /\ TargetInit /\ ActionInit /\ PoolInit /\ SharedInit /\ QueueInit /\ GuardInit
    /\ subject # "shared" => handle[h1] = "held"

\* Only the subject moves.
TargetsOnly ==
    /\ subject = "targets"
    /\ UNCHANGED <<subject, actionVars, poolVars, sharedVars, platformVars, guardVars>>
ActionsOnly ==
    /\ subject = "actions"
    /\ UNCHANGED <<subject, targetVars, poolVars, sharedVars, platformVars, guardVars>>
PoolOnly ==
    /\ subject = "pool"
    /\ UNCHANGED <<subject, targetVars, actionVars, sharedVars, platformVars, guardVars>>
SharedOnly ==
    /\ subject = "shared"
    /\ UNCHANGED <<subject, targetVars, actionVars, poolVars, platformVars, guardVars>>
PlatformOnly ==
    /\ subject = "platform"
    /\ UNCHANGED <<subject, targetVars, actionVars, poolVars, sharedVars, guardVars>>
GuardsOnly ==
    /\ subject = "guards"
    /\ UNCHANGED <<subject, targetVars, actionVars, poolVars, sharedVars, platformVars>>

SupportNext ==
    \/ TargetsOnly /\ TargetNext
    \/ ActionsOnly /\ ActionNext
    \/ PoolOnly /\ PoolNext
    \/ SharedOnly /\ SharedNext
    \/ PlatformOnly /\ QueueNext
    \/ GuardsOnly /\ GuardNext

\* The stages of a frame follow each other for ever (FrameProgress); the worker does
\* not stop; tidy() is a loop that goes on; threads finish what they are doing, and
\* none has to release a handle; the platform thread goes on, and the fifo of the
\* Schedule comes round to a fiber that may be resumed (JobsFinish).
SupportFairness ==
    /\ WF_supportVars(TargetsOnly /\ ReflowTick)
    /\ WF_supportVars(TargetsOnly /\ InvokeView)
    /\ WF_supportVars(TargetsOnly /\ (DrawView \/ MountView \/ ResizeView))
    /\ WF_supportVars(ActionsOnly /\ WorkerTurn)
    /\ WF_supportVars(PoolOnly /\ (TidyStep \/ TidyDone))
    /\ WF_supportVars(SharedOnly /\ (\E t \in Thread : Settle(t)))
    /\ WF_supportVars(SharedOnly /\ (\E t \in Thread : Acquire(t)))
    /\ WF_supportVars(PlatformOnly /\ PlatformRuns)
    /\ \A c \in Requester : WF_supportVars(PlatformOnly /\ WorkerRuns(c))
    /\ \A c \in Requester : SF_supportVars(PlatformOnly /\ Resume(c))

SupportSpec == SupportInit /\ [][SupportNext]_supportVars /\ SupportFairness

SupportTypeOK ==
    /\ TargetTypeOK /\ ActionTypeOK /\ PoolTypeOK /\ SharedTypeOK /\ QueueTypeOK
    /\ GuardTypeOK
==============================================================================
