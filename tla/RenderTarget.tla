----------------------------- MODULE RenderTarget -----------------------------
(***************************************************************************)
(* RenderTarget, VkSwapchain, the Viewport widget and the RenderScene-     *)
(* Manager, for a window of the user interface that shows one viewport.    *)
(*                                                                         *)
(* Both are render targets: "window" renders the widgets into the surface, *)
(* "view" renders a scene into the two images of a VkSwapchain, which the  *)
(* viewport consumes and draws.  A frame is the reflow tick, in which the  *)
(* viewport takes the next image, followed by the render tick, in which    *)
(* RenderTickStage invokes the targets one after the other.  The viewport  *)
(* is drawn while "window" is invoked; if its size has changed it builds a *)
(* swapchain of the new size and asks the manager for a transition of      *)
(* "view", which the two render passes follow when each is next invoked.   *)
(* An image is [chain, idx]; which image Vulkan returns for the window is  *)
(* not told apart.  The scene view of a target goes through the same chain *)
(* of masks and is not modelled a second time.                             *)
(***************************************************************************)
EXTENDS Naturals, Sequences

CONSTANTS
    Extents,        \* sizes of the viewport that are not zero
    MaxSwapchains   \* bound: how many swapchains are built

\* Definitions marked "Faulty" are not part of the model, see CompositePipeline.

ASSUME TargetAssumption ==
    /\ 0 \notin Extents /\ Extents # {}
    /\ MaxSwapchains \in Nat /\ MaxSwapchains >= 2

Idx == {0, 1}
AllPasses == {0, 1}
NoChain == 0
Chain0 == 0 .. MaxSwapchains
NoImage == [chain |-> NoChain, idx |-> 0]

VARIABLES
    built,          \* swapchains 1 .. built have been built
    extent,         \* Swapchain::_extent
    readyQueue,     \* VkSwapchain::_rQueue
    presentQueue,   \* VkSwapchain::_pQueue
    torn,           \* swapchains on which destroy() has been called
    wanted,         \* Viewport::actualViewExtent(), 0: nothing is laid out
    viewChain,      \* Viewport::_swapChain, NoChain once it is gone
    viewImage,      \* Viewport::_currentSwapChainImage
    target,         \* the two render targets
    mapKey,         \* the key of a target in RenderSceneManager
    pending,        \* the targets that this render tick has yet to invoke
    viewFirst,      \* the order of RenderSceneManager::_primaryTargets
    targetAborted   \* an assertion has failed

swapchains == <<built, extent, readyQueue, presentQueue>>
targetVars == <<swapchains, torn, wanted, viewChain, viewImage, target, mapKey,
                pending, viewFirst, targetAborted>>

TargetState ==
    [chain : Chain0,        \* _swapchain
     ongoing : BOOLEAN,     \* _chainSwapChain is not null
     keep : Chain0,         \* what the promise of the transition keeps alive
     mask : SUBSET AllPasses,                   \* _chainSwapChainMask
     sync : Idx,            \* _syncIdx
     bound : [AllPasses -> [chain : Chain0, idx : Idx]],    \* of each pass
     first : Chain0]        \* history: the swapchain of setup()

TargetTypeOK ==
    /\ built \in Chain0
    /\ extent \in [1 .. MaxSwapchains -> Extents \cup {0}]
    /\ readyQueue \in [1 .. MaxSwapchains -> Seq(Idx)]
    /\ presentQueue \in [1 .. MaxSwapchains -> Seq(Idx)]
    /\ torn \subseteq 1 .. built
    /\ wanted \in Extents \cup {0}
    /\ viewChain \in 0 .. built
    /\ viewImage \in [chain : Chain0, idx : Idx]
    /\ target \in [{"window", "view"} -> TargetState]
    /\ mapKey \in [{"window", "view"} -> Chain0]
    /\ pending \subseteq {"window", "view"}
    /\ viewFirst \in BOOLEAN
    /\ targetAborted \in BOOLEAN

\* The state of a target after its constructor, and after setup().
Constructed ==
    [chain |-> NoChain, ongoing |-> FALSE, keep |-> NoChain, mask |-> {},
     sync |-> 0, bound |-> [p \in AllPasses |-> NoImage], first |-> NoChain]
Mount(c) ==
    [Constructed EXCEPT !.chain = c, !.first = c,
                        !.bound = [p \in AllPasses |-> [chain |-> c, idx |-> p]]]

Images == <<0, 1>>

\* The window has its surface; the panel has built the first swapchain of the
\* viewport before anything is laid out.
TargetInit ==
    /\ built = 2
    /\ extent = [c \in 1 .. MaxSwapchains |-> 0]
    /\ readyQueue = [c \in 1 .. MaxSwapchains |-> IF c = 2 THEN Images ELSE <<>>]
    /\ presentQueue = [c \in 1 .. MaxSwapchains |-> <<>>]
    /\ torn = {} /\ wanted = 0
    /\ viewChain = 2 /\ viewImage = NoImage
    /\ target = [t \in {"window", "view"} |->
                    IF t = "window" THEN Mount(1) ELSE Constructed]
    /\ mapKey = [t \in {"window", "view"} |-> IF t = "window" THEN 1 ELSE NoChain]
    /\ pending = {} /\ viewFirst = FALSE /\ targetAborted = FALSE
-----------------------------------------------------------------------------
\* transitionToTarget(): an ongoing transition may only be overridden as long
\* as no pass has followed it.
Accepts(r) == r.ongoing => r.mask = AllPasses

\* Faulty Transitioned: the previous swapchain is not kept.
TransitionedBare(r, next, prev) ==
    [r EXCEPT !.chain = next, !.ongoing = TRUE, !.mask = AllPasses]
\* prev is what the promise keeps alive: the previous swapchain, or nothing
\* for a surface, whose previous swapchain is destroyed at once.
Transitioned(r, next, prev) ==
    [r EXCEPT !.chain = next, !.ongoing = TRUE, !.mask = AllPasses,
              !.keep = IF r.ongoing THEN @ ELSE prev]

\* Faulty Invoked: the pass is rebound by its number and not by the image.
InvokedByPass(r, image) ==
    LET p == 1 - r.sync  rest == r.mask \ {p}
    IN  [r EXCEPT !.bound[p] = IF p \in r.mask THEN [image EXCEPT !.idx = p] ELSE @,
                  !.mask = rest, !.ongoing = @ /\ rest # {},
                  !.keep = IF rest = {} THEN NoChain ELSE @, !.sync = p]
\* Faulty Invoked: flipRenderSync() is missing.
InvokedUnflipped(r, image) ==
    LET p == 1 - r.sync  rest == r.mask \ {p}
    IN  [r EXCEPT !.bound[p] = IF p \in r.mask THEN image ELSE @,
                  !.mask = rest, !.ongoing = @ /\ rest # {},
                  !.keep = IF rest = {} THEN NoChain ELSE @]

\* next(), update() and finish(): the pass that is not in flight is rebound if
\* a transition asks for it, executed, and the promise kept after the last one.
Invoked(r, image) ==
    LET p == 1 - r.sync  rest == r.mask \ {p}
    IN  [r EXCEPT !.bound[p] = IF p \in r.mask THEN image ELSE @,
                  !.mask = rest, !.ongoing = @ /\ rest # {},
                  !.keep = IF rest = {} THEN NoChain ELSE @, !.sync = p]

WindowImage == [chain |-> target["window"].chain, idx |-> 0]
WindowInvoked == Invoked(target["window"], WindowImage)

\* buildNextView()
BuildNextView ==
    /\ built' = built + 1
    /\ extent' = [extent EXCEPT ![built + 1] = wanted]
    /\ readyQueue' = [readyQueue EXCEPT ![built + 1] = Images]
    /\ viewChain' = built + 1
    /\ UNCHANGED presentQueue

Mounted == target["view"].chain # NoChain
Visible == viewChain # NoChain /\ wanted # 0
viewHasChanged == Visible /\ extent[viewChain] # wanted
\* One swapchain is left for a viewport that has yet to be rebuilt.
RoomToResize == built + (IF viewHasChanged THEN 1 ELSE 0) < MaxSwapchains
-----------------------------------------------------------------------------
\* The layout gives the viewport another size, or hides it.
LayoutView(e) ==
    /\ ~targetAborted /\ pending = {} /\ viewChain # NoChain
    /\ built < MaxSwapchains /\ e # wanted
    /\ wanted' = e
    /\ UNCHANGED <<swapchains, torn, viewChain, viewImage, target, mapKey, pending,
                   viewFirst, targetAborted>>

\* Another target is dropped, and the last one of the dense set takes its place.
ReorderTargets ==
    /\ ~targetAborted /\ pending = {}
    /\ viewFirst' = ~viewFirst
    /\ UNCHANGED <<swapchains, torn, wanted, viewChain, viewImage, target, mapKey,
                   pending, targetAborted>>

\* ~Viewport(): the target stays with the manager.
CloseViewport ==
    /\ ~targetAborted /\ pending = {} /\ viewChain # NoChain
    /\ torn' = torn \cup {viewChain}
    /\ readyQueue' = [readyQueue EXCEPT ![viewChain] = <<>>]
    /\ presentQueue' = [presentQueue EXCEPT ![viewChain] = <<>>]
    /\ viewChain' = NoChain /\ viewImage' = NoImage
    /\ UNCHANGED <<built, extent, wanted, target, mapKey, pending, viewFirst,
                   targetAborted>>

\* handleWindowResize(), in the input stage: the transition destroys the old
\* swapchain of the surface before it is known whether it is accepted.
ResizeWindow ==
    /\ ~targetAborted /\ pending = {} /\ RoomToResize
    /\ built' = built + 1
    /\ torn' = torn \cup {target["window"].chain}
    /\ IF Accepts(target["window"])
       THEN /\ target' = [target EXCEPT !["window"] =
                              Transitioned(@, built + 1, NoChain)]
            /\ mapKey' = [mapKey EXCEPT !["window"] = built + 1]
            /\ UNCHANGED targetAborted
       ELSE targetAborted' = TRUE /\ UNCHANGED <<target, mapKey>>
    /\ UNCHANGED <<extent, readyQueue, presentQueue, wanted, viewChain, viewImage,
                   pending, viewFirst>>

\* The reflow tick: Viewport::tick() with consumeNext(); then the render tick
\* starts with selectInvokeTargets().
ReflowTick ==
    /\ ~targetAborted /\ pending = {}
    /\ pending' = {t \in {"window", "view"} : target[t].chain # NoChain}
    /\ IF viewChain # NoChain /\ presentQueue[viewChain] # <<>>
       THEN LET idx == Head(presentQueue[viewChain])
            IN  /\ viewImage' = [chain |-> viewChain, idx |-> idx]
                /\ presentQueue' = [presentQueue EXCEPT ![viewChain] = Tail(@)]
                /\ readyQueue' = [readyQueue EXCEPT ![viewChain] = Append(@, idx)]
       ELSE viewImage' = NoImage /\ UNCHANGED <<presentQueue, readyQueue>>
    /\ UNCHANGED <<built, extent, torn, wanted, viewChain, target, mapKey,
                   viewFirst, targetAborted>>

\* invokeRenderTarget() of "view"; without a ready image it is skipped.
InvokeView ==
    /\ ~targetAborted /\ "view" \in pending
    /\ viewFirst \/ "window" \notin pending
    /\ pending' = pending \ {"view"}
    /\ LET c == target["view"].chain
       IN  IF readyQueue[c] = <<>>
           THEN UNCHANGED <<readyQueue, presentQueue, target>>
           ELSE LET idx == Head(readyQueue[c])
                IN  /\ readyQueue' = [readyQueue EXCEPT ![c] = Tail(@)]
                    /\ presentQueue' = [presentQueue EXCEPT ![c] = Append(@, idx)]
                    /\ target' = [target EXCEPT !["view"] =
                                      Invoked(@, [chain |-> c, idx |-> idx])]
    /\ UNCHANGED <<built, extent, torn, wanted, viewChain, viewImage, mapKey,
                   viewFirst, targetAborted>>

\* invokeRenderTarget() of "window", up to the point where the viewport is drawn.
InvokingWindow ==
    /\ ~targetAborted /\ "window" \in pending
    /\ ~viewFirst \/ "view" \notin pending
    /\ pending' = pending \ {"window"}
    /\ UNCHANGED <<torn, wanted, viewImage, viewFirst>>

\* There is no viewport to draw, or it has its size and its target, or the scene
\* has no view of its camera yet.
DrawView ==
    /\ InvokingWindow
    /\ ~Mounted \/ ~viewHasChanged
    /\ IF viewHasChanged THEN BuildNextView ELSE UNCHANGED <<swapchains, viewChain>>
    /\ target' = [target EXCEPT !["window"] = WindowInvoked]
    /\ UNCHANGED <<mapKey, targetAborted>>

\* remountRenderTarget(), after rebuildView() if the size has changed.
MountView ==
    /\ InvokingWindow
    /\ Visible /\ ~Mounted
    /\ IF viewHasChanged THEN BuildNextView ELSE UNCHANGED <<swapchains, viewChain>>
    /\ target' = [target EXCEPT !["window"] = WindowInvoked, !["view"] = Mount(viewChain')]
    /\ mapKey' = [mapKey EXCEPT !["view"] = viewChain']
    /\ UNCHANGED targetAborted

\* rebuildView() of a mounted viewport: the listener asks the manager for a
\* transition of the target that is mapped under the previous swapchain.
ResizeView ==
    /\ InvokingWindow
    /\ Mounted /\ viewHasChanged
    /\ IF mapKey["view"] = viewChain /\ Accepts(target["view"])
       THEN /\ target' = [target EXCEPT
                            !["view"] = Transitioned(@, built + 1, target["view"].chain),
                            !["window"] = WindowInvoked]
            /\ mapKey' = [mapKey EXCEPT !["view"] = built + 1]
            /\ BuildNextView
            /\ UNCHANGED targetAborted
       ELSE targetAborted' = TRUE /\ UNCHANGED <<swapchains, viewChain, target, mapKey>>

TargetsAborted == targetAborted /\ UNCHANGED targetVars

TargetNext ==
    \/ \E e \in Extents \cup {0} : LayoutView(e)
    \/ ReorderTargets
    \/ CloseViewport
    \/ ResizeWindow
    \/ ReflowTick
    \/ InvokeView
    \/ DrawView
    \/ MountView
    \/ ResizeView
    \/ TargetsAborted

TargetSpec == TargetInit /\ [][TargetNext]_targetVars
-----------------------------------------------------------------------------
(***************************************************************************)
(* Properties.                                                             *)
(***************************************************************************)

\* A swapchain that nothing refers to any more has been destroyed, too.
Alive(c) ==
    c \notin torn /\ c \in {viewChain, target["view"].chain, target["view"].keep,
                            target["window"].chain}

\* Between two invocations every image of a swapchain that the viewport or its
\* target holds is in exactly one of the two queues: presentNext() finds room,
\* and no image is lost, however frames are skipped and sizes change.
ImagesInOneQueue ==
    \A c \in {viewChain, target["view"].chain, target["view"].keep} \ (torn \cup {NoChain}) :
        readyQueue[c] \o presentQueue[c] \in {<<0, 1>>, <<1, 0>>}

\* update() executes no pass on an image of a former, or destroyed, swapchain: a
\* pass that waits for no transition is bound to the current swapchain of its
\* target, and if the target can acquire an image then that swapchain lives.
BoundToCurrent ==
    \A t \in {"window", "view"} : target[t].chain # NoChain =>
        /\ \A p \in AllPasses \ target[t].mask :
                target[t].bound[p].chain = target[t].chain
        /\ (IF t = "window" THEN ~targetAborted ELSE readyQueue[target[t].chain] # <<>>)
            => target[t].chain \notin torn

\* Once the passes have followed a transition, the image that is presented is
\* the one the pass has rendered: the flip of the passes and the queues of the
\* swapchain stay in step, also over frames that are skipped.  (Before the
\* first transition they never are: setup() binds pass 1 to image 1, and pass 1
\* is invoked first, with image 0.)
PassMatchesImage ==
    LET r == target["view"]
        ahead == readyQueue[r.chain] \o presentQueue[r.chain]
    IN  Mounted /\ r.chain # r.first /\ ahead # <<>> =>
            \A p \in AllPasses \ r.mask :
                r.bound[p] = [chain |-> r.chain, idx |-> ahead[IF p = r.sync THEN 2 ELSE 1]]

\* The image that the viewport draws belongs to a swapchain that lives: the
\* promise of the transition keeps the previous one until both passes, and the
\* viewport, have left it.
DrawnImageAlive == viewImage # NoImage => Alive(viewImage.chain)

\* The manager finds a target under its current swapchain, which is also that of
\* the viewport: the lookup of the next transition does not fail.
MappedUnderCurrent ==
    ~targetAborted =>
        /\ mapKey["window"] = target["window"].chain
        /\ mapKey["view"] = target["view"].chain
        /\ Mounted /\ viewChain # NoChain => viewChain = target["view"].chain

\* Presenting: no image is lost, and none is presented in the place of another.
QueuesInStep == ImagesInOneQueue /\ PassMatchesImage

\* Lifetime: passes, manager and viewport use the current swapchain of the target
\* and no other, or one that is still kept alive.
TargetsCurrent == BoundToCurrent /\ MappedUnderCurrent /\ DrawnImageAlive

\* A transition is completed, and its promise kept, while frames go on, unless the
\* viewport is gone: then the swapchain hands out no image any more, and the
\* target keeps the promise and what it keeps alive.
TransitionCompletes ==
    \A t \in {"window", "view"} :
        target[t].ongoing ~>
            (~target[t].ongoing \/ targetAborted \/ target[t].chain \in torn)

\* RenderSceneManager asserts that a transition is accepted.
TransitionsAccepted == ~targetAborted
=============================================================================
