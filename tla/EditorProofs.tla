----------------------------- MODULE EditorProofs -----------------------------
(***************************************************************************)
(* Theorems about what the editor shows and does: RenderTarget, for any    *)
(* extents and any number of swapchains, and ActionManager, for any        *)
(* fibers, actions and size of the log.                                    *)
(***************************************************************************)
EXTENDS RenderTarget, ActionManager, SequenceTheorems, TLAPS

------------------------------------------------------------------------------
(***************************************************************************)
(* The render targets.                                                     *)
(***************************************************************************)

\* The two orders in which the images of a swapchain go round.
Rounds == {<<0, 1>>, <<1, 0>>}
Image == [chain : Chain0, idx : Idx]

\* A transition is ongoing as long as a pass has yet to follow it; the others use the
\* swapchain of the target.
Bound(r) ==
    /\ r.mask = {} <=> ~r.ongoing
    /\ \A p \in AllPasses \ r.mask : r.bound[p].chain = r.chain

\* The surface of the window has swapchains of its own, which live while they are
\* used, and whose promise keeps nothing.
SurfaceApart ==
    LET w == target["window"]  v == target["view"]
    IN  /\ w.chain \in 1 .. built /\ w.keep = NoChain
        /\ w.chain \notin {viewChain, v.chain, v.keep}
        /\ ~targetAborted => w.chain \notin torn

\* What is known of the swapchains of the viewport apart from its images: they have
\* been built, and one that is not used yet has nothing to present.
ViewChains ==
    LET v == target["view"]
    IN  /\ v.chain <= built /\ v.keep <= built
        /\ viewChain \notin torn
        /\ "view" \in pending => Mounted
        /\ \A c \in Chain0 : c > built => presentQueue[c] = <<>>
        /\ ~Mounted /\ viewChain # NoChain => presentQueue[viewChain] = <<>>
        /\ Mounted /\ v.mask = AllPasses => presentQueue[v.chain] = <<>>
        /\ v.chain \in torn => readyQueue[v.chain] = <<>> /\ presentQueue[v.chain] = <<>>
        /\ viewHasChanged => built < MaxSwapchains

\* The image that is drawn was presented by the target: from its swapchain, or from
\* the previous one in the frame in which the transition began.
DrawnFromTarget ==
    LET v == target["view"]
    IN  viewImage # NoImage =>
            /\ viewImage.chain \notin torn /\ Mounted
            /\ \/ viewImage.chain = v.chain /\ v.mask # AllPasses
               \/ /\ viewImage.chain = v.keep
                  /\ v.mask = AllPasses \/ (v.mask # {} /\ "view" \notin pending)

\* PassMatchesImage, in terms of the images in the order in which they will be rendered.
Matches(r, ahead) ==
    r.chain # NoChain /\ r.chain # r.first /\ ahead # <<>> =>
        \A p \in AllPasses \ r.mask :
            r.bound[p] = [chain |-> r.chain, idx |-> ahead[IF p = r.sync THEN 2 ELSE 1]]
Ahead == readyQueue[target["view"].chain] \o presentQueue[target["view"].chain]
InStep == Matches(target["view"], Ahead)

TargetInv ==
    /\ TargetTypeOK
    /\ \A t \in {"window", "view"} : Bound(target[t])
    /\ SurfaceApart /\ ViewChains /\ DrawnFromTarget
    /\ ImagesInOneQueue /\ InStep /\ MappedUnderCurrent
------------------------------------------------------------------------------
LEMMA TypesAre ==
    ASSUME TargetTypeOK
    PROVE  /\ target["window"] \in TargetState /\ target["view"] \in TargetState
           /\ built \in Nat /\ built <= MaxSwapchains
           /\ viewChain \in Nat /\ viewChain <= built
  BY TargetAssumption DEF TargetTypeOK, Chain0

\* The fields of a target that is invoked: the pass that was not in flight is, and has
\* followed the transition if there was one.
LEMMA InvokedIs ==
    ASSUME NEW r \in TargetState, NEW image \in Image, NEW n, n = Invoked(r, image)
    PROVE  /\ n \in TargetState
           /\ n.chain = r.chain /\ n.first = r.first /\ n.sync = 1 - r.sync
           /\ n.mask = r.mask \ {1 - r.sync}
           /\ n.keep = (IF n.mask = {} THEN NoChain ELSE r.keep)
           /\ n.ongoing = (r.ongoing /\ n.mask # {})
           /\ n.bound[1 - r.sync] =
                (IF 1 - r.sync \in r.mask THEN image ELSE r.bound[1 - r.sync])
           /\ n.bound[r.sync] = r.bound[r.sync]
<1> DEFINE p == 1 - r.sync
           rest == r.mask \ {p}
           bound == [r.bound EXCEPT ![p] = IF p \in r.mask THEN image ELSE @]
           keep == IF rest = {} THEN NoChain ELSE r.keep
<1>1. /\ r.sync \in Idx /\ p \in Idx /\ p # r.sync /\ p \in AllPasses /\ r.sync \in AllPasses
      /\ r.bound \in [AllPasses -> Image] /\ r.mask \subseteq AllPasses
      /\ r.ongoing \in BOOLEAN /\ r.keep \in Chain0
  BY DEF TargetState, Idx, AllPasses, Image
<1>2. n = [r EXCEPT !.bound = bound, !.mask = rest, !.ongoing = r.ongoing /\ rest # {},
                    !.keep = keep, !.sync = p]
  BY DEF Invoked, TargetState
<1>3. bound \in [AllPasses -> Image] /\ rest \in SUBSET AllPasses /\ keep \in Chain0
  BY <1>1, TargetAssumption DEF NoChain, Chain0
<1>4. /\ bound[p] = (IF p \in r.mask THEN image ELSE r.bound[p])
      /\ bound[r.sync] = r.bound[r.sync]
  BY <1>1
<1> HIDE DEF bound, keep
<1>5. /\ n.chain = r.chain /\ n.first = r.first /\ n.sync = p /\ n.mask = rest
      /\ n.bound = bound /\ n.keep = keep
  BY <1>2 DEF TargetState
<1>6. n.ongoing = (r.ongoing /\ rest # {})
  BY <1>2 DEF TargetState
<1>7. n \in TargetState
  <2>1. (r.ongoing /\ rest # {}) \in BOOLEAN
    BY <1>1
  <2> QED
    BY <1>1, <1>2, <1>3, <2>1 DEF TargetState, Image
<1> QED
  BY <1>1, <1>4, <1>5, <1>6, <1>7 DEF keep

LEMMA InvokedBound ==
    ASSUME NEW r \in TargetState, NEW image \in Image, Bound(r), image.chain = r.chain
    PROVE  Bound(Invoked(r, image))
<1> PICK n : n = Invoked(r, image)
  OBVIOUS
<1> DEFINE p == 1 - r.sync
<1>1. /\ n.chain = r.chain /\ n.mask = r.mask \ {p}
      /\ n.bound[p] = (IF p \in r.mask THEN image ELSE r.bound[p])
      /\ n.bound[r.sync] = r.bound[r.sync]
  BY InvokedIs
<1>2. n.ongoing = (r.ongoing /\ n.mask # {})
  BY InvokedIs
<1>3. AllPasses = {p, r.sync} /\ p # r.sync /\ r.mask \subseteq AllPasses /\ p \in AllPasses
  BY DEF TargetState, AllPasses, Idx
<1> HIDE DEF p
<1>4. n.mask = {} <=> ~n.ongoing
  BY <1>1, <1>2 DEF Bound
<1>5. ASSUME NEW q \in AllPasses \ n.mask PROVE n.bound[q].chain = n.chain
  <2>1. CASE q = p
    BY <1>1, <1>3, <2>1 DEF Bound
  <2>2. CASE q = r.sync
    BY <1>1, <1>3, <1>5, <2>2 DEF Bound
  <2> QED
    BY <1>3, <2>1, <2>2
<1> QED
  BY <1>4, <1>5 DEF Bound

\* The fields of a target that is passed another swapchain.
LEMMA TransitionedIs ==
    ASSUME NEW r \in TargetState, NEW next \in Chain0, NEW prev \in Chain0,
           NEW n, n = Transitioned(r, next, prev)
    PROVE  /\ n \in TargetState
           /\ n.chain = next /\ n.first = r.first /\ n.mask = AllPasses /\ n.ongoing
           /\ n.keep = (IF r.ongoing THEN r.keep ELSE prev)
           /\ Bound(n)
<1>1. /\ n.chain = next /\ n.first = r.first /\ n.mask = AllPasses /\ n.ongoing
      /\ n.keep = (IF r.ongoing THEN r.keep ELSE prev) /\ n \in TargetState
  BY DEF Transitioned, TargetState
<1> QED
  BY <1>1 DEF Bound, AllPasses

LEMMA MountIs ==
    ASSUME NEW c \in Chain0, NEW n, n = Mount(c)
    PROVE  /\ n \in TargetState
           /\ n.chain = c /\ n.first = c /\ n.mask = {} /\ n.keep = NoChain
           /\ Bound(n)
<1>1. /\ n.chain = c /\ n.first = c /\ n.mask = {} /\ n.keep = NoChain /\ ~n.ongoing
      /\ n.sync = 0 /\ n.ongoing = FALSE
      /\ n.bound = [p \in AllPasses |-> [chain |-> c, idx |-> p]]
  BY DEF Mount, Constructed
<1>2. n \in TargetState
  <2> DEFINE bound == [p \in AllPasses |-> [chain |-> c, idx |-> p]]
  <2>1. n = [chain |-> c, ongoing |-> FALSE, keep |-> NoChain, mask |-> {}, sync |-> 0,
             bound |-> bound, first |-> c]
    BY DEF Mount, Constructed
  <2>2. bound \in [AllPasses -> [chain : Chain0, idx : Idx]]
    BY DEF AllPasses, Idx
  <2>3. NoChain \in Chain0 /\ 0 \in Idx /\ {} \in SUBSET AllPasses
    BY TargetAssumption DEF Chain0, NoChain, Idx
  <2> HIDE DEF bound
  <2> QED
    BY <2>1, <2>2, <2>3 DEF TargetState
<1>3. \A p \in AllPasses : n.bound[p].chain = n.chain
  BY <1>1
<1> QED
  BY <1>1, <1>2, <1>3 DEF Bound

LEMMA RoundsAre ==
    ASSUME NEW q
    PROVE  q \in Rounds <=> q \in Seq(Idx) /\ Len(q) = 2 /\ q[1] # q[2]
<1>1. ASSUME q \in Rounds PROVE q \in Seq(Idx) /\ Len(q) = 2 /\ q[1] # q[2]
  <2>1. CASE q = <<0, 1>>
    BY <2>1 DEF Idx
  <2>2. CASE q = <<1, 0>>
    BY <2>2 DEF Idx
  <2> QED
    BY <1>1, <2>1, <2>2 DEF Rounds
<1>2. ASSUME q \in Seq(Idx), Len(q) = 2, q[1] # q[2] PROVE q \in Rounds
  <2>1. q[1] \in Idx /\ q[2] \in Idx
    BY <1>2
  <2>2. CASE q[1] = 0
    <3>1. q[1] = 0 /\ q[2] = 1
      BY <1>2, <2>1, <2>2 DEF Idx
    <3>2. <<0, 1>> \in Seq(Idx) /\ Len(<<0, 1>>) = 2 /\ <<0, 1>>[1] = 0 /\ <<0, 1>>[2] = 1
      BY DEF Idx
    <3> QED
      BY <1>2, <3>1, <3>2, SeqEqual DEF Rounds
  <2>3. CASE q[1] = 1
    <3>1. q[1] = 1 /\ q[2] = 0
      BY <1>2, <2>1, <2>3 DEF Idx
    <3>2. <<1, 0>> \in Seq(Idx) /\ Len(<<1, 0>>) = 2 /\ <<1, 0>>[1] = 1 /\ <<1, 0>>[2] = 0
      BY DEF Idx
    <3> QED
      BY <1>2, <3>1, <3>2, SeqEqual DEF Rounds
  <2> QED
    BY <2>1, <2>2, <2>3 DEF Idx
<1> QED
  BY <1>1, <1>2

\* An image that is rendered goes from the front of one queue to the end of the other.
LEMMA Rendered ==
    ASSUME NEW r \in Seq(Idx), NEW p \in Seq(Idx), r \o p \in Rounds, r # <<>>
    PROVE  /\ Tail(r) \o Append(p, Head(r)) \in Rounds
           /\ (Tail(r) \o Append(p, Head(r)))[1] = (r \o p)[2]
           /\ (Tail(r) \o Append(p, Head(r)))[2] = (r \o p)[1]
           /\ Head(r) = (r \o p)[1]
           /\ (r \o p)[1] # (r \o p)[2]
<1> DEFINE q == r \o p
           n == Tail(r) \o Append(p, Head(r))
<1>1. q \in Seq(Idx) /\ Len(q) = 2 /\ q[1] \in Idx /\ q[2] \in Idx /\ q[1] # q[2]
  <2>1. q \in Seq(Idx) /\ Len(q) = 2 /\ q[1] # q[2]
    BY RoundsAre
  <2> QED
    BY <2>1
<1>2. Len(q) = Len(r) + Len(p) /\ Len(r) \in Nat \ {0} /\ Len(p) \in Nat
  BY EmptySeq, LenProperties
<1>3. Head(r) = q[1] /\ Head(r) \in Idx
  BY <1>2
<1>4. n \in Seq(Idx) /\ Len(n) = 2
  BY <1>1, <1>2, <1>3
<1>5. n[1] = q[2] /\ n[2] = q[1]
  <2>1. CASE Len(r) = 2
    BY <1>1, <1>2, <1>3, <2>1
  <2>2. CASE Len(r) = 1
    BY <1>1, <1>2, <1>3, <2>2
  <2> QED
    BY <1>1, <1>2, <2>1, <2>2
<1>6. n \in Rounds
  BY <1>1, <1>4, <1>5, RoundsAre
<1> QED
  BY <1>1, <1>3, <1>5, <1>6

\* An image that is taken for presentation keeps its place in the round.
LEMMA Consumed ==
    ASSUME NEW r \in Seq(Idx), NEW p \in Seq(Idx), p # <<>>
    PROVE  /\ Append(r, Head(p)) \o Tail(p) = r \o p
           /\ Append(r, Head(p)) \in Seq(Idx) /\ Tail(p) \in Seq(Idx)
<1> DEFINE a == Append(r, Head(p)) \o Tail(p)
           b == r \o p
<1>1. Head(p) \in Idx /\ Tail(p) \in Seq(Idx) /\ Len(p) \in Nat \ {0} /\ Len(Tail(p)) = Len(p) - 1
  OBVIOUS
<1>2. a \in Seq(Idx) /\ b \in Seq(Idx) /\ Len(a) = Len(b)
  BY <1>1
<1>3. \A i \in 1 .. Len(a) : a[i] = b[i]
  BY <1>1
<1> QED
  BY <1>1, <1>2, <1>3, SeqEqual

\* What the parts of the invariant depend on, when only the layout or the order of
\* the targets changes.
LEMMA TargetsKept ==
    ASSUME TargetInv, UNCHANGED <<swapchains, torn, viewChain, viewImage, target, mapKey, pending>>,
           targetAborted' = targetAborted,
           TargetTypeOK', viewHasChanged' => built < MaxSwapchains
    PROVE  TargetInv'
<1>1. UNCHANGED <<built, extent, readyQueue, presentQueue, torn, viewChain, viewImage, target,
                  mapKey, pending, targetAborted>>
  BY DEF swapchains
<1>2. \A t \in {"window", "view"} : Bound(target'[t])
  BY <1>1 DEF TargetInv
<1>3. SurfaceApart' /\ DrawnFromTarget'
  BY <1>1 DEF TargetInv, SurfaceApart, DrawnFromTarget, Mounted
<1>4. ViewChains'
  BY <1>1 DEF TargetInv, ViewChains, Mounted
<1>5. ImagesInOneQueue' /\ InStep' /\ MappedUnderCurrent'
  <2>1. ImagesInOneQueue'
    BY <1>1 DEF TargetInv, ImagesInOneQueue
  <2>2. InStep'
    BY <1>1 DEF TargetInv, InStep, Ahead
  <2>3. MappedUnderCurrent'
    BY <1>1 DEF TargetInv, MappedUnderCurrent, Mounted
  <2> QED
    BY <2>1, <2>2, <2>3
<1> QED
  BY <1>2, <1>3, <1>4, <1>5 DEF TargetInv

LEMMA LayoutInv ==
    ASSUME TargetInv, NEW e \in Extents \cup {0}, LayoutView(e)
    PROVE  TargetInv'
<1>1. TargetTypeOK'
  BY DEF TargetInv, TargetTypeOK, LayoutView, swapchains
<1>2. built < MaxSwapchains
  BY DEF LayoutView
<1> QED
  BY <1>1, <1>2, TargetsKept DEF LayoutView

LEMMA ReorderInv ==
    ASSUME TargetInv, ReorderTargets
    PROVE  TargetInv'
<1>1. TargetTypeOK'
  BY DEF TargetInv, TargetTypeOK, ReorderTargets, swapchains
<1>2. viewHasChanged' => built < MaxSwapchains
  BY DEF TargetInv, ViewChains, ReorderTargets, swapchains, viewHasChanged, Visible
<1> QED
  BY <1>1, <1>2, TargetsKept DEF ReorderTargets

LEMMA CloseInv ==
    ASSUME TargetInv, CloseViewport
    PROVE  TargetInv'
<1> DEFINE v == target["view"]
           c == viewChain
<1>1. /\ UNCHANGED <<built, extent, wanted, target, mapKey, pending, viewFirst, targetAborted>>
      /\ c # NoChain /\ ~targetAborted
      /\ torn' = torn \cup {c}
      /\ readyQueue' = [readyQueue EXCEPT ![c] = <<>>]
      /\ presentQueue' = [presentQueue EXCEPT ![c] = <<>>]
      /\ viewChain' = NoChain /\ viewImage' = NoImage
  BY DEF CloseViewport
<1>2. /\ c \in 1 .. MaxSwapchains /\ c \in 1 .. built
      /\ v \in TargetState /\ v.chain \in Chain0
      /\ readyQueue \in [1 .. MaxSwapchains -> Seq(Idx)]
      /\ presentQueue \in [1 .. MaxSwapchains -> Seq(Idx)]
      /\ torn \subseteq 1 .. built
  <2>1. v \in TargetState /\ c \in Nat /\ c <= built /\ built \in Nat /\ built <= MaxSwapchains
    BY TypesAre DEF TargetInv
  <2>2. c \in 1 .. MaxSwapchains /\ c \in 1 .. built
    BY <1>1, <2>1, TargetAssumption DEF NoChain
  <2>3. v.chain \in Chain0
    BY <2>1 DEF TargetState
  <2> QED
    BY <2>1, <2>2, <2>3 DEF TargetInv, TargetTypeOK
<1>3. /\ readyQueue'[c] = <<>> /\ presentQueue'[c] = <<>>
      /\ \A d : d # c => readyQueue'[d] = readyQueue[d] /\ presentQueue'[d] = presentQueue[d]
  BY <1>1, <1>2
<1>4. TargetTypeOK'
  <2>1. readyQueue' \in [1 .. MaxSwapchains -> Seq(Idx)]
    BY <1>1, <1>2
  <2>2. presentQueue' \in [1 .. MaxSwapchains -> Seq(Idx)]
    BY <1>1, <1>2
  <2>3. viewChain' \in 0 .. built /\ viewImage' \in [chain : Chain0, idx : Idx]
    BY <1>1, <1>2, TypesAre, TargetAssumption DEF NoChain, NoImage, Chain0, Idx, TargetInv
  <2> QED
    BY <1>1, <1>2, <2>1, <2>2, <2>3 DEF TargetInv, TargetTypeOK
<1>5. \A t \in {"window", "view"} : Bound(target'[t])
  BY <1>1 DEF TargetInv
<1>6. SurfaceApart'
  BY <1>1, <1>2 DEF TargetInv, SurfaceApart, NoChain
<1>7. DrawnFromTarget'
  BY <1>1 DEF DrawnFromTarget
<1>8. ViewChains'
  <2>1. \A d \in Chain0 : d > built' => presentQueue'[d] = <<>>
    BY <1>1, <1>2, <1>3 DEF TargetInv, ViewChains
  <2>2. v.chain \in torn' => readyQueue'[v.chain] = <<>> /\ presentQueue'[v.chain] = <<>>
    BY <1>1, <1>3 DEF TargetInv, ViewChains
  <2>3. Mounted /\ v.mask = AllPasses => presentQueue'[v.chain] = <<>>
    BY <1>3 DEF TargetInv, ViewChains
  <2>4. ~viewHasChanged'
    BY <1>1 DEF viewHasChanged, Visible
  <2>5. viewChain' \notin torn'
    BY <1>1, <1>2 DEF NoChain
  <2> QED
    BY <1>1, <2>1, <2>2, <2>3, <2>4, <2>5 DEF TargetInv, ViewChains, Mounted
<1>9. ImagesInOneQueue'
  BY <1>1, <1>3 DEF TargetInv, ImagesInOneQueue
<1>10. InStep'
  <2>1. CASE v.chain = c
    <3>1. Ahead' = <<>>
      BY <1>1, <1>3, <2>1 DEF Ahead
    <3> QED
      BY <3>1 DEF InStep, Matches
  <2>2. CASE v.chain # c
    <3>1. Ahead' = Ahead
      BY <1>1, <1>3, <2>2 DEF Ahead
    <3> QED
      BY <1>1, <3>1 DEF TargetInv, InStep
  <2> QED
    BY <2>1, <2>2
<1>11. MappedUnderCurrent'
  BY <1>1 DEF TargetInv, MappedUnderCurrent, Mounted
<1> QED
  BY <1>4, <1>5, <1>6, <1>7, <1>8, <1>9, <1>10, <1>11 DEF TargetInv

LEMMA ResizeWindowInv ==
    ASSUME TargetInv, ResizeWindow
    PROVE  TargetInv'
<1> DEFINE w == target["window"]
           v == target["view"]
<1>1. /\ UNCHANGED <<extent, readyQueue, presentQueue, wanted, viewChain, viewImage, pending,
                     viewFirst>>
      /\ built' = built + 1 /\ torn' = torn \cup {w.chain} /\ RoomToResize /\ ~targetAborted
  BY DEF ResizeWindow
<1>2. /\ w \in TargetState /\ v \in TargetState /\ built \in Nat /\ w.chain \in 1 .. built
      /\ v.chain \in Chain0 /\ v.keep \in Chain0 /\ v.chain <= built /\ v.keep <= built
      /\ viewChain \in 0 .. built /\ viewImage \in [chain : Chain0, idx : Idx]
      /\ torn \subseteq 1 .. built /\ MaxSwapchains \in Nat /\ Chain0 = 0 .. MaxSwapchains
  BY TypesAre, TargetAssumption DEF TargetInv, TargetTypeOK, SurfaceApart, TargetState, ViewChains, Chain0
<1>3. built + 1 <= MaxSwapchains /\ (viewHasChanged => built + 1 < MaxSwapchains)
  BY <1>1, <1>2 DEF RoomToResize
<1>4. /\ target'["view"] = v
      /\ target'["window"] \in TargetState /\ Bound(target'["window"])
      /\ target'["window"].keep = NoChain
      /\ target'["window"].chain = w.chain \/ target'["window"].chain = built + 1
      /\ targetAborted' \in BOOLEAN
      /\ ~targetAborted' => target'["window"].chain = built + 1
      /\ target' \in [{"window", "view"} -> TargetState]
      /\ mapKey' \in [{"window", "view"} -> Chain0]
      /\ mapKey'["view"] = mapKey["view"]
      /\ ~targetAborted' => mapKey'["window"] = built + 1
  <2>1. target \in [{"window", "view"} -> TargetState] /\ mapKey \in [{"window", "view"} -> Chain0]
    BY DEF TargetInv, TargetTypeOK
  <2>2. w.keep = NoChain /\ Bound(w)
    BY DEF TargetInv, SurfaceApart
  <2>3. CASE Accepts(w)
    <3>1. PICK n : n = Transitioned(w, built + 1, NoChain)
      OBVIOUS
    <3>2. built + 1 \in Chain0 /\ NoChain \in Chain0
      BY <1>2, <1>3 DEF NoChain
    <3>3. n \in TargetState /\ n.chain = built + 1 /\ n.keep = NoChain /\ Bound(n)
      <4>1. PICK r, next, prev : r = w /\ next = built + 1 /\ prev = NoChain
        OBVIOUS
      <4>2. /\ n = Transitioned(r, next, prev)
            /\ r \in TargetState /\ next \in Chain0 /\ prev \in Chain0
        BY <1>2, <3>1, <3>2, <4>1
      <4>3. /\ n \in TargetState /\ n.chain = next /\ Bound(n)
            /\ n.keep = (IF r.ongoing THEN r.keep ELSE prev)
        BY <4>2, TransitionedIs
      <4> QED
        BY <2>2, <4>1, <4>3
    <3>4. /\ target' = [target EXCEPT !["window"] = n]
          /\ mapKey' = [mapKey EXCEPT !["window"] = built + 1]
          /\ targetAborted' = targetAborted
      BY <2>3, <3>1 DEF ResizeWindow
    <3>5. target'["window"] = n /\ target'["view"] = v
      BY <2>1, <3>4
    <3>6. target' \in [{"window", "view"} -> TargetState]
      BY <2>1, <3>3, <3>4
    <3>7. /\ mapKey'["window"] = built + 1 /\ mapKey'["view"] = mapKey["view"]
          /\ mapKey' \in [{"window", "view"} -> Chain0]
      BY <2>1, <3>2, <3>4
    <3>8. targetAborted' \in BOOLEAN
      BY <3>4 DEF TargetInv, TargetTypeOK
    <3> QED
      BY <3>3, <3>5, <3>6, <3>7, <3>8
  <2>4. CASE ~Accepts(w)
    <3>1. target' = target /\ mapKey' = mapKey /\ targetAborted' = TRUE
      BY <2>4 DEF ResizeWindow
    <3> QED
      BY <1>2, <2>1, <2>2, <3>1
  <2> QED
    BY <2>3, <2>4
<1>5. TargetTypeOK'
  <2>1. built' \in Chain0 /\ torn' \subseteq 1 .. built' /\ viewChain' \in 0 .. built'
    <3>1. built + 1 \in 0 .. MaxSwapchains
      BY <1>2, <1>3
    <3>2. 1 .. built \subseteq 1 .. built + 1 /\ 0 .. built \subseteq 0 .. built + 1
      <4>1. built \in Nat
        BY <1>2
      <4> QED
        BY <4>1
    <3>3. torn \cup {w.chain} \subseteq 1 .. built + 1 /\ viewChain \in 0 .. built + 1
      BY <1>2, <3>2, Zenon
    <3> QED
      BY <1>1, <1>2, <3>1, <3>3
  <2> QED
    BY <1>1, <1>4, <2>1 DEF TargetInv, TargetTypeOK
<1>6. \A t \in {"window", "view"} : Bound(target'[t])
  BY <1>4 DEF TargetInv
<1>7. SurfaceApart'
  <2>1. PICK n : n = target'["window"]
    OBVIOUS
  <2>2. n.chain \in 1 .. built + 1 /\ n.keep = NoChain
    BY <1>2, <1>4, <2>1
  <2>3. n.chain \notin {viewChain, v.chain, v.keep}
    <3>1. w.chain \notin {viewChain, v.chain, v.keep}
      BY DEF TargetInv, SurfaceApart
    <3>2. viewChain # built + 1 /\ v.chain # built + 1 /\ v.keep # built + 1
      <4>1. viewChain \in Nat /\ viewChain <= built /\ v.chain \in Nat /\ v.keep \in Nat
        BY <1>2
      <4> QED
        BY <1>2, <4>1
    <3>3. n.chain = w.chain \/ n.chain = built + 1
      BY <1>4, <2>1
    <3> QED
      BY <3>1, <3>2, <3>3
  <2>4. ~targetAborted' => n.chain \notin torn'
    <3>1. ~targetAborted' => n.chain = built + 1
      BY <1>4, <2>1
    <3>2. built + 1 \notin torn /\ built + 1 # w.chain
      BY <1>2
    <3>3. torn' = torn \cup {w.chain}
      BY <1>1
    <3> QED
      BY <3>1, <3>2, <3>3
  <2> QED
    BY <1>1, <1>4, <2>1, <2>2, <2>3, <2>4 DEF SurfaceApart
<1>8. DrawnFromTarget'
  BY <1>1, <1>4 DEF TargetInv, DrawnFromTarget, SurfaceApart, Mounted
<1>9. ViewChains'
  <2>1. \A d \in Chain0 : d > built' => presentQueue'[d] = <<>>
    BY <1>1, <1>2 DEF TargetInv, ViewChains
  <2>2. viewHasChanged' => built' < MaxSwapchains
    BY <1>1, <1>2, <1>3 DEF viewHasChanged, Visible
  <2>3. w.chain \notin {viewChain, v.chain, v.keep}
    BY DEF TargetInv, SurfaceApart
  <2> QED
    BY <1>1, <1>2, <1>4, <2>1, <2>2, <2>3 DEF TargetInv, ViewChains, Mounted
<1>10. ImagesInOneQueue'
  BY <1>1, <1>4 DEF TargetInv, ImagesInOneQueue
<1>11. InStep'
  BY <1>1, <1>4 DEF TargetInv, InStep, Ahead
<1>12. MappedUnderCurrent'
  BY <1>1, <1>4 DEF TargetInv, MappedUnderCurrent, Mounted
<1> QED
  BY <1>5, <1>6, <1>7, <1>8, <1>9, <1>10, <1>11, <1>12 DEF TargetInv

LEMMA ReflowInv ==
    ASSUME TargetInv, ReflowTick
    PROVE  TargetInv'
<1> DEFINE v == target["view"]
           c == viewChain
           takes == c # NoChain /\ presentQueue[c] # <<>>
<1>1. /\ UNCHANGED <<built, extent, torn, wanted, viewChain, target, mapKey, viewFirst,
                     targetAborted>>
      /\ ~targetAborted
      /\ pending' = {t \in {"window", "view"} : target[t].chain # NoChain}
  BY DEF ReflowTick
<1>2. /\ v \in TargetState /\ v.chain \in Chain0 /\ viewChain \in 0 .. built /\ viewChain \in Chain0
      /\ viewImage \in Image
      /\ readyQueue \in [1 .. MaxSwapchains -> Seq(Idx)]
      /\ presentQueue \in [1 .. MaxSwapchains -> Seq(Idx)]
  <2>1. v \in TargetState /\ built <= MaxSwapchains /\ viewChain \in Nat /\ built \in Nat
        /\ viewChain <= built
    BY TypesAre DEF TargetInv
  <2>2. viewChain \in Chain0
    BY <2>1, TargetAssumption DEF Chain0
  <2> QED
    BY <2>1, <2>2 DEF TargetInv, TargetTypeOK, TargetState, Image
<1>3. TargetTypeOK' /\ DrawnFromTarget' /\ ViewChains' /\ ImagesInOneQueue' /\ InStep'
  <2>1. CASE ~takes
    <3>1. viewImage' = NoImage /\ readyQueue' = readyQueue /\ presentQueue' = presentQueue
      BY <2>1 DEF ReflowTick
    <3>2. NoImage \in Image
      BY TargetAssumption DEF NoImage, NoChain, Image, Chain0, Idx
    <3>3. TargetTypeOK'
      BY <1>1, <3>1, <3>2 DEF TargetInv, TargetTypeOK, Image
    <3>4. DrawnFromTarget'
      BY <3>1 DEF DrawnFromTarget
    <3>5. ViewChains'
      BY <1>1, <3>1 DEF TargetInv, ViewChains, Mounted, viewHasChanged, Visible
    <3>6. ImagesInOneQueue'
      BY <1>1, <3>1 DEF TargetInv, ImagesInOneQueue
    <3>7. InStep'
      BY <1>1, <3>1 DEF TargetInv, InStep, Ahead
    <3> QED
      BY <3>3, <3>4, <3>5, <3>6, <3>7
  <2>2. CASE takes
    <3>1. Mounted /\ v.chain = c /\ v.mask # AllPasses /\ c \notin torn
      BY <1>1, <2>2 DEF TargetInv, ViewChains, MappedUnderCurrent, Mounted
    <3>2. PICK r, p, idx : r = readyQueue[c] /\ p = presentQueue[c] /\ idx = Head(p)
      OBVIOUS
    <3>3. c \in 1 .. MaxSwapchains /\ c \in 1 .. built /\ built \in Nat
      <4>1. built \in Nat /\ built <= MaxSwapchains /\ MaxSwapchains \in Nat
        BY TypesAre, TargetAssumption DEF TargetInv
      <4> QED
        BY <1>2, <2>2, <4>1 DEF NoChain
    <3>4. r \in Seq(Idx) /\ p \in Seq(Idx) /\ p # <<>> /\ idx \in Idx
      BY <1>2, <2>2, <3>2, <3>3
    <3>5. /\ viewImage' = [chain |-> c, idx |-> idx]
          /\ presentQueue' = [presentQueue EXCEPT ![c] = Tail(p)]
          /\ readyQueue' = [readyQueue EXCEPT ![c] = Append(r, idx)]
      BY <2>2, <3>2 DEF ReflowTick
    <3>6. /\ Append(r, idx) \o Tail(p) = r \o p
          /\ Append(r, idx) \in Seq(Idx) /\ Tail(p) \in Seq(Idx)
      BY <3>2, <3>4, Consumed
    <3>7. /\ readyQueue'[c] = Append(r, idx) /\ presentQueue'[c] = Tail(p)
          /\ \A d : d # c => readyQueue'[d] = readyQueue[d] /\ presentQueue'[d] = presentQueue[d]
          /\ readyQueue' \in [1 .. MaxSwapchains -> Seq(Idx)]
          /\ presentQueue' \in [1 .. MaxSwapchains -> Seq(Idx)]
      BY <1>2, <3>3, <3>5, <3>6
    <3>8. \A d : readyQueue'[d] \o presentQueue'[d] = readyQueue[d] \o presentQueue[d]
      BY <3>2, <3>6, <3>7
    <3>9. TargetTypeOK'
      <4>1. viewImage' \in Image
        BY <1>2, <3>4, <3>5 DEF Image
      <4> QED
        BY <1>1, <3>7, <4>1 DEF TargetInv, TargetTypeOK, Image
    <3>10. DrawnFromTarget'
      BY <1>1, <3>1, <3>5 DEF DrawnFromTarget, Mounted
    <3>11. ViewChains'
      <4>1. \A d \in Chain0 : d > built' => presentQueue'[d] = <<>>
        BY <1>1, <3>3, <3>7 DEF TargetInv, ViewChains
      <4>2. viewHasChanged' <=> viewHasChanged
        BY <1>1 DEF viewHasChanged, Visible
      <4>3. \A t \in pending' : target'[t].chain # NoChain
        BY <1>1
      <4> QED
        BY <1>1, <3>1, <4>1, <4>2, <4>3 DEF TargetInv, ViewChains, Mounted
    <3>12. ImagesInOneQueue'
      BY <1>1, <3>8 DEF TargetInv, ImagesInOneQueue
    <3>13. InStep'
      <4>1. Ahead' = Ahead
        BY <1>1, <3>8 DEF Ahead
      <4> QED
        BY <1>1, <4>1 DEF TargetInv, InStep
    <3> QED
      BY <3>9, <3>10, <3>11, <3>12, <3>13
  <2> QED
    BY <2>1, <2>2
<1>4. \A t \in {"window", "view"} : Bound(target'[t])
  BY <1>1 DEF TargetInv
<1>5. SurfaceApart'
  BY <1>1 DEF TargetInv, SurfaceApart
<1>6. MappedUnderCurrent'
  BY <1>1 DEF TargetInv, MappedUnderCurrent, Mounted
<1> QED
  BY <1>3, <1>4, <1>5, <1>6 DEF TargetInv

\* Invoking a target whose swapchain goes round keeps it in step.
LEMMA InvokedMatches ==
    ASSUME NEW r \in TargetState, NEW q \in Seq(Idx), NEW p \in Seq(Idx),
           q \o p \in Rounds, q # <<>>, Matches(r, q \o p),
           NEW n, n = Invoked(r, [chain |-> r.chain, idx |-> Head(q)])
    PROVE  Matches(n, Tail(q) \o Append(p, Head(q)))
<1> DEFINE image == [chain |-> r.chain, idx |-> Head(q)]
           flip == 1 - r.sync
<1>1. PICK old, new : old = q \o p /\ new = Tail(q) \o Append(p, Head(q))
  OBVIOUS
<1>2. Head(q) = old[1] /\ new[1] = old[2] /\ new[2] = old[1] /\ old # <<>>
  <2>1. Head(q) = old[1] /\ new[1] = old[2] /\ new[2] = old[1]
    BY <1>1, Rendered
  <2>2. old # <<>>
    BY <1>1 DEF Rounds
  <2> QED
    BY <2>1, <2>2
<1>3. image \in Image
  BY DEF Image, TargetState
<1>4. /\ n.chain = r.chain /\ n.first = r.first /\ n.sync = flip
      /\ n.mask = r.mask \ {flip}
      /\ n.bound[flip] = (IF flip \in r.mask THEN image ELSE r.bound[flip])
      /\ n.bound[r.sync] = r.bound[r.sync]
  <2>1. PICK i : i = image
    OBVIOUS
  <2> QED
    BY <1>3, <2>1, InvokedIs
<1>5. AllPasses = {flip, r.sync} /\ flip # r.sync
  BY DEF TargetState, AllPasses, Idx
<1> HIDE DEF flip
<1> SUFFICES Matches(n, new)
  BY <1>1
<1> SUFFICES ASSUME n.chain # NoChain, n.chain # n.first, NEW x \in AllPasses \ n.mask
             PROVE  n.bound[x] = [chain |-> n.chain, idx |-> new[IF x = n.sync THEN 2 ELSE 1]]
  BY DEF Matches
<1>6. r.chain # NoChain /\ r.chain # r.first
  BY <1>4
<1>7. \A y \in AllPasses \ r.mask :
            r.bound[y] = [chain |-> r.chain, idx |-> old[IF y = r.sync THEN 2 ELSE 1]]
  BY <1>1, <1>2, <1>6 DEF Matches
<1>8. CASE x = flip
  <2>1. n.bound[x] = [chain |-> r.chain, idx |-> old[1]]
    BY <1>2, <1>4, <1>5, <1>7, <1>8
  <2> QED
    BY <1>2, <1>4, <1>8, <2>1
<1>9. CASE x = r.sync
  <2>1. x \in AllPasses \ r.mask
    BY <1>4, <1>5, <1>9
  <2>2. n.bound[x] = [chain |-> r.chain, idx |-> old[2]]
    BY <1>4, <1>7, <1>9, <2>1
  <2> QED
    BY <1>2, <1>4, <1>5, <1>9, <2>2
<1> QED
  BY <1>5, <1>8, <1>9

LEMMA InvokeViewInv ==
    ASSUME TargetInv, InvokeView
    PROVE  TargetInv'
<1> DEFINE w == target["window"]
           v == target["view"]
<1> PICK c : c = v.chain
  OBVIOUS
<1>1. /\ UNCHANGED <<built, extent, torn, wanted, viewChain, viewImage, mapKey, viewFirst,
                     targetAborted>>
      /\ "view" \in pending /\ pending' = pending \ {"view"}
  BY DEF InvokeView
<1>2. /\ w \in TargetState /\ v \in TargetState /\ c \in 1 .. MaxSwapchains /\ c \in 1 .. built
      /\ built \in Nat
      /\ readyQueue \in [1 .. MaxSwapchains -> Seq(Idx)]
      /\ presentQueue \in [1 .. MaxSwapchains -> Seq(Idx)]
  <2>1. w \in TargetState /\ v \in TargetState /\ built <= MaxSwapchains /\ built \in Nat
    BY TypesAre DEF TargetInv
  <2>2. c # NoChain /\ c <= built
    BY <1>1 DEF TargetInv, ViewChains, Mounted
  <2>3. c \in Nat /\ MaxSwapchains \in Nat
    BY <2>1, TargetAssumption DEF TargetState, Chain0
  <2> QED
    BY <2>1, <2>2, <2>3 DEF TargetInv, TargetTypeOK, NoChain
<1>3. CASE readyQueue[c] = <<>>
  <2>1. readyQueue' = readyQueue /\ presentQueue' = presentQueue /\ target' = target
    BY <1>3 DEF InvokeView
  <2>2. TargetTypeOK'
    BY <1>1, <2>1 DEF TargetInv, TargetTypeOK
  <2>3. \A t \in {"window", "view"} : Bound(target'[t])
    BY <2>1 DEF TargetInv
  <2>4. SurfaceApart'
    BY <1>1, <2>1 DEF TargetInv, SurfaceApart
  <2>5. ViewChains'
    BY <1>1, <2>1 DEF TargetInv, ViewChains, Mounted, viewHasChanged, Visible
  <2>6. DrawnFromTarget'
    BY <1>1, <2>1 DEF TargetInv, DrawnFromTarget, Mounted
  <2>7. ImagesInOneQueue'
    BY <1>1, <2>1 DEF TargetInv, ImagesInOneQueue
  <2>8. InStep'
    BY <2>1 DEF TargetInv, InStep, Ahead
  <2>9. MappedUnderCurrent'
    BY <1>1, <2>1 DEF TargetInv, MappedUnderCurrent, Mounted
  <2> QED
    BY <2>2, <2>3, <2>4, <2>5, <2>6, <2>7, <2>8, <2>9 DEF TargetInv
<1>4. CASE readyQueue[c] # <<>>
  <2>1. PICK r, q, p, image, n :
            /\ r = v /\ q = readyQueue[c] /\ p = presentQueue[c]
            /\ image = [chain |-> c, idx |-> Head(q)] /\ n = Invoked(r, image)
    OBVIOUS
  <2>2. /\ readyQueue' = [readyQueue EXCEPT ![c] = Tail(q)]
        /\ presentQueue' = [presentQueue EXCEPT ![c] = Append(p, Head(q))]
        /\ target' = [target EXCEPT !["view"] = n]
    BY <1>4, <2>1 DEF InvokeView
  <2>3. /\ q \in Seq(Idx) /\ p \in Seq(Idx) /\ q # <<>> /\ Head(q) \in Idx
        /\ Tail(q) \in Seq(Idx) /\ Append(p, Head(q)) \in Seq(Idx)
        /\ r \in TargetState /\ r.chain = c /\ c \in Chain0
    <3>1. q \in Seq(Idx) /\ p \in Seq(Idx) /\ q # <<>> /\ r \in TargetState /\ r.chain = c
      BY <1>2, <1>4, <2>1
    <3>2. r.chain \in Chain0
      BY <3>1 DEF TargetState
    <3> QED
      BY <3>1, <3>2
  <2>4. image \in Image /\ image.chain = r.chain
    BY <2>1, <2>3 DEF Image
  <2>5. /\ n \in TargetState /\ n.chain = c /\ n.mask # AllPasses
        /\ n.mask = r.mask \ {1 - r.sync}
        /\ n.keep = (IF n.mask = {} THEN NoChain ELSE r.keep)
    <3>1. /\ n \in TargetState /\ n.chain = c /\ n.mask = r.mask \ {1 - r.sync}
          /\ n.keep = (IF n.mask = {} THEN NoChain ELSE r.keep)
      BY <2>1, <2>3, <2>4, InvokedIs
    <3>2. 1 - r.sync \in AllPasses
      BY <2>3 DEF TargetState, Idx, AllPasses
    <3> QED
      BY <3>1, <3>2
  <2>6. Bound(n)
    BY <2>1, <2>3, <2>4, InvokedBound DEF TargetInv
  <2>7. /\ target \in [{"window", "view"} -> TargetState]
        /\ target' \in [{"window", "view"} -> TargetState]
        /\ target'["view"] = n /\ target'["window"] = w
    BY <2>2, <2>5 DEF TargetInv, TargetTypeOK
  <2>8. /\ readyQueue'[c] = Tail(q) /\ presentQueue'[c] = Append(p, Head(q))
        /\ \A d : d # c => readyQueue'[d] = readyQueue[d] /\ presentQueue'[d] = presentQueue[d]
        /\ readyQueue' \in [1 .. MaxSwapchains -> Seq(Idx)]
        /\ presentQueue' \in [1 .. MaxSwapchains -> Seq(Idx)]
    BY <1>2, <2>2, <2>3
  <2>9. c \notin torn /\ q \o p \in Rounds
    <3>1. c \notin torn
      BY <1>4 DEF TargetInv, ViewChains
    <3>2. c # NoChain
      BY <1>2 DEF NoChain
    <3> QED
      BY <2>1, <3>1, <3>2 DEF TargetInv, ImagesInOneQueue, Rounds
  <2>10. TargetTypeOK'
    BY <1>1, <2>7, <2>8 DEF TargetInv, TargetTypeOK
  <2>11. \A t \in {"window", "view"} : Bound(target'[t])
    BY <2>6, <2>7 DEF TargetInv
  <2>12. SurfaceApart'
    <3>1. n.keep = NoChain \/ n.keep = v.keep
      BY <2>1, <2>5
    <3>2. w.chain # NoChain
      BY <1>2 DEF TargetInv, SurfaceApart, NoChain
    <3> QED
      BY <1>1, <2>5, <2>7, <3>1, <3>2 DEF TargetInv, SurfaceApart
  <2>13. ViewChains'
    <3>1. \A d \in Chain0 : d > built' => presentQueue'[d] = <<>>
      BY <1>1, <1>2, <2>8 DEF TargetInv, ViewChains
    <3>2. viewHasChanged' <=> viewHasChanged
      BY <1>1 DEF viewHasChanged, Visible
    <3>3. n.keep <= built
      BY <1>2, <2>1, <2>5 DEF TargetInv, ViewChains, NoChain
    <3>4. c # NoChain /\ n.chain <= built
      BY <1>2, <2>5 DEF NoChain
    <3> QED
      BY <1>1, <2>5, <2>7, <2>9, <3>1, <3>2, <3>3, <3>4 DEF TargetInv, ViewChains, Mounted
  <2>14. DrawnFromTarget'
    <3>1. SUFFICES ASSUME viewImage # NoImage
                   PROVE  /\ viewImage.chain \notin torn /\ n.chain # NoChain
                          /\ \/ viewImage.chain = n.chain
                             \/ viewImage.chain = n.keep /\ n.mask # {}
      BY <1>1, <2>5, <2>7 DEF DrawnFromTarget, Mounted
    <3>2. CASE viewImage.chain = v.chain
      BY <2>1, <2>5, <3>1, <3>2 DEF TargetInv, DrawnFromTarget, Mounted
    <3>3. CASE viewImage.chain = v.keep /\ v.mask = AllPasses
      <4>1. n.mask # {}
        <5>1. r.sync \in AllPasses /\ r.sync # 1 - r.sync
          BY <2>3 DEF AllPasses, TargetState, Idx
        <5> QED
          BY <2>1, <2>5, <3>3, <5>1
      <4> QED
        BY <2>1, <2>5, <3>1, <3>3, <4>1 DEF TargetInv, DrawnFromTarget, Mounted
    <3> QED
      BY <1>1, <3>1, <3>2, <3>3 DEF TargetInv, DrawnFromTarget
  <2>15. ImagesInOneQueue'
    <3>1. Tail(q) \o Append(p, Head(q)) \in Rounds
      BY <2>3, <2>9, Rendered
    <3>2. n.keep = NoChain \/ n.keep = v.keep
      BY <2>1, <2>5
    <3> QED
      BY <1>1, <2>5, <2>7, <2>8, <3>1, <3>2 DEF TargetInv, ImagesInOneQueue, Rounds
  <2>16. InStep'
    <3>1. Matches(r, q \o p)
      BY <2>1 DEF TargetInv, InStep, Ahead
    <3>2. Matches(n, Tail(q) \o Append(p, Head(q)))
      <4>1. n = Invoked(r, [chain |-> r.chain, idx |-> Head(q)])
        BY <2>1, <2>3
      <4> QED
        BY <2>3, <2>9, <3>1, <4>1, InvokedMatches
    <3>3. Ahead' = Tail(q) \o Append(p, Head(q))
      BY <2>5, <2>7, <2>8 DEF Ahead
    <3> QED
      BY <2>7, <3>2, <3>3 DEF InStep
  <2>17. MappedUnderCurrent'
    BY <1>1, <2>5, <2>7 DEF TargetInv, MappedUnderCurrent, Mounted
  <2> QED
    BY <2>10, <2>11, <2>12, <2>13, <2>14, <2>15, <2>16, <2>17 DEF TargetInv
<1> QED
  BY <1>3, <1>4

\* The surface goes on with the swapchain it has when the window is invoked.
LEMMA WindowIs ==
    ASSUME TargetInv, NEW n, n = WindowInvoked
    PROVE  /\ n \in TargetState /\ Bound(n) /\ n.keep = NoChain
           /\ n.chain = target["window"].chain
<1>1. PICK w, image : w = target["window"] /\ image = WindowImage
  OBVIOUS
<1>2. w \in TargetState /\ w.chain \in Chain0 /\ Bound(w) /\ w.keep = NoChain
  BY <1>1, TypesAre DEF TargetInv, TargetState, SurfaceApart
<1>3. image \in Image /\ image.chain = w.chain /\ n = Invoked(w, image)
  BY <1>1, <1>2 DEF WindowImage, Image, Idx, WindowInvoked
<1>4. n \in TargetState /\ n.chain = w.chain /\ n.keep = (IF n.mask = {} THEN NoChain ELSE w.keep)
  BY <1>2, <1>3, InvokedIs
<1>5. Bound(n)
  BY <1>2, <1>3, InvokedBound
<1> QED
  BY <1>1, <1>2, <1>4, <1>5

\* The swapchain that the viewport builds.
LEMMA BuiltIs ==
    ASSUME TargetInv, BuildNextView, viewHasChanged, wanted' = wanted
    PROVE  /\ built' = built + 1 /\ viewChain' = built + 1 /\ built + 1 \in 1 .. MaxSwapchains
           /\ extent' \in [1 .. MaxSwapchains -> Extents \cup {0}]
           /\ readyQueue' \in [1 .. MaxSwapchains -> Seq(Idx)]
           /\ presentQueue' = presentQueue /\ presentQueue[built + 1] = <<>>
           /\ readyQueue'[built + 1] = Images
           /\ \A d : d # built + 1 => readyQueue'[d] = readyQueue[d]
           /\ ~viewHasChanged'
<1>1. /\ built' = built + 1 /\ viewChain' = built + 1 /\ presentQueue' = presentQueue
      /\ extent' = [extent EXCEPT ![built + 1] = wanted]
      /\ readyQueue' = [readyQueue EXCEPT ![built + 1] = Images]
  BY DEF BuildNextView
<1>2. built \in Nat /\ MaxSwapchains \in Nat /\ built < MaxSwapchains
  BY TypesAre, TargetAssumption DEF TargetInv, ViewChains
<1>3. built + 1 \in 1 .. MaxSwapchains /\ built + 1 > built /\ built + 1 \in Chain0
  BY <1>2 DEF Chain0
<1>4. Images \in Seq(Idx)
  BY DEF Images, Idx
<1>5. /\ extent \in [1 .. MaxSwapchains -> Extents \cup {0}] /\ wanted \in Extents \cup {0}
      /\ readyQueue \in [1 .. MaxSwapchains -> Seq(Idx)]
  BY DEF TargetInv, TargetTypeOK
<1>6. extent'[built + 1] = wanted /\ extent' \in [1 .. MaxSwapchains -> Extents \cup {0}]
  BY <1>1, <1>3, <1>5
<1>7. /\ readyQueue' \in [1 .. MaxSwapchains -> Seq(Idx)] /\ readyQueue'[built + 1] = Images
      /\ \A d : d # built + 1 => readyQueue'[d] = readyQueue[d]
  BY <1>1, <1>3, <1>4, <1>5
<1>8. presentQueue[built + 1] = <<>>
  BY <1>3 DEF TargetInv, ViewChains
<1>9. ~viewHasChanged'
  BY <1>1, <1>6 DEF viewHasChanged
<1> QED
  BY <1>1, <1>3, <1>6, <1>7, <1>8, <1>9

\* What drawing the viewport does to its swapchain: nothing, or the next one is built.
Drawing == IF viewHasChanged THEN BuildNextView ELSE UNCHANGED <<swapchains, viewChain>>

LEMMA DrawingIs ==
    ASSUME TargetInv, Drawing, UNCHANGED <<wanted, torn>>
    PROVE  /\ built' \in Nat /\ built' \in Chain0 /\ built <= built' /\ built' <= built + 1
           /\ viewChain' \in 0 .. built' /\ viewChain' \notin torn'
           /\ viewChain' = viewChain \/ (viewChain' = built + 1 /\ built' = built + 1)
           /\ extent' \in [1 .. MaxSwapchains -> Extents \cup {0}]
           /\ readyQueue' \in [1 .. MaxSwapchains -> Seq(Idx)]
           /\ presentQueue' = presentQueue
           /\ \A d : d <= built => readyQueue'[d] = readyQueue[d]
           /\ viewChain' = built + 1 =>
                presentQueue'[viewChain'] = <<>> /\ readyQueue'[viewChain'] = Images
           /\ \A c \in Chain0 : c > built' => presentQueue'[c] = <<>>
           /\ ~viewHasChanged'
<1>1. /\ built \in Nat /\ built \in Chain0 /\ viewChain \in 0 .. built /\ viewChain \notin torn
      /\ torn \subseteq 1 .. built
      /\ \A c \in Chain0 : c > built => presentQueue[c] = <<>>
      /\ extent \in [1 .. MaxSwapchains -> Extents \cup {0}]
      /\ readyQueue \in [1 .. MaxSwapchains -> Seq(Idx)]
  BY TypesAre DEF TargetInv, TargetTypeOK, ViewChains
<1>2. CASE viewHasChanged
  <2>1. BuildNextView
    BY <1>2 DEF Drawing
  <2>2. /\ built' = built + 1 /\ viewChain' = built + 1 /\ built + 1 \in 1 .. MaxSwapchains
        /\ extent' \in [1 .. MaxSwapchains -> Extents \cup {0}]
        /\ readyQueue' \in [1 .. MaxSwapchains -> Seq(Idx)]
        /\ presentQueue' = presentQueue /\ presentQueue[built + 1] = <<>>
        /\ readyQueue'[built + 1] = Images
        /\ \A d : d # built + 1 => readyQueue'[d] = readyQueue[d]
        /\ ~viewHasChanged'
    BY <1>2, <2>1, BuiltIs
  <2>3. built + 1 \in Chain0 /\ built + 1 \in Nat /\ built <= built + 1 /\ built + 1 \in 0 .. built + 1
    BY <1>1, <2>2, TargetAssumption DEF Chain0
  <2>4. built + 1 \notin torn /\ ~(built + 1 <= built)
    BY <1>1
  <2>5. \A c \in Chain0 : c > built + 1 => c > built
    BY <1>1, TargetAssumption DEF Chain0
  <2> QED
    BY <1>1, <2>2, <2>3, <2>4, <2>5
<1>3. CASE ~viewHasChanged
  <2>1. UNCHANGED <<built, extent, readyQueue, presentQueue, viewChain>>
    BY <1>3 DEF Drawing, swapchains
  <2>2. ~viewHasChanged'
    BY <1>3, <2>1 DEF viewHasChanged, Visible
  <2>3. viewChain' # built + 1 /\ built <= built + 1
    BY <1>1, <2>1
  <2> QED
    BY <1>1, <2>1, <2>2, <2>3
<1> QED
  BY <1>2, <1>3

LEMMA DrawInv ==
    ASSUME TargetInv, DrawView
    PROVE  TargetInv'
<1> DEFINE w == target["window"]
           v == target["view"]
<1> PICK n : n = WindowInvoked
  OBVIOUS
<1>1. /\ UNCHANGED <<torn, wanted, viewImage, viewFirst, mapKey, targetAborted>>
      /\ pending' = pending \ {"window"} /\ ~targetAborted
      /\ target' = [target EXCEPT !["window"] = n]
      /\ ~Mounted \/ ~viewHasChanged
      /\ Drawing
  BY DEF DrawView, InvokingWindow, Drawing
<1>2. n \in TargetState /\ Bound(n) /\ n.keep = NoChain /\ n.chain = w.chain
  BY WindowIs
<1>3. /\ target' \in [{"window", "view"} -> TargetState]
      /\ target'["window"] = n /\ target'["view"] = v
  BY <1>1, <1>2 DEF TargetInv, TargetTypeOK
<1>4. /\ v \in TargetState /\ v.chain \in Nat /\ v.keep \in Nat /\ v.chain <= built /\ v.keep <= built
      /\ w.chain \in 1 .. built /\ built \in Nat /\ torn \subseteq 1 .. built
  <2>1. v \in TargetState /\ built \in Nat /\ torn \subseteq 1 .. built
    BY TypesAre DEF TargetInv, TargetTypeOK
  <2>2. v.chain \in Nat /\ v.keep \in Nat
    BY <2>1, TargetAssumption DEF TargetState, Chain0
  <2> QED
    BY <2>1, <2>2 DEF TargetInv, ViewChains, SurfaceApart
<1>5. /\ built' \in Nat /\ built' \in Chain0 /\ built <= built' /\ built' <= built + 1
      /\ viewChain' \in 0 .. built' /\ viewChain' \notin torn'
      /\ viewChain' = viewChain \/ (viewChain' = built + 1 /\ built' = built + 1)
      /\ presentQueue' = presentQueue
      /\ \A d : d <= built => readyQueue'[d] = readyQueue[d]
      /\ viewChain' = built + 1 =>
                presentQueue'[viewChain'] = <<>> /\ readyQueue'[viewChain'] = Images
      /\ \A c \in Chain0 : c > built' => presentQueue'[c] = <<>>
      /\ ~viewHasChanged'
  BY <1>1, DrawingIs
<1>6. TargetTypeOK'
  <2>1. /\ extent' \in [1 .. MaxSwapchains -> Extents \cup {0}]
        /\ readyQueue' \in [1 .. MaxSwapchains -> Seq(Idx)]
    BY <1>1, DrawingIs
  <2>2. torn' \subseteq 1 .. built'
    <3>1. 1 .. built \subseteq 1 .. built'
      BY <1>4, <1>5
    <3> QED
      BY <1>1, <1>4, <3>1
  <2> QED
    BY <1>1, <1>3, <1>5, <2>1, <2>2 DEF TargetInv, TargetTypeOK
<1>7. \A t \in {"window", "view"} : Bound(target'[t])
  BY <1>2, <1>3 DEF TargetInv
<1>8. SurfaceApart'
  <2>1. w.chain \in 1 .. built' /\ w.chain # built + 1
    BY <1>4, <1>5
  <2> QED
    BY <1>1, <1>2, <1>3, <1>5, <2>1 DEF TargetInv, SurfaceApart
<1>9. DrawnFromTarget'
  BY <1>1, <1>3 DEF TargetInv, DrawnFromTarget, Mounted
<1>10. ViewChains'
  <2>1. v.chain <= built' /\ v.keep <= built'
    BY <1>4, <1>5
  <2>2. ~Mounted /\ viewChain' # NoChain => presentQueue'[viewChain'] = <<>>
    BY <1>5 DEF TargetInv, ViewChains
  <2>3. v.chain \in torn' => readyQueue'[v.chain] = <<>> /\ presentQueue'[v.chain] = <<>>
    BY <1>1, <1>4, <1>5 DEF TargetInv, ViewChains
  <2> QED
    BY <1>1, <1>3, <1>5, <2>1, <2>2, <2>3 DEF TargetInv, ViewChains, Mounted
<1>11. ImagesInOneQueue'
  <2> SUFFICES ASSUME NEW c \in {viewChain', v.chain, v.keep}, c \notin torn, c # NoChain
               PROVE  readyQueue'[c] \o presentQueue'[c] \in Rounds
    BY <1>1, <1>3 DEF ImagesInOneQueue, Rounds
  <2>1. CASE c = built + 1
    <3>1. c = viewChain'
      BY <1>4, <2>1
    <3>2. readyQueue'[c] = <<0, 1>> /\ presentQueue'[c] = <<>>
      BY <1>5, <2>1, <3>1 DEF Images
    <3>3. <<0, 1>> \in Seq(Idx)
      BY DEF Idx
    <3> QED
      BY <3>2, <3>3, ConcatEmptySeq DEF Rounds
  <2>2. CASE c # built + 1
    <3>1. c \in {viewChain, v.chain, v.keep} /\ c <= built
      BY <1>4, <1>5, <2>2, TypesAre DEF TargetInv
    <3> QED
      BY <1>5, <3>1 DEF TargetInv, ImagesInOneQueue, Rounds
  <2> QED
    BY <2>1, <2>2
<1>12. InStep'
  <2>1. Ahead' = Ahead
    BY <1>3, <1>4, <1>5 DEF Ahead
  <2> QED
    BY <1>3, <2>1 DEF TargetInv, InStep
<1>13. MappedUnderCurrent'
  <2>1. Mounted => viewChain' = viewChain
    BY <1>1 DEF Drawing
  <2> QED
    BY <1>1, <1>2, <1>3, <2>1 DEF TargetInv, MappedUnderCurrent, Mounted
<1> QED
  BY <1>6, <1>7, <1>8, <1>9, <1>10, <1>11, <1>12, <1>13 DEF TargetInv

LEMMA MountInv ==
    ASSUME TargetInv, MountView
    PROVE  TargetInv'
<1> DEFINE w == target["window"]
           v == target["view"]
<1> PICK n, c, m : n = WindowInvoked /\ c = viewChain' /\ m = Mount(c)
  OBVIOUS
<1>1. /\ UNCHANGED <<torn, wanted, viewImage, viewFirst, targetAborted>>
      /\ pending' = pending \ {"window"} /\ ~targetAborted
      /\ target' = [target EXCEPT !["window"] = n, !["view"] = m]
      /\ mapKey' = [mapKey EXCEPT !["view"] = c]
      /\ ~Mounted /\ Visible
      /\ Drawing
  BY DEF MountView, InvokingWindow, Drawing
<1>2. n \in TargetState /\ Bound(n) /\ n.keep = NoChain /\ n.chain = w.chain
  BY WindowIs
<1>3. /\ w.chain \in 1 .. built /\ built \in Nat /\ torn \subseteq 1 .. built
      /\ viewChain \in 1 .. built
  <2>1. viewChain # NoChain
    BY <1>1 DEF Visible
  <2> QED
    BY <2>1, TypesAre DEF TargetInv, TargetTypeOK, SurfaceApart, NoChain
<1>4. /\ built' \in Nat /\ built' \in Chain0 /\ built <= built' /\ built' <= built + 1
      /\ c \in 0 .. built' /\ c \notin torn'
      /\ c = viewChain \/ (c = built + 1 /\ built' = built + 1)
      /\ presentQueue' = presentQueue
      /\ \A d : d <= built => readyQueue'[d] = readyQueue[d]
      /\ c = built + 1 => presentQueue'[c] = <<>> /\ readyQueue'[c] = Images
      /\ \A d \in Chain0 : d > built' => presentQueue'[d] = <<>>
      /\ ~viewHasChanged'
  BY <1>1, DrawingIs
<1>5. c \in 1 .. built' /\ c \in Chain0 /\ c <= built' /\ c # w.chain /\ w.chain \in 1 .. built'
  <2>1. c \in 1 .. built' /\ w.chain \in 1 .. built'
    BY <1>3, <1>4
  <2>2. c \in Chain0
    BY <1>4, TargetAssumption DEF Chain0
  <2>3. c # w.chain
    BY <1>3, <1>4 DEF TargetInv, SurfaceApart
  <2> QED
    BY <2>1, <2>2, <2>3
<1>6. m \in TargetState /\ m.chain = c /\ m.first = c /\ m.mask = {} /\ m.keep = NoChain /\ Bound(m)
  BY <1>5, MountIs
<1>7. /\ target' \in [{"window", "view"} -> TargetState]
      /\ target'["window"] = n /\ target'["view"] = m
  BY <1>1, <1>2, <1>6 DEF TargetInv, TargetTypeOK
<1>8. /\ mapKey' \in [{"window", "view"} -> Chain0]
      /\ mapKey'["window"] = mapKey["window"] /\ mapKey'["view"] = c
  BY <1>1, <1>5 DEF TargetInv, TargetTypeOK
<1>9. TargetTypeOK'
  <2>1. /\ extent' \in [1 .. MaxSwapchains -> Extents \cup {0}]
        /\ readyQueue' \in [1 .. MaxSwapchains -> Seq(Idx)]
    BY <1>1, DrawingIs
  <2>2. torn' \subseteq 1 .. built'
    <3>1. 1 .. built \subseteq 1 .. built'
      BY <1>3, <1>4
    <3> QED
      BY <1>1, <1>3, <3>1
  <2> QED
    BY <1>1, <1>4, <1>7, <1>8, <2>1, <2>2 DEF TargetInv, TargetTypeOK
<1>10. \A t \in {"window", "view"} : Bound(target'[t])
  BY <1>2, <1>6, <1>7
<1>11. SurfaceApart'
  <2>1. w.chain # NoChain /\ (~targetAborted => w.chain \notin torn)
    BY <1>3 DEF TargetInv, SurfaceApart, NoChain
  <2> QED
    BY <1>1, <1>2, <1>5, <1>6, <1>7, <2>1 DEF SurfaceApart
<1>12. DrawnFromTarget'
  BY <1>1 DEF TargetInv, DrawnFromTarget
<1>13. presentQueue'[c] = <<>>
  <2>1. viewChain # NoChain
    BY <1>3 DEF NoChain
  <2> QED
    BY <1>1, <1>4, <2>1 DEF TargetInv, ViewChains
<1>14. ViewChains'
  <2>1. c # NoChain /\ NoChain <= built'
    BY <1>4, <1>5 DEF NoChain
  <2> QED
    BY <1>1, <1>4, <1>5, <1>6, <1>7, <1>13, <2>1 DEF ViewChains, Mounted
<1>15. readyQueue'[c] \o presentQueue'[c] \in Rounds
  <2>1. CASE c = built + 1
    <3>1. readyQueue'[c] = <<0, 1>> /\ presentQueue'[c] = <<>>
      BY <1>4, <2>1 DEF Images
    <3>2. <<0, 1>> \in Seq(Idx)
      BY DEF Idx
    <3> QED
      BY <3>1, <3>2, ConcatEmptySeq DEF Rounds
  <2>2. CASE c # built + 1
    <3>1. c = viewChain /\ c <= built /\ c # NoChain
      BY <1>3, <1>4, <2>2 DEF NoChain
    <3> QED
      BY <1>1, <1>4, <3>1 DEF TargetInv, ImagesInOneQueue, Rounds
  <2> QED
    BY <2>1, <2>2
<1>16. ImagesInOneQueue'
  BY <1>6, <1>7, <1>15 DEF ImagesInOneQueue, Rounds
<1>17. InStep'
  BY <1>6, <1>7 DEF InStep, Matches
<1>18. MappedUnderCurrent'
  BY <1>1, <1>2, <1>6, <1>7, <1>8 DEF TargetInv, MappedUnderCurrent, Mounted
<1> QED
  BY <1>9, <1>10, <1>11, <1>12, <1>14, <1>16, <1>17, <1>18 DEF TargetInv

LEMMA ResizeViewInv ==
    ASSUME TargetInv, ResizeView
    PROVE  TargetInv'
<1> DEFINE w == target["window"]
<1> PICK v, b, n, m : /\ v = target["view"] /\ b = built + 1
                      /\ n = WindowInvoked /\ m = Transitioned(v, b, v.chain)
  OBVIOUS
<1>1. /\ UNCHANGED <<torn, wanted, viewImage, viewFirst>>
      /\ pending' = pending \ {"window"} /\ ~targetAborted
      /\ Mounted /\ viewHasChanged
  BY DEF ResizeView, InvokingWindow
<1>2. CASE ~(mapKey["view"] = viewChain /\ Accepts(v))
  <2>1. UNCHANGED <<swapchains, viewChain, target, mapKey>> /\ targetAborted' = TRUE
    BY <1>2 DEF ResizeView
  <2>2. UNCHANGED <<built, extent, readyQueue, presentQueue>>
    BY <2>1 DEF swapchains
  <2>3. TargetTypeOK'
    BY <1>1, <2>1, <2>2 DEF TargetInv, TargetTypeOK
  <2>4. \A t \in {"window", "view"} : Bound(target'[t])
    BY <2>1 DEF TargetInv
  <2>5. SurfaceApart'
    BY <1>1, <2>1, <2>2 DEF TargetInv, SurfaceApart
  <2>6. ViewChains'
    BY <1>1, <2>1, <2>2 DEF TargetInv, ViewChains, Mounted, viewHasChanged, Visible
  <2>7. DrawnFromTarget'
    BY <1>1, <2>1 DEF TargetInv, DrawnFromTarget, Mounted
  <2>8. ImagesInOneQueue'
    BY <1>1, <2>1, <2>2 DEF TargetInv, ImagesInOneQueue
  <2>9. InStep'
    BY <2>1, <2>2 DEF TargetInv, InStep, Ahead
  <2>10. MappedUnderCurrent'
    BY <2>1 DEF MappedUnderCurrent
  <2> QED
    BY <2>3, <2>4, <2>5, <2>6, <2>7, <2>8, <2>9, <2>10 DEF TargetInv
<1>3. CASE mapKey["view"] = viewChain /\ Accepts(v)
  <2>1. /\ target' = [target EXCEPT !["view"] = m, !["window"] = n]
        /\ mapKey' = [mapKey EXCEPT !["view"] = b]
        /\ BuildNextView /\ targetAborted' = targetAborted
    BY <1>3 DEF ResizeView
  <2>2. n \in TargetState /\ Bound(n) /\ n.keep = NoChain /\ n.chain = w.chain
    BY WindowIs
  <2>3. /\ built' = b /\ viewChain' = b /\ b \in 1 .. MaxSwapchains
        /\ extent' \in [1 .. MaxSwapchains -> Extents \cup {0}]
        /\ readyQueue' \in [1 .. MaxSwapchains -> Seq(Idx)]
        /\ presentQueue' = presentQueue /\ presentQueue[b] = <<>>
        /\ readyQueue'[b] = Images
        /\ \A d : d # b => readyQueue'[d] = readyQueue[d]
        /\ ~viewHasChanged'
    BY <1>1, <2>1, BuiltIs
  <2>4. /\ w.chain \in 1 .. built /\ built \in Nat /\ torn \subseteq 1 .. built
        /\ v \in TargetState /\ v.chain \in Chain0 /\ v.keep \in Chain0
        /\ v.chain \in Nat /\ v.keep \in Nat /\ v.chain <= built /\ v.keep <= built
    <3>1. v \in TargetState /\ built \in Nat /\ torn \subseteq 1 .. built
      BY TypesAre DEF TargetInv, TargetTypeOK
    <3>2. v.chain \in Chain0 /\ v.keep \in Chain0 /\ v.chain \in Nat /\ v.keep \in Nat
      BY <3>1, TargetAssumption DEF TargetState, Chain0
    <3> QED
      BY <3>1, <3>2 DEF TargetInv, ViewChains, SurfaceApart
  <2>5. b \in Chain0 /\ b > built /\ b \in Nat /\ b # NoChain
    BY <2>3, <2>4, TargetAssumption DEF Chain0, NoChain
  <2>6. /\ m \in TargetState /\ m.chain = b /\ m.first = v.first /\ m.mask = AllPasses
        /\ m.keep = (IF v.ongoing THEN v.keep ELSE v.chain) /\ Bound(m)
    <3>1. PICK prev : prev = v.chain
      OBVIOUS
    <3>2. m = Transitioned(v, b, prev) /\ prev \in Chain0 /\ b \in Chain0 /\ v \in TargetState
      BY <2>4, <2>5, <3>1
    <3>3. /\ m \in TargetState /\ m.chain = b /\ m.first = v.first /\ m.mask = AllPasses
          /\ m.keep = (IF v.ongoing THEN v.keep ELSE prev) /\ Bound(m)
      BY <3>2, TransitionedIs
    <3> QED
      BY <3>1, <3>3
  <2>7. /\ target' \in [{"window", "view"} -> TargetState]
        /\ target'["window"] = n /\ target'["view"] = m
    BY <2>1, <2>2, <2>6 DEF TargetInv, TargetTypeOK
  <2>8. /\ mapKey' \in [{"window", "view"} -> Chain0]
        /\ mapKey'["window"] = mapKey["window"] /\ mapKey'["view"] = b
    BY <2>1, <2>5 DEF TargetInv, TargetTypeOK
  <2>9. m.keep \in {v.keep, v.chain} /\ m.keep \in Nat /\ m.keep <= built
    BY <2>4, <2>6
  <2>10. TargetTypeOK'
    <3>1. b \in 0 .. b /\ torn \subseteq 1 .. b
      <4>1. 1 .. built \subseteq 1 .. b
        BY <2>4
      <4> QED
        BY <2>4, <2>5, <4>1
    <3> QED
      BY <1>1, <2>1, <2>3, <2>5, <2>7, <2>8, <3>1 DEF TargetInv, TargetTypeOK
  <2>11. \A t \in {"window", "view"} : Bound(target'[t])
    BY <2>2, <2>6, <2>7
  <2>12. SurfaceApart'
    <3>1. w.chain \in 1 .. b /\ w.chain # b
      BY <2>4
    <3> QED
      BY <1>1, <2>1, <2>2, <2>3, <2>6, <2>7, <2>9, <3>1 DEF TargetInv, SurfaceApart
  <2>13. ViewChains'
    <3>1. \A d \in Chain0 : d > b => presentQueue'[d] = <<>>
      <4>1. \A d \in Chain0 : d > b => d > built
        BY <2>4, TargetAssumption DEF Chain0
      <4> QED
        BY <2>3, <4>1 DEF TargetInv, ViewChains
    <3>2. b \notin torn /\ b <= b /\ m.keep <= b
      BY <2>4, <2>5, <2>9
    <3> QED
      BY <1>1, <2>3, <2>5, <2>6, <2>7, <3>1, <3>2 DEF ViewChains, Mounted
  <2>14. DrawnFromTarget'
    <3>1. SUFFICES ASSUME viewImage # NoImage
                   PROVE  viewImage.chain \notin torn /\ viewImage.chain = m.keep
      BY <1>1, <2>5, <2>6, <2>7 DEF DrawnFromTarget, Mounted
    <3>2. v.ongoing => v.mask = AllPasses
      BY <1>3 DEF Accepts
    <3>3. v.mask # {} => v.ongoing
      BY DEF TargetInv, Bound
    <3>4. CASE v.ongoing
      BY <2>6, <3>1, <3>2, <3>4 DEF TargetInv, DrawnFromTarget
    <3>5. CASE ~v.ongoing
      <4>1. v.mask = {} /\ v.mask # AllPasses
        BY <3>3, <3>5 DEF AllPasses
      <4> QED
        BY <2>6, <3>1, <3>5, <4>1 DEF TargetInv, DrawnFromTarget
    <3> QED
      BY <3>4, <3>5
  <2>15. ImagesInOneQueue'
    <3> SUFFICES ASSUME NEW c \in {b, m.keep}, c \notin torn, c # NoChain
                 PROVE  readyQueue'[c] \o presentQueue'[c] \in Rounds
      BY <1>1, <2>3, <2>6, <2>7 DEF ImagesInOneQueue, Rounds
    <3>1. CASE c = b
      <4>1. readyQueue'[c] = <<0, 1>> /\ presentQueue'[c] = <<>> /\ <<0, 1>> \in Seq(Idx)
        BY <2>3, <3>1 DEF Images, Idx
      <4> QED
        BY <4>1, ConcatEmptySeq DEF Rounds
    <3>2. CASE c # b
      <4>1. c \in {v.keep, v.chain}
        BY <2>9, <3>2
      <4> QED
        BY <2>3, <3>2, <4>1 DEF TargetInv, ImagesInOneQueue, Rounds
    <3> QED
      BY <3>1, <3>2
  <2>16. InStep'
    BY <2>6, <2>7 DEF InStep, Matches
  <2>17. MappedUnderCurrent'
    BY <1>1, <2>1, <2>2, <2>3, <2>6, <2>7, <2>8 DEF TargetInv, MappedUnderCurrent, Mounted
  <2> QED
    BY <2>10, <2>11, <2>12, <2>13, <2>14, <2>15, <2>16, <2>17 DEF TargetInv
<1> QED
  BY <1>2, <1>3

LEMMA TargetInitInv == TargetInit => TargetInv
<1> SUFFICES ASSUME TargetInit PROVE TargetInv
  OBVIOUS
<1> DEFINE w == Mount(1)
           v == Constructed
<1>1. /\ built = 2 /\ torn = {} /\ viewChain = 2 /\ viewImage = NoImage /\ pending = {}
      /\ ~targetAborted /\ wanted = 0 /\ viewFirst \in BOOLEAN /\ targetAborted \in BOOLEAN
      /\ \A c \in 1 .. MaxSwapchains : presentQueue[c] = <<>>
      /\ target["window"] = w /\ target["view"] = v
      /\ mapKey["window"] = 1 /\ mapKey["view"] = NoChain
  BY DEF TargetInit
<1>2. {0, 1, 2} \subseteq Chain0 /\ 2 \in 1 .. MaxSwapchains /\ NoChain \in Chain0
  BY TargetAssumption DEF Chain0, NoChain
<1>3. w \in TargetState /\ w.chain = 1 /\ w.keep = NoChain /\ Bound(w)
  BY <1>2, MountIs
<1>4. /\ v.chain = NoChain /\ v.keep = NoChain /\ v.mask = {} /\ v.ongoing = FALSE
      /\ v.bound = [p \in AllPasses |-> NoImage]
  BY DEF Constructed
<1>5. v \in TargetState
  <2>1. [p \in AllPasses |-> NoImage] \in [AllPasses -> [chain : Chain0, idx : Idx]]
    BY <1>2 DEF NoImage, Idx
  <2>2. 0 \in Idx /\ {} \in SUBSET AllPasses
    BY DEF Idx
  <2> QED
    BY <1>2, <2>1, <2>2 DEF Constructed, TargetState
<1>6. Bound(v)
  BY <1>4 DEF Bound, NoImage
<1>7. TargetTypeOK
  <2>1. extent \in [1 .. MaxSwapchains -> Extents \cup {0}]
    BY DEF TargetInit
  <2>2. readyQueue \in [1 .. MaxSwapchains -> Seq(Idx)]
    <3>1. <<0, 1>> \in Seq(Idx) /\ <<>> \in Seq(Idx)
      BY DEF Idx
    <3> QED
      BY <3>1 DEF TargetInit, Images
  <2>3. presentQueue \in [1 .. MaxSwapchains -> Seq(Idx)]
    BY DEF TargetInit
  <2>4. target \in [{"window", "view"} -> TargetState]
    BY <1>3, <1>5 DEF TargetInit
  <2>5. mapKey \in [{"window", "view"} -> Chain0]
    BY <1>2 DEF TargetInit
  <2>6. viewImage \in [chain : Chain0, idx : Idx]
    BY <1>1, <1>2 DEF NoImage, Idx
  <2>7. built \in Chain0 /\ viewChain \in 0 .. built /\ torn \subseteq 1 .. built
        /\ wanted \in Extents \cup {0} /\ pending \subseteq {"window", "view"}
    BY <1>1, <1>2
  <2> QED
    BY <1>1, <2>1, <2>2, <2>3, <2>4, <2>5, <2>6, <2>7 DEF TargetTypeOK
<1>8. \A t \in {"window", "view"} : Bound(target[t])
  BY <1>1, <1>3, <1>6
<1>9. SurfaceApart
  BY <1>1, <1>3, <1>4 DEF SurfaceApart, NoChain
<1>10. ViewChains
  <2>1. \A c \in Chain0 : c > 2 => presentQueue[c] = <<>>
    BY <1>1, TargetAssumption DEF Chain0
  <2>2. ~viewHasChanged
    BY <1>1 DEF viewHasChanged, Visible
  <2>3. presentQueue[2] = <<>>
    BY <1>1, <1>2
  <2> QED
    BY <1>1, <1>4, <2>1, <2>2, <2>3 DEF ViewChains, Mounted, NoChain
<1>11. DrawnFromTarget
  BY <1>1 DEF DrawnFromTarget
<1>12. ImagesInOneQueue
  <2>1. readyQueue[2] = <<0, 1>> /\ presentQueue[2] = <<>> /\ <<0, 1>> \in Seq(Idx)
    BY <1>2 DEF TargetInit, Images, Idx
  <2>2. readyQueue[2] \o presentQueue[2] \in Rounds
    BY <2>1, ConcatEmptySeq DEF Rounds
  <2> QED
    BY <1>1, <1>4, <2>2 DEF ImagesInOneQueue, Rounds
<1>13. InStep
  BY <1>1, <1>4 DEF InStep, Matches
<1>14. MappedUnderCurrent
  BY <1>1, <1>3, <1>4 DEF MappedUnderCurrent, Mounted
<1> QED
  BY <1>7, <1>8, <1>9, <1>10, <1>11, <1>12, <1>13, <1>14 DEF TargetInv

LEMMA TargetUnchanged ==
    ASSUME TargetInv, UNCHANGED targetVars
    PROVE  TargetInv'
<1>1. /\ UNCHANGED <<swapchains, torn, viewChain, viewImage, target, mapKey, pending>>
      /\ UNCHANGED <<wanted, viewFirst, targetAborted>>
  BY DEF targetVars
<1>2. UNCHANGED <<built, extent, readyQueue, presentQueue>>
  BY <1>1 DEF swapchains
<1>3. TargetTypeOK'
  BY <1>1, <1>2 DEF TargetInv, TargetTypeOK
<1>4. viewHasChanged' => built < MaxSwapchains
  BY <1>1, <1>2 DEF TargetInv, ViewChains, viewHasChanged, Visible
<1> QED
  BY <1>1, <1>3, <1>4, TargetsKept

LEMMA TargetNextInv ==
    ASSUME TargetInv, [TargetNext]_targetVars
    PROVE  TargetInv'
<1>1. ASSUME NEW e \in Extents \cup {0}, LayoutView(e) PROVE TargetInv'
  BY <1>1, LayoutInv
<1>2. CASE ReorderTargets
  BY <1>2, ReorderInv
<1>3. CASE CloseViewport
  BY <1>3, CloseInv
<1>4. CASE ResizeWindow
  BY <1>4, ResizeWindowInv
<1>5. CASE ReflowTick
  BY <1>5, ReflowInv
<1>6. CASE InvokeView
  BY <1>6, InvokeViewInv
<1>7. CASE DrawView
  BY <1>7, DrawInv
<1>8. CASE MountView
  BY <1>8, MountInv
<1>9. CASE ResizeView
  BY <1>9, ResizeViewInv
<1>10. CASE UNCHANGED targetVars
  BY <1>10, TargetUnchanged
<1> QED
  BY <1>1, <1>2, <1>3, <1>4, <1>5, <1>6, <1>7, <1>8, <1>9, <1>10 DEF TargetNext, TargetsAborted

\* The invariant of the render targets.
THEOREM TargetTheorem == TargetSpec => []TargetInv
<1>1. TargetInv /\ [TargetNext]_targetVars => TargetInv'
  BY TargetNextInv
<1> QED
  BY <1>1, TargetInitInv, PTL DEF TargetSpec

\* presentNext() and acquireNext() find what they expect: no image of a VkSwapchain is
\* lost or handed out twice, and after a transition a pass of RenderTarget renders into
\* the image that is presented after it.
THEOREM InStepTheorem == TargetSpec => []QueuesInStep
<1>1. TargetInv => QueuesInStep
  BY DEF TargetInv, QueuesInStep, InStep, Matches, Ahead, PassMatchesImage, Mounted
<1> QED
  BY <1>1, TargetTheorem, PTL

\* RenderTarget, RenderSceneManager and Viewport agree on the swapchain of a target:
\* no pass, no lookup and no image that is drawn refers to one that is destroyed.
THEOREM CurrentTheorem == TargetSpec => []TargetsCurrent
<1>1. ASSUME TargetInv PROVE TargetsCurrent
  <2>1. BoundToCurrent
    <3>1. \A t \in {"window", "view"} : \A p \in AllPasses \ target[t].mask :
                target[t].bound[p].chain = target[t].chain
      BY <1>1 DEF TargetInv, Bound
    <3>2. ~targetAborted => target["window"].chain \notin torn
      BY <1>1 DEF TargetInv, SurfaceApart
    <3>3. readyQueue[target["view"].chain] # <<>> => target["view"].chain \notin torn
      BY <1>1 DEF TargetInv, ViewChains
    <3> QED
      BY <3>1, <3>2, <3>3 DEF BoundToCurrent
  <2>2. DrawnImageAlive
    BY <1>1 DEF TargetInv, DrawnFromTarget, DrawnImageAlive, Alive
  <2> QED
    BY <1>1, <2>1, <2>2 DEF TargetInv, TargetsCurrent
<1>2. TargetInv => TargetsCurrent
  BY <1>1
<1> QED
  BY <1>2, TargetTheorem, PTL

------------------------------------------------------------------------------
(***************************************************************************)
(* The actions of the editor.                                              *)
(***************************************************************************)

\* Every action is applied once.
Distinct(q) == \A i, j \in DOMAIN q : q[i] = q[j] => i = j

\* The log holds applied actions, in the order in which they were applied.
LogInv ==
    /\ Distinct(applied) /\ LogInOrder
    /\ ToSet(actionLog) \subseteq ToSet(applied)
    /\ \A a \in Action : undone[a] > 0 => a \in ToSet(applied)

\* An inner action is applied by the body of the outer one when it starts, which it
\* does once.
AppliesOnce(q, w, done) ==
    /\ \A a \in Action : Inner[a] \in done => a \in done
    /\ \A i, j \in DOMAIN q :
            q[i].kind = "apply" /\ q[j].kind = "apply" /\ q[i].id = q[j].id => i = j
    /\ \A i \in DOMAIN q : q[i].kind # "caller" => q[i].id \in Action
    /\ \A i \in DOMAIN q : q[i].kind = "apply" => q[i].id \in done
    /\ \A i \in DOMAIN q :
            q[i].kind = "apply" /\ q[i].at = "start" => Inner[q[i].id] \notin done
    /\ \A a \in Action : w[a] # NoCall => Inner[a] \in done

\* A caller is in the fifo once, and as long as it awaits something.
CallersFit(q, w) ==
    /\ \A i \in DOMAIN q : q[i].kind = "caller" => w[q[i].id] # NoCall /\ q[i].at = "resume"
    /\ \A i, j \in DOMAIN q :
            q[i].kind = "caller" /\ q[j].kind = "caller" /\ q[i].id = q[j].id => i = j

\* Who awaits awaits an action.
Named(w) == \A c \in Caller : w[c] # NoCall => w[c].act \in Action

\* A body is awaited by the call that it is for: its signal is not set when it has
\* started, and before it starts its caller is behind it in the fifo.  There is one body
\* of an action.
IsBody(e) == e.kind \in {"apply", "undo"}
Awaited(q, w, f, u) ==
    /\ \A i \in DOMAIN q : IsBody(q[i]) =>
            w[q[i].by].op = q[i].kind /\ w[q[i].by].act = q[i].id
    /\ \A i, j \in DOMAIN q : IsBody(q[i]) /\ IsBody(q[j]) /\ q[i].id = q[j].id => i = j
    /\ \A i \in DOMAIN q : IsBody(q[i]) /\ q[i].at = "resume" => ~f[q[i].id]
    /\ \A i \in DOMAIN q : IsBody(q[i]) /\ q[i].at = "start" =>
            \E j \in DOMAIN q : j > i /\ q[j].kind = "caller" /\ q[j].id = q[i].by
    /\ \A i \in DOMAIN q : q[i].kind = "undo" => u[q[i].id] > 0

ActionInv ==
    /\ ActionTypeOK
    /\ LogInv
    /\ AppliesOnce(work, waits, ToSet(applied))
    /\ CallersFit(work, waits)
    /\ Named(waits)
    /\ ~overlap => Awaited(work, waits, finished, undone) /\ ~stray

\* What is not in the fifo.
NoBody(q, a) == \A i \in DOMAIN q : IsBody(q[i]) => q[i].id # a
NoApply(q, a) == \A i \in DOMAIN q : q[i].kind = "apply" => q[i].id # a
NoBodyBy(q, c) == \A i \in DOMAIN q : IsBody(q[i]) => q[i].by # c
NoCaller(q, c) == \A i \in DOMAIN q : q[i].kind = "caller" => q[i].id # c

\* The worker takes an entry from the front.
LEMMA Dropped ==
    ASSUME NEW q \in Seq(WorkEntry), q # <<>>, NEW t, t = Tail(q), NEW e, e = Head(q)
    PROVE  /\ t \in Seq(WorkEntry) /\ e \in WorkEntry /\ e = q[1] /\ 1 \in DOMAIN q
           /\ \A w, done : AppliesOnce(q, w, done) =>
                AppliesOnce(t, w, done) /\ (e.kind = "apply" => NoApply(t, e.id))
           /\ \A w : CallersFit(q, w) =>
                CallersFit(t, w) /\ (e.kind = "caller" => NoCaller(t, e.id))
           /\ \A w, f, u : Awaited(q, w, f, u) =>
                Awaited(t, w, f, u) /\ (IsBody(e) => NoBody(t, e.id))
<1>1. /\ t \in Seq(WorkEntry) /\ e \in WorkEntry /\ e = q[1] /\ 1 \in DOMAIN q
      /\ Len(q) \in Nat \ {0} /\ Len(t) = Len(q) - 1
  OBVIOUS
<1>2. \A i \in DOMAIN t : i \in 1 .. Len(q) - 1 /\ i + 1 \in DOMAIN q /\ i + 1 # 1 /\ t[i] = q[i + 1]
  BY <1>1
<1>3. \A j \in DOMAIN q : j = 1 \/ (j - 1 \in DOMAIN t /\ t[j - 1] = q[j])
  BY <1>1
<1>4. \A i, j \in DOMAIN t : i + 1 = j + 1 => i = j
  BY <1>1
<1>5. ASSUME NEW w, NEW done, AppliesOnce(q, w, done)
      PROVE  AppliesOnce(t, w, done) /\ (e.kind = "apply" => NoApply(t, e.id))
  BY <1>1, <1>2, <1>4, <1>5 DEF AppliesOnce, NoApply
<1>6. ASSUME NEW w, CallersFit(q, w)
      PROVE  CallersFit(t, w) /\ (e.kind = "caller" => NoCaller(t, e.id))
  BY <1>1, <1>2, <1>4, <1>6 DEF CallersFit, NoCaller
<1>7. ASSUME NEW w, NEW f, NEW u, Awaited(q, w, f, u)
      PROVE  Awaited(t, w, f, u) /\ (IsBody(e) => NoBody(t, e.id))
  <2>1. IsBody(e) => NoBody(t, e.id)
    BY <1>1, <1>2, <1>7 DEF Awaited, NoBody
  <2>2. ASSUME NEW i \in DOMAIN t, IsBody(t[i]), t[i].at = "start"
        PROVE  \E j \in DOMAIN t : j > i /\ t[j].kind = "caller" /\ t[j].id = t[i].by
    <3>1. PICK j \in DOMAIN q : j > i + 1 /\ q[j].kind = "caller" /\ q[j].id = q[i + 1].by
      BY <1>2, <1>7, <2>2 DEF Awaited
    <3>2. j - 1 \in DOMAIN t /\ t[j - 1] = q[j] /\ j - 1 > i
      <4>1. i \in Nat /\ j \in Nat /\ j > i + 1 /\ i >= 1
        BY <1>1, <3>1
      <4> QED
        BY <1>3, <3>1, <4>1
    <3> QED
      BY <1>2, <3>1, <3>2
  <2>3. /\ \A i \in DOMAIN t : IsBody(t[i]) => w[t[i].by].op = t[i].kind /\ w[t[i].by].act = t[i].id
        /\ \A i \in DOMAIN t : IsBody(t[i]) /\ t[i].at = "resume" => ~f[t[i].id]
        /\ \A i \in DOMAIN t : t[i].kind = "undo" => u[t[i].id] > 0
    BY <1>2, <1>7 DEF Awaited
  <2>4. \A i, j \in DOMAIN t : IsBody(t[i]) /\ IsBody(t[j]) /\ t[i].id = t[j].id => i = j
    BY <1>2, <1>4, <1>7 DEF Awaited
  <2> QED
    BY <2>1, <2>2, <2>3, <2>4 DEF Awaited
<1> QED
  BY <1>1, <1>5, <1>6, <1>7

\* An entry is pushed: a body that has been started, or a caller.
LEMMA Pushed ==
    ASSUME NEW q \in Seq(WorkEntry), NEW e \in WorkEntry, NEW t, t = Append(q, e)
    PROVE  /\ t \in Seq(WorkEntry)
           /\ \A w, done : AppliesOnce(q, w, done) /\ (e.kind # "caller" => e.id \in Action)
              /\ (e.kind = "apply" => NoApply(q, e.id) /\ e.id \in done /\ e.at = "resume")
                => AppliesOnce(t, w, done)
           /\ \A w : CallersFit(q, w)
              /\ (e.kind = "caller" => w[e.id] # NoCall /\ e.at = "resume" /\ NoCaller(q, e.id))
                => CallersFit(t, w)
           /\ \A w, f, u : Awaited(q, w, f, u)
              /\ (IsBody(e) => /\ w[e.by].op = e.kind /\ w[e.by].act = e.id
                               /\ NoBody(q, e.id) /\ e.at = "resume" /\ ~f[e.id])
              /\ (e.kind = "undo" => u[e.id] > 0)
                => Awaited(t, w, f, u)
<1> DEFINE n == Len(q) + 1
<1>1. t \in Seq(WorkEntry) /\ Len(q) \in Nat /\ Len(t) = n /\ n \in DOMAIN t /\ t[n] = e
  OBVIOUS
<1>2. \A i \in DOMAIN q : i \in DOMAIN t /\ i < n /\ t[i] = q[i]
  BY <1>1
<1>3. \A i \in DOMAIN t : i = n \/ i \in DOMAIN q
  BY <1>1
<1> HIDE DEF n
<1>4. ASSUME NEW w, NEW done, AppliesOnce(q, w, done), e.kind # "caller" => e.id \in Action,
             e.kind = "apply" => NoApply(q, e.id) /\ e.id \in done /\ e.at = "resume"
      PROVE  AppliesOnce(t, w, done)
  BY <1>1, <1>2, <1>3, <1>4 DEF AppliesOnce, NoApply
<1>5. ASSUME NEW w, CallersFit(q, w),
             e.kind = "caller" => w[e.id] # NoCall /\ e.at = "resume" /\ NoCaller(q, e.id)
      PROVE  CallersFit(t, w)
  BY <1>1, <1>2, <1>3, <1>5 DEF CallersFit, NoCaller
<1>6. ASSUME NEW w, NEW f, NEW u, Awaited(q, w, f, u),
             IsBody(e) => /\ w[e.by].op = e.kind /\ w[e.by].act = e.id
                          /\ NoBody(q, e.id) /\ e.at = "resume" /\ ~f[e.id],
             e.kind = "undo" => u[e.id] > 0
      PROVE  Awaited(t, w, f, u)
  <2>1. ASSUME NEW i \in DOMAIN t, IsBody(t[i]), t[i].at = "start"
        PROVE  \E j \in DOMAIN t : j > i /\ t[j].kind = "caller" /\ t[j].id = t[i].by
    BY <1>1, <1>2, <1>3, <1>6, <2>1 DEF Awaited
  <2>2. /\ \A i \in DOMAIN t : IsBody(t[i]) => w[t[i].by].op = t[i].kind /\ w[t[i].by].act = t[i].id
        /\ \A i \in DOMAIN t : IsBody(t[i]) /\ t[i].at = "resume" => ~f[t[i].id]
        /\ \A i \in DOMAIN t : t[i].kind = "undo" => u[t[i].id] > 0
    BY <1>1, <1>2, <1>3, <1>6 DEF Awaited
  <2>3. \A i, j \in DOMAIN t : IsBody(t[i]) /\ IsBody(t[j]) /\ t[i].id = t[j].id => i = j
    BY <1>1, <1>2, <1>3, <1>6 DEF Awaited, NoBody
  <2> QED
    BY <2>1, <2>2, <2>3 DEF Awaited
<1> QED
  BY <1>1, <1>4, <1>5, <1>6

\* A body goes on at once: its entry stays at the front.
LEMMA Stays ==
    ASSUME NEW q \in Seq(WorkEntry), NEW e \in WorkEntry, NEW t, t = <<e>> \o q, IsBody(e)
    PROVE  /\ t \in Seq(WorkEntry)
           /\ \A w, done : AppliesOnce(q, w, done) /\ e.id \in Action
              /\ (e.kind = "apply" => NoApply(q, e.id) /\ e.id \in done /\ e.at = "resume")
                => AppliesOnce(t, w, done)
           /\ \A w : CallersFit(q, w) => CallersFit(t, w)
           /\ \A w, f, u : Awaited(q, w, f, u)
              /\ w[e.by].op = e.kind /\ w[e.by].act = e.id
              /\ NoBody(q, e.id) /\ e.at = "resume" /\ ~f[e.id]
              /\ (e.kind = "undo" => u[e.id] > 0)
                => Awaited(t, w, f, u)
<1>1. /\ t \in Seq(WorkEntry) /\ Len(q) \in Nat /\ Len(t) = Len(q) + 1 /\ 1 \in DOMAIN t
      /\ t[1] = e
  OBVIOUS
<1>2. \A i \in DOMAIN q : i + 1 \in DOMAIN t /\ t[i + 1] = q[i]
  BY <1>1
<1>3. \A i \in DOMAIN t : i = 1 \/ (i - 1 \in DOMAIN q /\ t[i] = q[i - 1])
  BY <1>1
<1>4. \A i, j \in DOMAIN t : i - 1 = j - 1 => i = j
  BY <1>1
<1>5. ASSUME NEW w, NEW done, AppliesOnce(q, w, done), e.id \in Action,
             e.kind = "apply" => NoApply(q, e.id) /\ e.id \in done /\ e.at = "resume"
      PROVE  AppliesOnce(t, w, done)
  BY <1>1, <1>3, <1>4, <1>5 DEF AppliesOnce, NoApply, IsBody
<1>6. ASSUME NEW w, CallersFit(q, w) PROVE CallersFit(t, w)
  BY <1>1, <1>3, <1>4, <1>6 DEF CallersFit, IsBody
<1>7. ASSUME NEW w, NEW f, NEW u, Awaited(q, w, f, u), w[e.by].op = e.kind, w[e.by].act = e.id,
             NoBody(q, e.id), e.at = "resume", ~f[e.id], e.kind = "undo" => u[e.id] > 0
      PROVE  Awaited(t, w, f, u)
  <2>1. ASSUME NEW i \in DOMAIN t, IsBody(t[i]), t[i].at = "start"
        PROVE  \E j \in DOMAIN t : j > i /\ t[j].kind = "caller" /\ t[j].id = t[i].by
    <3>1. i # 1 /\ i - 1 \in DOMAIN q /\ t[i] = q[i - 1]
      BY <1>1, <1>3, <1>7, <2>1
    <3>2. PICK j \in DOMAIN q : j > i - 1 /\ q[j].kind = "caller" /\ q[j].id = q[i - 1].by
      BY <1>7, <2>1, <3>1 DEF Awaited
    <3>3. j + 1 > i
      BY <1>1, <3>2
    <3> QED
      BY <1>2, <3>1, <3>2, <3>3
  <2>2. /\ \A i \in DOMAIN t : IsBody(t[i]) => w[t[i].by].op = t[i].kind /\ w[t[i].by].act = t[i].id
        /\ \A i \in DOMAIN t : IsBody(t[i]) /\ t[i].at = "resume" => ~f[t[i].id]
        /\ \A i \in DOMAIN t : t[i].kind = "undo" => u[t[i].id] > 0
    BY <1>1, <1>3, <1>7 DEF Awaited
  <2>3. \A i, j \in DOMAIN t : IsBody(t[i]) /\ IsBody(t[j]) /\ t[i].id = t[j].id => i = j
    BY <1>1, <1>3, <1>4, <1>7 DEF Awaited, NoBody
  <2> QED
    BY <2>1, <2>2, <2>3 DEF Awaited
<1> QED
  BY <1>1, <1>5, <1>6, <1>7

\* The dispatcher pushes a body and then the caller that awaits it.
LEMMA DispatchedFits ==
    ASSUME NEW q \in Seq(WorkEntry), NEW op \in {"apply", "undo", "revoke"}, NEW a \in Action,
           NEW c \in Caller, NEW t, t = Dispatched(q, op, a, c)
    PROVE  /\ t \in Seq(WorkEntry)
           /\ \A w, done : AppliesOnce(q, w, done)
              /\ (op = "apply" => NoApply(q, a) /\ a \in done /\ Inner[a] \notin done)
                => AppliesOnce(t, w, done)
           /\ \A w : CallersFit(q, w) /\ w[c] # NoCall /\ NoCaller(q, c) => CallersFit(t, w)
           /\ \A w, f, u : Awaited(q, w, f, u)
              /\ (op # "revoke" => w[c].op = op /\ w[c].act = a /\ NoBody(q, a))
              /\ (op = "undo" => u[a] > 0)
                => Awaited(t, w, f, u)
<1> PICK e, d : e = Entered(op, a, "start", c) /\ d = Entered("caller", c, "resume", c)
  OBVIOUS
<1>1. /\ e \in WorkEntry /\ e.kind = op /\ e.id = a /\ e.at = "start" /\ e.by = c
      /\ d \in WorkEntry /\ d.kind = "caller" /\ d.id = c /\ d.at = "resume"
  BY DEF Entered, WorkEntry, Caller
<1> DEFINE n == Len(q) + 1
           m == Len(q) + 2
<1>2. t = q \o <<e, d>>
  BY DEF Dispatched
<1>3. /\ t \in Seq(WorkEntry) /\ Len(q) \in Nat /\ Len(t) = m
      /\ n \in DOMAIN t /\ m \in DOMAIN t /\ t[n] = e /\ t[m] = d /\ n < m
  BY <1>1, <1>2
<1>4. \A i \in DOMAIN q : i \in DOMAIN t /\ i # n /\ i # m /\ t[i] = q[i]
  BY <1>2, <1>3
<1>5. \A i \in DOMAIN t : i = n \/ i = m \/ i \in DOMAIN q
  BY <1>3
<1>6. \A i \in DOMAIN t : i = n \/ i = m \/ t[i] = q[i]
  BY <1>4, <1>5
<1>7. \A i \in DOMAIN t : t[i].kind # "caller" => i # m
  BY <1>1, <1>3
<1>8. \A i \in DOMAIN t : t[i].kind = "caller" => i # n
  BY <1>1, <1>3
<1> HIDE DEF n, m
<1>9. ASSUME NEW w, NEW done, AppliesOnce(q, w, done),
             op = "apply" => NoApply(q, a) /\ a \in done /\ Inner[a] \notin done
      PROVE  AppliesOnce(t, w, done)
  <2>1. \A i, j \in DOMAIN t :
            t[i].kind = "apply" /\ t[j].kind = "apply" /\ t[i].id = t[j].id => i = j
    BY <1>1, <1>3, <1>5, <1>6, <1>7, <1>9 DEF AppliesOnce, NoApply
  <2>2. \A i \in DOMAIN t : t[i].kind # "caller" => t[i].id \in Action
    BY <1>1, <1>3, <1>5, <1>6, <1>7, <1>9 DEF AppliesOnce
  <2>3. \A i \in DOMAIN t : t[i].kind = "apply" => t[i].id \in done
    BY <1>1, <1>3, <1>5, <1>6, <1>7, <1>9 DEF AppliesOnce
  <2>4. \A i \in DOMAIN t : t[i].kind = "apply" /\ t[i].at = "start" => Inner[t[i].id] \notin done
    BY <1>1, <1>3, <1>5, <1>6, <1>7, <1>9 DEF AppliesOnce
  <2> QED
    BY <1>9, <2>1, <2>2, <2>3, <2>4 DEF AppliesOnce
<1>10. ASSUME NEW w, CallersFit(q, w), w[c] # NoCall, NoCaller(q, c)
       PROVE  CallersFit(t, w)
  BY <1>1, <1>3, <1>5, <1>6, <1>8, <1>10 DEF CallersFit, NoCaller
<1>11. ASSUME NEW w, NEW f, NEW u, Awaited(q, w, f, u), op = "undo" => u[a] > 0,
              op # "revoke" => w[c].op = op /\ w[c].act = a /\ NoBody(q, a)
       PROVE  Awaited(t, w, f, u)
  <2>1. \A i \in DOMAIN t : IsBody(t[i]) => i # m
    BY <1>7 DEF IsBody
  <2>2. IsBody(e) => op # "revoke"
    BY <1>1 DEF IsBody
  <2>3. /\ \A i \in DOMAIN t : IsBody(t[i]) => w[t[i].by].op = t[i].kind /\ w[t[i].by].act = t[i].id
        /\ \A i \in DOMAIN t : IsBody(t[i]) /\ t[i].at = "resume" => ~f[t[i].id]
    BY <1>1, <1>3, <1>5, <1>6, <1>11, <2>1, <2>2 DEF Awaited
  <2>4. \A i \in DOMAIN t : t[i].kind = "undo" => u[t[i].id] > 0
    BY <1>1, <1>3, <1>5, <1>6, <1>7, <1>11 DEF Awaited
  <2>5. \A i, j \in DOMAIN t : IsBody(t[i]) /\ IsBody(t[j]) /\ t[i].id = t[j].id => i = j
    BY <1>1, <1>3, <1>5, <1>6, <1>11, <2>1, <2>2 DEF Awaited, NoBody
  <2>6. ASSUME NEW i \in DOMAIN t, IsBody(t[i]), t[i].at = "start"
        PROVE  \E j \in DOMAIN t : j > i /\ t[j].kind = "caller" /\ t[j].id = t[i].by
    <3>1. CASE i = n
      <4>1. m > n
        BY <1>3 DEF n, m
      <4> QED
        BY <1>1, <1>3, <3>1, <4>1
    <3>2. CASE i \in DOMAIN q
      <4>1. PICK j \in DOMAIN q : j > i /\ q[j].kind = "caller" /\ q[j].id = q[i].by
        BY <1>4, <1>11, <2>6, <3>2 DEF Awaited
      <4> QED
        BY <1>4, <3>2, <4>1
    <3> QED
      BY <1>5, <2>1, <2>6, <3>1, <3>2
  <2> QED
    BY <2>3, <2>4, <2>5, <2>6 DEF Awaited
<1> QED
  BY <1>3, <1>9, <1>10, <1>11

\* A caller begins to await something else, or nothing.
Rewaiting(w, c, x) == [w EXCEPT ![c] = x]

LEMMA Rewaits ==
    ASSUME NEW q \in Seq(WorkEntry), NEW w \in [Caller -> ActionCall], NEW c \in Caller,
           NEW x \in ActionCall, NEW v, v = Rewaiting(w, c, x)
    PROVE  /\ v \in [Caller -> ActionCall] /\ v[c] = x
           /\ \A done : AppliesOnce(q, w, done) /\ (c \in Action /\ x # NoCall => Inner[c] \in done)
                => AppliesOnce(q, v, done)
           /\ CallersFit(q, w) /\ (x # NoCall \/ NoCaller(q, c)) => CallersFit(q, v)
           /\ \A f, u : Awaited(q, w, f, u) /\ (NoBodyBy(q, c) \/ (x.op = w[c].op /\ x.act = w[c].act))
                => Awaited(q, v, f, u)
<1>1. v \in [Caller -> ActionCall] /\ v[c] = x /\ \A d \in Caller : d # c => v[d] = w[d]
  BY DEF Rewaiting
<1>2. \A i \in DOMAIN q : q[i].id \in Caller /\ q[i].by \in Caller
  <2>1. \A i \in DOMAIN q : q[i] \in WorkEntry
    OBVIOUS
  <2> QED
    BY <2>1 DEF WorkEntry
<1>3. ASSUME NEW done, AppliesOnce(q, w, done), c \in Action /\ x # NoCall => Inner[c] \in done
      PROVE  AppliesOnce(q, v, done)
  <2>1. \A a \in Action : v[a] # NoCall => Inner[a] \in done
    BY <1>1, <1>3 DEF AppliesOnce, Caller
  <2> QED
    BY <1>3, <2>1 DEF AppliesOnce
<1>4. ASSUME CallersFit(q, w), x # NoCall \/ NoCaller(q, c) PROVE CallersFit(q, v)
  BY <1>1, <1>2, <1>4 DEF CallersFit, NoCaller
<1>5. ASSUME NEW f, NEW u, Awaited(q, w, f, u), NoBodyBy(q, c) \/ (x.op = w[c].op /\ x.act = w[c].act)
      PROVE  Awaited(q, v, f, u)
  <2>1. \A i \in DOMAIN q : IsBody(q[i]) => v[q[i].by].op = q[i].kind /\ v[q[i].by].act = q[i].id
    BY <1>1, <1>2, <1>5 DEF Awaited, NoBodyBy
  <2> QED
    BY <1>5, <2>1 DEF Awaited
<1> QED
  BY <1>1, <1>3, <1>4, <1>5

LEMMA NamesAction ==
    ASSUME NEW w \in [Caller -> ActionCall], Named(w), NEW c \in Caller
    PROVE  /\ \A op, a : a \in Action => Named(Rewaiting(w, c, Awaiting(op, a)))
           /\ Named(Rewaiting(w, c, NoCall))
           /\ \A x : x.act = w[c].act /\ w[c] # NoCall => Named(Rewaiting(w, c, x))
  BY DEF Named, Rewaiting, Awaiting

\* The signal of an action is cleared, or set when its body has left the fifo.
Signalled(f, a, b) == [f EXCEPT ![a] = b]

LEMMA Signals ==
    ASSUME NEW q \in Seq(WorkEntry), NEW f \in [Action -> BOOLEAN], NEW a \in Action,
           NEW b \in BOOLEAN, NEW g, g = Signalled(f, a, b),
           NEW w, NEW done, AppliesOnce(q, w, done)
    PROVE  /\ g \in [Action -> BOOLEAN] /\ g[a] = b
           /\ \A v, u : Awaited(q, v, f, u) /\ (~b \/ NoBody(q, a)) => Awaited(q, v, g, u)
<1>1. g \in [Action -> BOOLEAN] /\ g[a] = b /\ \A d \in Action : d # a => g[d] = f[d]
  BY DEF Signalled
<1>2. \A i \in DOMAIN q : IsBody(q[i]) => q[i].id \in Action
  BY DEF AppliesOnce, IsBody
<1>3. ASSUME NEW v, NEW u, Awaited(q, v, f, u), ~b \/ NoBody(q, a) PROVE Awaited(q, v, g, u)
  <2>1. \A i \in DOMAIN q : IsBody(q[i]) /\ q[i].at = "resume" => ~g[q[i].id]
    BY <1>1, <1>2, <1>3 DEF Awaited, NoBody
  <2> QED
    BY <1>3, <2>1 DEF Awaited
<1> QED
  BY <1>1, <1>3

\* An action is undone once more.
Undoing(u, a) == [u EXCEPT ![a] = @ + 1]

LEMMA Undoes ==
    ASSUME NEW q \in Seq(WorkEntry), NEW u \in [Action -> Nat], NEW a \in Action,
           NEW v, v = Undoing(u, a), NEW w, NEW done, AppliesOnce(q, w, done)
    PROVE  /\ v \in [Action -> Nat] /\ v[a] = u[a] + 1 /\ v[a] > 0
           /\ \A b \in Action : b # a => v[b] = u[b]
           /\ \A x, f : Awaited(q, x, f, u) => Awaited(q, x, f, v)
<1>1. /\ v \in [Action -> Nat] /\ v[a] = u[a] + 1 /\ v[a] > 0
      /\ \A b \in Action : b # a => v[b] = u[b]
  BY DEF Undoing
<1>2. \A i \in DOMAIN q : q[i].kind = "undo" => q[i].id \in Action
  BY DEF AppliesOnce
<1>3. ASSUME NEW x, NEW f, Awaited(q, x, f, u) PROVE Awaited(q, x, f, v)
  <2>1. \A i \in DOMAIN q : q[i].kind = "undo" => v[q[i].id] > 0
    BY <1>1, <1>2, <1>3 DEF Awaited
  <2> QED
    BY <1>3, <2>1 DEF Awaited
<1> QED
  BY <1>1, <1>3

\* Another action is logged: nobody else would apply it.
NoneAhead(q, a) == \A i \in DOMAIN q : q[i].kind = "apply" /\ q[i].at = "start" => q[i].id # a
OnlyNow(q, a, done) == \A b \in Action : Inner[b] = a => b \in done /\ NoneAhead(q, b)

LEMMA Applies ==
    ASSUME NEW q, NEW w, NEW done, AppliesOnce(q, w, done), NEW a \in Action,
           OnlyNow(q, a, done)
    PROVE  AppliesOnce(q, w, done \cup {a})
<1>1. \A b \in Action : Inner[b] \in done \cup {a} => b \in done \cup {a}
  BY DEF AppliesOnce, OnlyNow
<1>2. \A i \in DOMAIN q : q[i].kind = "apply" /\ q[i].at = "start" =>
            Inner[q[i].id] \notin done \cup {a}
  BY DEF AppliesOnce, NoneAhead, OnlyNow
<1> QED
  BY <1>1, <1>2 DEF AppliesOnce

\* Where an action stands in the order in which they were applied.
Pos(q, a) == CHOOSE i \in DOMAIN q : q[i] = a

LEMMA PosIs ==
    ASSUME NEW q \in Seq(Action), NEW a \in ToSet(q)
    PROVE  Pos(q, a) \in 1 .. Len(q) /\ q[Pos(q, a)] = a
<1>1. \E i \in DOMAIN q : q[i] = a
  BY DEF ToSet
<1> QED
  BY <1>1 DEF Pos

LEMMA PosAppended ==
    ASSUME NEW q \in Seq(Action), Distinct(q), NEW a \in Action, a \notin ToSet(q),
           NEW t, t = Append(q, a)
    PROVE  /\ t \in Seq(Action) /\ Distinct(t) /\ ToSet(t) = ToSet(q) \cup {a}
           /\ Pos(t, a) = Len(q) + 1
           /\ \A b \in ToSet(q) : Pos(t, b) = Pos(q, b) /\ Pos(q, b) \in Nat /\ Pos(t, b) < Pos(t, a)
<1> DEFINE n == Len(q) + 1
<1>1. /\ t \in Seq(Action) /\ DOMAIN t = 1 .. n /\ t[n] = a /\ Len(q) \in Nat
      /\ DOMAIN q = 1 .. Len(q) /\ \A i \in DOMAIN q : t[i] = q[i] /\ i < n
  OBVIOUS
<1>2. \A i \in DOMAIN t : i = n \/ i \in DOMAIN q
  BY <1>1
<1>3. \A i \in DOMAIN q : q[i] # a
  BY DEF ToSet
<1>4. n \in DOMAIN t /\ \A i \in DOMAIN q : i \in DOMAIN t
  BY <1>1
<1> HIDE DEF n
<1>5. Distinct(t)
  BY <1>1, <1>2, <1>3 DEF Distinct
<1>6. ToSet(t) = ToSet(q) \cup {a}
  BY <1>1, <1>2, <1>4 DEF ToSet
<1>7. Pos(t, a) = n
  <2>1. \A i \in DOMAIN t : t[i] = a <=> i = n
    BY <1>1, <1>2, <1>3
  <2> QED
    BY <1>4, <2>1 DEF Pos
<1>8. ASSUME NEW b \in ToSet(q)
      PROVE  Pos(t, b) = Pos(q, b) /\ Pos(q, b) \in Nat /\ Pos(t, b) < n
  <2>1. PICK k \in DOMAIN q : k = Pos(q, b) /\ q[k] = b
    BY <1>1, <1>8, PosIs
  <2>2. \A i \in DOMAIN t : t[i] = b <=> i = k
    BY <1>1, <1>2, <1>3, <1>4, <2>1 DEF Distinct
  <2>3. Pos(t, b) = k
    BY <1>4, <2>1, <2>2 DEF Pos
  <2> QED
    BY <1>1, <2>1, <2>3
<1> QED
  BY <1>1, <1>5, <1>6, <1>7, <1>8 DEF n

\* LogInOrder, of any log.
Left(log, q, u) == {a \in ToSet(q) : a \notin ToSet(log) /\ u[a] = 0}
Ordered(log, q, u, running) ==
    /\ \A i, j \in DOMAIN log : i < j => Pos(q, log[i]) < Pos(q, log[j])
    /\ running => \A a \in Left(log, q, u), b \in ToSet(log) : Pos(q, a) < Pos(q, b)
    /\ \A a \in Action : u[a] <= 1 /\ (u[a] = 1 => a \notin ToSet(log))

LEMMA OrderedIs == LogInOrder <=> Ordered(actionLog, applied, undone, Running)
  BY DEF LogInOrder, Ordered, Left, Pos

\* The log forgets the oldest.
LEMMA OrderedTail ==
    ASSUME NEW log \in Seq(Action), log # <<>>, NEW t, t = Tail(log), NEW q \in Seq(Action),
           NEW u \in [Action -> Nat], NEW running,
           Ordered(log, q, u, running), ToSet(log) \subseteq ToSet(q)
    PROVE  Ordered(t, q, u, running) /\ ToSet(t) \subseteq ToSet(log) /\ t \in Seq(Action)
           /\ Len(t) = Len(log) - 1
<1>1. /\ t \in Seq(Action) /\ Len(log) \in Nat \ {0} /\ Len(t) = Len(log) - 1
      /\ 1 \in DOMAIN log /\ DOMAIN log = 1 .. Len(log) /\ DOMAIN t = 1 .. Len(log) - 1
  OBVIOUS
<1>2. \A i \in DOMAIN t : i \in Nat /\ i + 1 \in DOMAIN log /\ 1 < i + 1 /\ t[i] = log[i + 1]
  BY <1>1
<1>3. \A b \in ToSet(t) : \E i \in DOMAIN log : 1 < i /\ b = log[i]
  BY <1>2 DEF ToSet
<1>4. ToSet(t) \subseteq ToSet(log)
  BY <1>3 DEF ToSet
<1>5. \A b \in ToSet(log) : b = log[1] \/ b \in ToSet(t)
  <2>1. \A i \in DOMAIN log : i = 1 \/ (i - 1 \in DOMAIN t /\ t[i - 1] = log[i])
    BY <1>1
  <2>2. \A i \in DOMAIN log : log[i] = log[1] \/ log[i] \in ToSet(t)
    BY <2>1 DEF ToSet
  <2> QED
    BY <2>2 DEF ToSet
<1>6. \A b \in ToSet(t) : Pos(q, log[1]) < Pos(q, b)
  BY <1>1, <1>3 DEF Ordered
<1>7. \A i, j \in DOMAIN t : i < j => Pos(q, t[i]) < Pos(q, t[j])
  <2> SUFFICES ASSUME NEW i \in DOMAIN t, NEW j \in DOMAIN t, i < j
               PROVE  Pos(q, t[i]) < Pos(q, t[j])
    OBVIOUS
  <2>1. i + 1 < j + 1 /\ i + 1 \in DOMAIN log /\ j + 1 \in DOMAIN log
    BY <1>2
  <2> QED
    BY <1>2, <2>1 DEF Ordered
<1>8. ASSUME running, NEW a \in Left(t, q, u), NEW b \in ToSet(t)
      PROVE  Pos(q, a) < Pos(q, b)
  <2>1. a = log[1] \/ a \in Left(log, q, u)
    BY <1>5, <1>8 DEF Left
  <2> QED
    BY <1>4, <1>6, <1>8, <2>1 DEF Ordered
<1> QED
  BY <1>1, <1>4, <1>7, <1>8 DEF Ordered

\* The action that is applied is the newest.
LEMMA OrderedAppend ==
    ASSUME NEW log \in Seq(Action), NEW q \in Seq(Action), Distinct(q),
           NEW a \in Action, a \notin ToSet(q), NEW u \in [Action -> Nat], u[a] = 0, NEW running,
           Ordered(log, q, u, running), ToSet(log) \subseteq ToSet(q)
    PROVE  Ordered(Append(log, a), Append(q, a), u, running)
<1> PICK l, t : l = Append(log, a) /\ t = Append(q, a)
  OBVIOUS
<1> DEFINE n == Len(log) + 1
<1>1. /\ l \in Seq(Action) /\ DOMAIN l = 1 .. n /\ l[n] = a /\ Len(log) \in Nat
      /\ DOMAIN log = 1 .. Len(log) /\ \A i \in DOMAIN log : l[i] = log[i]
  OBVIOUS
<1>2. \A i \in DOMAIN l : i = n \/ (i \in DOMAIN log /\ log[i] \in ToSet(log))
  BY <1>1 DEF ToSet
<1>3. \A i \in DOMAIN l : ~(n < i)
  BY <1>1
<1>4. n \in DOMAIN l
  BY <1>1
<1> HIDE DEF n
<1>5. ToSet(l) = ToSet(log) \cup {a}
  BY <1>1, <1>2, <1>4 DEF ToSet
<1>6. /\ ToSet(t) = ToSet(q) \cup {a}
      /\ \A b \in ToSet(q) : Pos(t, b) = Pos(q, b) /\ Pos(t, b) < Pos(t, a)
  <2>1. t = Append(q, a)
    OBVIOUS
  <2>2. /\ ToSet(t) = ToSet(q) \cup {a}
        /\ \A b \in ToSet(q) : Pos(t, b) = Pos(q, b) /\ Pos(q, b) \in Nat /\ Pos(t, b) < Pos(t, a)
    BY <2>1, PosAppended
  <2> QED
    BY <2>2
<1>7. \A i, j \in DOMAIN l : i < j => Pos(t, l[i]) < Pos(t, l[j])
  <2> SUFFICES ASSUME NEW i \in DOMAIN l, NEW j \in DOMAIN l, i < j
               PROVE  Pos(t, l[i]) < Pos(t, l[j])
    OBVIOUS
  <2>1. i \in DOMAIN log /\ log[i] \in ToSet(log)
    BY <1>2, <1>3
  <2>2. CASE j = n
    BY <1>1, <1>6, <2>1, <2>2
  <2>3. CASE j # n
    BY <1>1, <1>2, <1>6, <2>1, <2>3 DEF Ordered
  <2> QED
    BY <2>2, <2>3
<1>8. ASSUME running, NEW x \in Left(l, t, u), NEW b \in ToSet(l)
      PROVE  Pos(t, x) < Pos(t, b)
  <2>1. x \in Left(log, q, u) /\ x \in ToSet(q)
    BY <1>5, <1>6, <1>8 DEF Left
  <2> QED
    BY <1>5, <1>6, <1>8, <2>1 DEF Ordered
<1>9. \A x \in Action : u[x] <= 1 /\ (u[x] = 1 => x \notin ToSet(l))
  BY <1>5 DEF Ordered
<1> QED
  BY <1>7, <1>8, <1>9 DEF Ordered

\* undo() takes the newest, once.
LEMMA OrderedFront ==
    ASSUME NEW log \in Seq(Action), log # <<>>, NEW t, t = Front(log), NEW a, a = Last(log),
           NEW q \in Seq(Action), NEW u \in [Action -> Nat], NEW running,
           Ordered(log, q, u, running), ToSet(log) \subseteq ToSet(q)
    PROVE  /\ t \in Seq(Action) /\ Len(t) = Len(log) - 1 /\ a \in ToSet(log) /\ a \in Action
           /\ ToSet(t) \subseteq ToSet(log) /\ u[a] = 0
           /\ Ordered(t, q, [u EXCEPT ![a] = @ + 1], running)
           /\ Ordered(t, q, u, FALSE)
<1> DEFINE n == Len(log)
<1>1. n \in Nat \ {0} /\ DOMAIN log = 1 .. n
  OBVIOUS
<1>2. t = SubSeq(log, 1, n - 1) /\ a = log[n]
  BY DEF Front, Last
<1>3. t \in Seq(Action) /\ DOMAIN t = 1 .. n - 1 /\ Len(t) = n - 1
  BY <1>1, <1>2
<1>4. \A i \in DOMAIN t : i \in DOMAIN log /\ i < n /\ t[i] = log[i]
  BY <1>1, <1>2, <1>3
<1>5. a \in ToSet(log) /\ a \in Action /\ n \in DOMAIN log
  <2>1. n \in DOMAIN log /\ log[n] \in Action
    BY <1>1
  <2> QED
    BY <1>2, <2>1 DEF ToSet
<1>6. ToSet(t) \subseteq ToSet(log)
  BY <1>4 DEF ToSet
<1>7. \A b \in ToSet(log) : b = a \/ b \in ToSet(t)
  <2>1. \A i \in DOMAIN log : i = n \/ (i \in DOMAIN t /\ t[i] = log[i])
    BY <1>1, <1>3, <1>4
  <2> QED
    BY <1>2, <2>1 DEF ToSet
<1>8. a \notin ToSet(t)
  <2> SUFFICES ASSUME NEW i \in DOMAIN t, t[i] = a PROVE FALSE
    BY DEF ToSet
  <2>1. Pos(q, log[i]) < Pos(q, log[n]) /\ log[i] = log[n]
    BY <1>2, <1>4, <1>5 DEF Ordered
  <2>2. Pos(q, log[n]) \in Nat
    BY <1>2, <1>5, PosIs
  <2> QED
    BY <2>1, <2>2
<1>9. u[a] = 0
  <2>1. u[a] \in Nat /\ u[a] <= 1 /\ u[a] # 1
    BY <1>5 DEF Ordered
  <2> QED
    BY <2>1
<1> PICK v : v = [u EXCEPT ![a] = @ + 1]
  OBVIOUS
<1>10. v[a] = 1 /\ \A b \in Action : b # a => v[b] = u[b]
  BY <1>5, <1>9
<1>11. \A i, j \in DOMAIN t : i < j => Pos(q, t[i]) < Pos(q, t[j])
  BY <1>4 DEF Ordered
<1>12. ASSUME running, NEW x \in Left(t, q, v), NEW b \in ToSet(t)
       PROVE  Pos(q, x) < Pos(q, b)
  <2>1. x \in ToSet(q) /\ x \in Action
    BY <1>12 DEF Left, ToSet
  <2>2. x # a
    BY <1>10, <1>12 DEF Left
  <2>3. x \in Left(log, q, u)
    BY <1>7, <1>10, <1>12, <2>1, <2>2 DEF Left
  <2> QED
    BY <1>6, <1>12, <2>3 DEF Ordered
<1>13. \A x \in Action : v[x] <= 1 /\ (v[x] = 1 => x \notin ToSet(t))
  BY <1>6, <1>8, <1>10 DEF Ordered
<1>14. Ordered(t, q, v, running)
  BY <1>11, <1>12, <1>13 DEF Ordered
<1>15. Ordered(t, q, u, FALSE)
  BY <1>6, <1>11 DEF Ordered
<1> QED
  BY <1>3, <1>5, <1>6, <1>9, <1>14, <1>15

\* ActionLog::storeLog() of an action that has not been applied.
LEMMA LogStored ==
    ASSUME ActionTypeOK, LogInv, NEW a \in Action, a \notin ToSet(applied),
           actionLog' = storeLog(a), applied' = Append(applied, a),
           UNCHANGED <<undone, ended>>
    PROVE  /\ actionLog' \in Seq(Action) /\ Len(actionLog') <= LogSize
           /\ applied' \in Seq(Action) /\ ToSet(applied') = ToSet(applied) \cup {a}
           /\ LogInv'
<1> PICK log, q, u, running, old, t :
        /\ log = actionLog /\ q = applied /\ u = undone /\ running = Running
        /\ old = (IF Len(log) >= LogSize THEN Tail(log) ELSE log) /\ t = Append(q, a)
  OBVIOUS
<1>1. /\ log \in Seq(Action) /\ Len(log) <= LogSize /\ q \in Seq(Action) /\ u \in [Action -> Nat]
      /\ LogSize \in Nat \ {0} /\ Distinct(q) /\ a \notin ToSet(q)
      /\ ToSet(log) \subseteq ToSet(q) /\ Len(log) \in Nat
  <2>1. /\ log \in Seq(Action) /\ Len(log) <= LogSize /\ q \in Seq(Action)
        /\ u \in [Action -> Nat] /\ LogSize \in Nat \ {0}
    BY ActionAssumption DEF ActionTypeOK
  <2>2. Distinct(q) /\ ToSet(log) \subseteq ToSet(q)
    BY DEF LogInv
  <2>3. Len(log) \in Nat
    BY <2>1
  <2> QED
    BY <2>1, <2>2, <2>3
<1>2. Ordered(log, q, u, running)
  BY OrderedIs DEF LogInv
<1>3. /\ old \in Seq(Action) /\ Len(old) < LogSize /\ Len(old) \in Nat
      /\ ToSet(old) \subseteq ToSet(log) /\ Ordered(old, q, u, running)
  <2>1. CASE Len(log) >= LogSize
    <3>1. log # <<>> /\ old = Tail(log)
      BY <1>1, <2>1
    <3>2. /\ Ordered(old, q, u, running) /\ ToSet(old) \subseteq ToSet(log) /\ old \in Seq(Action)
          /\ Len(old) = Len(log) - 1
      BY <1>1, <1>2, <3>1, OrderedTail
    <3> QED
      BY <1>1, <3>2
  <2>2. CASE ~(Len(log) >= LogSize)
    BY <1>1, <1>2, <2>2
  <2> QED
    BY <2>1, <2>2
<1>4. u[a] = 0
  <2>1. u[a] \in Nat /\ ~(u[a] > 0)
    BY <1>1 DEF LogInv
  <2> QED
    BY <2>1
<1>5. Ordered(Append(old, a), t, u, running)
  BY <1>1, <1>3, <1>4, OrderedAppend
<1>6. t \in Seq(Action) /\ Distinct(t) /\ ToSet(t) = ToSet(q) \cup {a}
  BY <1>1, PosAppended
<1>7. actionLog' = Append(old, a) /\ applied' = t /\ undone' = u /\ Running' = running
  BY DEF storeLog, Running
<1>8. /\ Append(old, a) \in Seq(Action) /\ Len(Append(old, a)) = Len(old) + 1
      /\ ToSet(Append(old, a)) \subseteq ToSet(old) \cup {a}
  <2>1. Append(old, a) \in Seq(Action) /\ Len(Append(old, a)) = Len(old) + 1
    BY <1>3
  <2>2. \A i \in DOMAIN Append(old, a) : Append(old, a)[i] = a \/ Append(old, a)[i] \in ToSet(old)
    <3>1. \A i \in DOMAIN Append(old, a) : Append(old, a)[i] = a \/ (i \in DOMAIN old /\ Append(old, a)[i] = old[i])
      BY <1>3
    <3> QED
      BY <3>1 DEF ToSet
  <2> QED
    BY <2>1, <2>2 DEF ToSet
<1>9. Len(actionLog') <= LogSize
  BY <1>1, <1>3, <1>7, <1>8
<1>10. LogInv'
  <2>1. LogInOrder'
    <3>1. LogInOrder' <=> Ordered(actionLog', applied', undone', Running')
      BY DEF LogInOrder, Ordered, Left, Pos
    <3> QED
      BY <1>5, <1>7, <3>1
  <2>2. ToSet(actionLog') \subseteq ToSet(applied')
    BY <1>1, <1>3, <1>6, <1>7, <1>8
  <2>3. \A b \in Action : undone'[b] > 0 => b \in ToSet(applied')
    BY <1>6, <1>7 DEF LogInv
  <2> QED
    BY <1>6, <1>7, <2>1, <2>2, <2>3 DEF LogInv
<1> QED
  BY <1>6, <1>7, <1>8, <1>9, <1>10

\* What a body or a caller that is the only one in the fifo leaves to show.
LEMMA LogKept ==
    ASSUME LogInv, UNCHANGED <<actionLog, applied, undone>>, Running
    PROVE  LogInv'
<1>1. LogInOrder'
  BY DEF LogInv, LogInOrder
<1> QED
  BY <1>1 DEF LogInv

\* Nobody waits for a body of a caller that waits for nothing.
LEMMA Unawaited ==
    ASSUME NEW q, NEW w, NEW c, w[c] = NoCall
    PROVE  /\ CallersFit(q, w) => NoCaller(q, c)
           /\ \A f, u : Awaited(q, w, f, u) => NoBodyBy(q, c)
  BY DEF CallersFit, NoCaller, Awaited, NoBodyBy, NoCall, IsBody

\* The dispatcher is passed an action that nobody has applied.
LEMMA ApplyFits ==
    ASSUME NEW q \in Seq(WorkEntry), NEW c \in Caller, NEW a \in Action,
           NEW w \in [Caller -> ActionCall], w[c] = NoCall,
           NEW x, x = Awaiting("apply", a), NEW v, v = Rewaiting(w, c, x),
           NEW t, t = Dispatched(q, "apply", a, c),
           NEW done, a \notin done, NEW d, d = done \cup {a},
           AppliesOnce(q, w, done), CallersFit(q, w),
           OnlyNow(q, a, done),
           c \in Action => Inner[c] = a
    PROVE  /\ t \in Seq(WorkEntry) /\ v \in [Caller -> ActionCall]
           /\ AppliesOnce(t, v, d) /\ CallersFit(t, v)
           /\ \A f, u : Awaited(q, w, f, u) /\ NoBody(q, a) => Awaited(t, v, f, u)
<1>1. x \in ActionCall /\ x # NoCall /\ x.op = "apply" /\ x.act = a
  BY DEF Awaiting, ActionCall, NoCall
<1>2. NoCaller(q, c)
  BY Unawaited
<1>3. v \in [Caller -> ActionCall] /\ v[c] = x
  BY <1>1, Rewaits
<1>4. CallersFit(q, v)
  BY <1>1, Rewaits
<1>5. CallersFit(t, v) /\ t \in Seq(WorkEntry)
  BY <1>1, <1>2, <1>3, <1>4, DispatchedFits
<1>6. AppliesOnce(t, v, d)
  <2>1. AppliesOnce(q, w, d)
    BY Applies
  <2>2. AppliesOnce(q, v, d)
    <3>1. c \in Action => Inner[c] \in d
      OBVIOUS
    <3> QED
      BY <1>1, <2>1, <3>1, Rewaits
  <2>3. NoApply(q, a)
    BY DEF AppliesOnce, NoApply
  <2>4. Inner[a] \notin d /\ a \in d
    BY DEF AppliesOnce, OnlyNow
  <2>5. ASSUME NEW s, AppliesOnce(q, v, s), NoApply(q, a), a \in s, Inner[a] \notin s
        PROVE  AppliesOnce(t, v, s)
    BY <2>5, DispatchedFits
  <2> QED
    BY <2>2, <2>3, <2>4, <2>5
<1>7. ASSUME NEW f, NEW u, Awaited(q, w, f, u), NoBody(q, a) PROVE Awaited(t, v, f, u)
  <2>1. NoBodyBy(q, c)
    BY <1>7, Unawaited
  <2>2. Awaited(q, v, f, u)
    BY <1>1, <1>7, <2>1, Rewaits
  <2> QED
    BY <1>1, <1>3, <1>7, <2>2, DispatchedFits
<1> QED
  BY <1>3, <1>5, <1>6, <1>7

LEMMA ApplyInv ==
    ASSUME NEW q \in Seq(WorkEntry), NEW c \in Caller, NEW a \in Action,
           ActionTypeOK, LogInv, Apply(q, c, a), UNCHANGED <<undone, ended>>,
           a \notin ToSet(applied), waits[c] = NoCall,
           AppliesOnce(q, waits, ToSet(applied)), CallersFit(q, waits),
           OnlyNow(q, a, ToSet(applied)),
           c \in Action => Inner[c] = a
    PROVE  /\ actionLog' \in Seq(Action) /\ Len(actionLog') <= LogSize
           /\ applied' \in Seq(Action) /\ work' \in Seq(WorkEntry)
           /\ waits' \in [Caller -> ActionCall] /\ LogInv'
           /\ AppliesOnce(work', waits', ToSet(applied')) /\ CallersFit(work', waits')
           /\ \A f, u : Awaited(q, waits, f, u) /\ NoBody(q, a) => Awaited(work', waits', f, u)
<1>1. /\ actionLog' = storeLog(a) /\ applied' = Append(applied, a)
      /\ work' = Dispatched(q, "apply", a, c) /\ waits' = Rewaiting(waits, c, Awaiting("apply", a))
  BY DEF Apply, Rewaiting
<1>2. /\ actionLog' \in Seq(Action) /\ Len(actionLog') <= LogSize
      /\ applied' \in Seq(Action) /\ ToSet(applied') = ToSet(applied) \cup {a} /\ LogInv'
  BY <1>1, LogStored
<1>3. waits \in [Caller -> ActionCall]
  BY DEF ActionTypeOK
<1>4. /\ work' \in Seq(WorkEntry) /\ waits' \in [Caller -> ActionCall]
      /\ AppliesOnce(work', waits', ToSet(applied) \cup {a}) /\ CallersFit(work', waits')
      /\ \A f, u : Awaited(q, waits, f, u) /\ NoBody(q, a) => Awaited(work', waits', f, u)
  <2>1. PICK x, v, t, done, d :
            /\ x = Awaiting("apply", a) /\ v = Rewaiting(waits, c, x)
            /\ t = Dispatched(q, "apply", a, c) /\ done = ToSet(applied)
            /\ d = done \cup {a}
    OBVIOUS
  <2>2. PICK w : w = waits
    OBVIOUS
  <2>3. /\ w \in [Caller -> ActionCall] /\ w[c] = NoCall /\ v = Rewaiting(w, c, x) /\ a \notin done
        /\ AppliesOnce(q, w, done) /\ CallersFit(q, w)
        /\ OnlyNow(q, a, done)
    BY <1>3, <2>1, <2>2
  <2>4. /\ t \in Seq(WorkEntry) /\ v \in [Caller -> ActionCall]
        /\ AppliesOnce(t, v, d) /\ CallersFit(t, v)
    BY <2>1, <2>3, ApplyFits
  <2>5. ASSUME NEW f, NEW u, Awaited(q, w, f, u), NoBody(q, a) PROVE Awaited(t, v, f, u)
    BY <2>1, <2>3, <2>5, ApplyFits
  <2> QED
    BY <1>1, <2>1, <2>2, <2>4, <2>5
<1> QED
  BY <1>2, <1>4

\* Nobody has a body of an action that has not been applied.
LEMMA NoneYet ==
    ASSUME LogInv, NEW q, NEW f, AppliesOnce(q, waits, ToSet(applied)),
           Awaited(q, waits, f, undone), NEW a \in Action, a \notin ToSet(applied)
    PROVE  NoBody(q, a)
  BY DEF LogInv, AppliesOnce, Awaited, NoBody, IsBody

LEMMA CallApplyInv ==
    ASSUME ActionInv, NEW c \in Client, NEW a \in Action, CallApply(c, a)
    PROVE  ActionInv'
<1>1. /\ Running /\ waits[c] = NoCall /\ a \notin ToSet(applied) /\ a \notin InnerActions
      /\ Apply(work, c, a)
      /\ UNCHANGED <<redoLog, finished, undone, overlap, stray, calls, ended>>
  BY DEF CallApply
<1>2. /\ ActionTypeOK /\ LogInv /\ AppliesOnce(work, waits, ToSet(applied))
      /\ CallersFit(work, waits) /\ work \in Seq(WorkEntry) /\ c \in Caller /\ c \notin Action
      /\ Named(waits) /\ waits \in [Caller -> ActionCall]
  BY ActionAssumption DEF ActionInv, ActionTypeOK, Caller
<1>3. OnlyNow(work, a, ToSet(applied))
  BY <1>1 DEF OnlyNow, InnerActions
<1>4. /\ actionLog' \in Seq(Action) /\ Len(actionLog') <= LogSize
      /\ applied' \in Seq(Action) /\ work' \in Seq(WorkEntry)
      /\ waits' \in [Caller -> ActionCall] /\ LogInv'
      /\ AppliesOnce(work', waits', ToSet(applied')) /\ CallersFit(work', waits')
      /\ \A f, u : Awaited(work, waits, f, u) /\ NoBody(work, a) => Awaited(work', waits', f, u)
  BY <1>1, <1>2, <1>3, ApplyInv
<1>5. ActionTypeOK'
  BY <1>1, <1>2, <1>4 DEF ActionTypeOK
<1>6. Named(waits')
  BY <1>1, <1>2, NamesAction DEF Apply, Rewaiting
<1>7. ASSUME ~overlap' PROVE Awaited(work', waits', finished', undone') /\ ~stray'
  <2>1. Awaited(work, waits, finished, undone) /\ ~stray
    BY <1>1, <1>7 DEF ActionInv
  <2>2. NoBody(work, a)
    BY <1>1, <1>2, <2>1, NoneYet
  <2> QED
    BY <1>1, <1>4, <2>1, <2>2
<1> QED
  BY <1>4, <1>5, <1>6, <1>7 DEF ActionInv

\* undo() of an action that can be undone: it has not been undone, and the body of its
\* apply() is not there unless the two overlap.
LEMMA UndoFits ==
    ASSUME NEW q \in Seq(WorkEntry), NEW c \in Caller, NEW a \in Action,
           NEW w \in [Caller -> ActionCall], w[c] = NoCall,
           NEW x, x = Awaiting("undo", a), NEW v, v = Rewaiting(w, c, x),
           NEW t, t = Dispatched(q, "undo", a, c), NEW done, Inner[c] \in done \/ c \notin Action,
           AppliesOnce(q, w, done), CallersFit(q, w)
    PROVE  /\ t \in Seq(WorkEntry) /\ v \in [Caller -> ActionCall]
           /\ AppliesOnce(t, v, done) /\ CallersFit(t, v)
           /\ \A f, u : Awaited(q, w, f, u) /\ NoBody(q, a) /\ u[a] > 0 => Awaited(t, v, f, u)
<1>1. x \in ActionCall /\ x # NoCall /\ x.op = "undo" /\ x.act = a
  BY DEF Awaiting, ActionCall, NoCall
<1>2. NoCaller(q, c)
  BY Unawaited
<1>3. v \in [Caller -> ActionCall] /\ v[c] = x
  BY <1>1, Rewaits
<1>4. CallersFit(q, v)
  BY <1>1, Rewaits
<1>5. AppliesOnce(q, v, done)
  BY <1>1, Rewaits
<1>6. CallersFit(t, v) /\ t \in Seq(WorkEntry)
  BY <1>1, <1>2, <1>3, <1>4, DispatchedFits
<1>7. AppliesOnce(t, v, done)
  BY <1>5, DispatchedFits
<1>8. ASSUME NEW f, NEW u, Awaited(q, w, f, u), NoBody(q, a), u[a] > 0 PROVE Awaited(t, v, f, u)
  <2>1. NoBodyBy(q, c)
    BY <1>8, Unawaited
  <2>2. Awaited(q, v, f, u)
    BY <1>1, <1>8, <2>1, Rewaits
  <2> QED
    BY <1>1, <1>3, <1>8, <2>2, DispatchedFits
<1> QED
  BY <1>3, <1>6, <1>7, <1>8

LEMMA CallUndoInv ==
    ASSUME ActionInv, NEW c \in Client, CallUndo(c)
    PROVE  ActionInv'
<1> PICK a, q, w, done, log, order :
        /\ a = Last(actionLog) /\ q = work /\ w = waits /\ done = ToSet(applied)
        /\ log = actionLog /\ order = applied
  OBVIOUS
<1>1. /\ Running /\ waits[c] = NoCall /\ calls < MaxCalls /\ calls' = calls + 1
      /\ actionLog # <<>> /\ actionLog' = Front(actionLog)
      /\ UNCHANGED <<redoLog, finished, applied, stray>>
  BY DEF CallUndo, popLog
<1>2. /\ ActionTypeOK /\ LogInv /\ AppliesOnce(work, waits, done)
      /\ CallersFit(work, waits) /\ work \in Seq(WorkEntry) /\ c \in Caller /\ c \notin Action
      /\ actionLog \in Seq(Action) /\ Len(actionLog) <= LogSize /\ applied \in Seq(Action)
      /\ undone \in [Action -> Nat] /\ waits \in [Caller -> ActionCall] /\ Named(waits)
  BY ActionAssumption DEF ActionInv, ActionTypeOK, Caller
<1>3. ToSet(actionLog) \subseteq ToSet(applied) /\ Ordered(actionLog, applied, undone, Running)
  BY <1>2, OrderedIs DEF LogInv
<1>4. /\ actionLog' \in Seq(Action) /\ Len(actionLog') = Len(actionLog) - 1
      /\ a \in ToSet(actionLog) /\ a \in Action
      /\ ToSet(actionLog') \subseteq ToSet(actionLog) /\ undone[a] = 0
      /\ Ordered(actionLog', applied, [undone EXCEPT ![a] = @ + 1], Running)
      /\ Ordered(actionLog', applied, undone, FALSE)
  BY <1>1, <1>2, <1>3, OrderedFront
<1>5. /\ calls' \in 0 .. MaxCalls /\ Len(actionLog') <= LogSize
  <2>1. calls \in 0 .. MaxCalls /\ MaxCalls \in Nat /\ LogSize \in Nat
    BY <1>2, ActionAssumption DEF ActionTypeOK
  <2>2. Len(actionLog) \in Nat
    BY <1>2
  <2> QED
    BY <1>1, <1>2, <1>4, <2>1, <2>2
<1>6. Distinct(applied) /\ \A b \in Action : undone[b] > 0 => b \in ToSet(applied)
  BY <1>2 DEF LogInv
<1>7. CASE a \notin Reversible
  <2>1. ended' = "panic" /\ UNCHANGED <<work, waits, undone, overlap>>
    BY <1>7 DEF CallUndo
  <2>2. LogInv'
    <3>1. ~Running'
      BY <2>1 DEF Running
    <3>2. LogInOrder' <=> Ordered(actionLog', applied', undone', Running')
      BY DEF LogInOrder, Ordered, Left, Pos
    <3>3. LogInOrder'
      BY <1>1, <1>4, <2>1, <3>1, <3>2 DEF Ordered
    <3> QED
      BY <1>1, <1>3, <1>4, <1>6, <2>1, <3>3 DEF LogInv
  <2>3. ActionTypeOK'
    BY <1>1, <1>2, <1>4, <1>5, <2>1 DEF ActionTypeOK
  <2> QED
    BY <1>1, <1>2, <2>1, <2>2, <2>3 DEF ActionInv
<1>8. CASE a \in Reversible
  <2>1. /\ work' = Dispatched(work, "undo", a, c)
        /\ waits' = Rewaiting(waits, c, Awaiting("undo", a))
        /\ undone' = [undone EXCEPT ![a] = @ + 1]
        /\ overlap' = (overlap \/ InFlight(a)) /\ ended' = ended
    BY <1>8 DEF CallUndo, Rewaiting
  <2>2. LogInv'
    <3>1. Running' <=> Running
      BY <2>1 DEF Running
    <3>2. LogInOrder' <=> Ordered(actionLog', applied', undone', Running')
      BY DEF LogInOrder, Ordered, Left, Pos
    <3>3. LogInOrder'
      BY <1>1, <1>4, <2>1, <3>1, <3>2 DEF Ordered
    <3>4. \A b \in Action : undone'[b] > 0 => b \in ToSet(applied)
      BY <1>2, <1>3, <1>4, <1>6, <2>1
    <3> QED
      BY <1>1, <1>3, <1>4, <1>6, <3>3, <3>4 DEF LogInv
  <2>3. PICK x, v, t, u, y :
            /\ x = Awaiting("undo", a) /\ v = Rewaiting(w, c, x) /\ t = Dispatched(q, "undo", a, c)
            /\ u = undone /\ y = undone'
    OBVIOUS
  <2>4. /\ t \in Seq(WorkEntry) /\ v \in [Caller -> ActionCall]
        /\ AppliesOnce(t, v, done) /\ CallersFit(t, v)
        /\ \A f, z : Awaited(q, w, f, z) /\ NoBody(q, a) /\ z[a] > 0 => Awaited(t, v, f, z)
    <3>1. /\ q \in Seq(WorkEntry) /\ w \in [Caller -> ActionCall] /\ w[c] = NoCall
          /\ AppliesOnce(q, w, done) /\ CallersFit(q, w)
          /\ c \in Caller /\ a \in Action /\ (Inner[c] \in done \/ c \notin Action)
          /\ x = Awaiting("undo", a) /\ v = Rewaiting(w, c, x) /\ t = Dispatched(q, "undo", a, c)
      BY <1>1, <1>2, <1>4, <2>3
    <3> QED
      BY ONLY <3>1, UndoFits
  <2>5. work' = t /\ waits' = v
    BY <2>1, <2>3
  <2>6. ActionTypeOK'
    <3>1. undone' \in [Action -> Nat]
      BY <1>2, <1>4, <2>1
    <3>2. overlap' \in BOOLEAN
      BY <2>1
    <3> QED
      BY <1>1, <1>2, <1>4, <1>5, <2>1, <2>4, <2>5, <3>1, <3>2 DEF ActionTypeOK
  <2>7. ASSUME ~overlap' PROVE Awaited(work', waits', finished', undone') /\ ~stray'
    <3>1. PICK f : f = finished
      OBVIOUS
    <3>2. Awaited(q, w, f, u) /\ ~stray /\ ~InFlight(a)
      BY <2>1, <2>3, <2>7, <3>1 DEF ActionInv
    <3>3. NoBody(q, a)
      <4>1. \A i \in DOMAIN q : q[i].kind = "undo" => q[i].id # a
        <5>1. ~(u[a] > 0)
          BY <1>4, <2>3
        <5> QED
          BY <3>2, <5>1 DEF Awaited
      <4> QED
        BY <3>2, <4>1 DEF NoBody, IsBody, InFlight
    <3>4. y[a] > 0 /\ Awaited(q, w, f, y)
      <4>1. q \in Seq(WorkEntry) /\ u \in [Action -> Nat] /\ y = Undoing(u, a)
            /\ AppliesOnce(q, w, done) /\ a \in Action
        BY <1>2, <1>4, <2>1, <2>3 DEF Undoing
      <4> QED
        BY <3>2, <4>1, Undoes
    <3> QED
      BY <1>1, <2>3, <2>4, <2>5, <3>1, <3>2, <3>3, <3>4
  <2>8. Named(waits')
    BY <1>2, <1>4, <2>1, NamesAction
  <2> QED
    BY <1>1, <2>2, <2>4, <2>5, <2>6, <2>7, <2>8 DEF ActionInv
<1> QED
  BY <1>7, <1>8

LEMMA CallReapplyInv ==
    ASSUME ActionInv, NEW c \in Client, CallReapply(c)
    PROVE  ActionInv'
<1>1. /\ Running /\ calls < MaxCalls /\ calls' = calls + 1 /\ redoLog \in Seq(Action)
      /\ UNCHANGED <<actionLog, finished, work, waits, applied, undone, overlap, stray>>
  BY DEF CallReapply, ActionInv, ActionTypeOK
<1>2. redoLog' \in Seq(Action) /\ ended' \in {"no", "panic", "null action"}
  <2>1. CASE redoLog # <<>>
    <3>1. redoLog' = Front(redoLog) /\ ended' = ended
      BY <2>1 DEF CallReapply
    <3>2. Front(redoLog) \in Seq(Action)
      BY <1>1, <2>1 DEF Front
    <3> QED
      BY <3>1, <3>2 DEF ActionInv, ActionTypeOK
  <2>2. CASE redoLog = <<>>
    BY <1>1, <2>2 DEF CallReapply
  <2> QED
    BY <2>1, <2>2
<1>3. calls' \in 0 .. MaxCalls
  <2>1. calls \in 0 .. MaxCalls /\ MaxCalls \in Nat
    BY ActionAssumption DEF ActionInv, ActionTypeOK
  <2> QED
    BY <1>1, <2>1
<1>4. ActionTypeOK'
  BY <1>1, <1>2, <1>3 DEF ActionInv, ActionTypeOK
<1>5. LogInv'
  BY <1>1, LogKept DEF ActionInv
<1> QED
  BY <1>1, <1>4, <1>5 DEF ActionInv

\* What the worker finds at the front, and what it leaves.
LEMMA Turns ==
    ASSUME ActionInv, Running, work # <<>>
    PROVE  /\ ActionTypeOK /\ LogInv /\ Named(waits)
           /\ Head(work) \in WorkEntry /\ Tail(work) \in Seq(WorkEntry)
           /\ waits \in [Caller -> ActionCall] /\ finished \in [Action -> BOOLEAN]
           /\ AppliesOnce(Tail(work), waits, ToSet(applied)) /\ CallersFit(Tail(work), waits)
           /\ Head(work).kind = "caller" =>
                waits[Head(work).id] # NoCall /\ NoCaller(Tail(work), Head(work).id)
           /\ Head(work).kind # "caller" => Head(work).id \in Action
           /\ Head(work).kind = "apply" =>
                /\ NoApply(Tail(work), Head(work).id) /\ Head(work).id \in ToSet(applied)
                /\ Head(work).at = "start" => Inner[Head(work).id] \notin ToSet(applied)
           /\ \A c \in Action : waits[c] # NoCall => Inner[c] \in ToSet(applied)
           /\ ~overlap =>
                /\ ~stray /\ Awaited(Tail(work), waits, finished, undone)
                /\ IsBody(Head(work)) =>
                        /\ NoBody(Tail(work), Head(work).id)
                        /\ waits[Head(work).by].op = Head(work).kind
                        /\ waits[Head(work).by].act = Head(work).id
                        /\ Head(work).at = "resume" => ~finished[Head(work).id]
                        /\ Head(work).kind = "undo" => undone[Head(work).id] > 0
<1> PICK q, t, e, w, done, f, u :
        /\ q = work /\ t = Tail(q) /\ e = Head(q) /\ w = waits /\ done = ToSet(applied)
        /\ f = finished /\ u = undone
  OBVIOUS
<1>1. q \in Seq(WorkEntry) /\ q # <<>>
  BY DEF ActionInv, ActionTypeOK
<1>2. AppliesOnce(q, w, done) /\ CallersFit(q, w) /\ (~overlap => Awaited(q, w, f, u) /\ ~stray)
  BY DEF ActionInv
<1>3. t = Tail(q) /\ e = Head(q)
  OBVIOUS
<1>4. t \in Seq(WorkEntry) /\ e \in WorkEntry /\ e = q[1] /\ 1 \in DOMAIN q
  BY ONLY <1>1, <1>3, Dropped
<1>5. AppliesOnce(t, w, done) /\ (e.kind = "apply" => NoApply(t, e.id))
  BY ONLY <1>1, <1>2, <1>3, Dropped
<1>6. CallersFit(t, w) /\ (e.kind = "caller" => NoCaller(t, e.id))
  BY ONLY <1>1, <1>2, <1>3, Dropped
<1>7. ~overlap => Awaited(t, w, f, u) /\ (IsBody(e) => NoBody(t, e.id))
  BY ONLY <1>1, <1>2, <1>3, Dropped
<1>8. /\ e.kind = "caller" => w[e.id] # NoCall
      /\ e.kind # "caller" => e.id \in Action
      /\ e.kind = "apply" => e.id \in done /\ (e.at = "start" => Inner[e.id] \notin done)
      /\ \A c \in Action : w[c] # NoCall => Inner[c] \in done
  BY ONLY <1>2, <1>4 DEF AppliesOnce, CallersFit
<1>9. ~overlap /\ IsBody(e) =>
        /\ w[e.by].op = e.kind /\ w[e.by].act = e.id
        /\ e.at = "resume" => ~f[e.id]
        /\ e.kind = "undo" => u[e.id] > 0
  BY ONLY <1>2, <1>4 DEF Awaited
<1>10. /\ ActionTypeOK /\ LogInv /\ Named(waits)
       /\ waits \in [Caller -> ActionCall] /\ finished \in [Action -> BOOLEAN]
  BY DEF ActionInv, ActionTypeOK
<1> QED
  BY <1>2, <1>4, <1>5, <1>6, <1>7, <1>8, <1>9, <1>10

LEMMA CallerWaitsInv ==
    ASSUME ActionInv, CallerWaits
    PROVE  ActionInv'
<1> PICK q, e, t, w, done, f, u :
        /\ q = Tail(work) /\ e = Head(work) /\ t = Append(q, e) /\ w = waits
        /\ done = ToSet(applied) /\ f = finished /\ u = undone
  OBVIOUS
<1>1. /\ Running /\ work # <<>> /\ e.kind = "caller" /\ e.at = "resume" /\ work' = t
      /\ UNCHANGED <<actionLog, redoLog, finished, waits, applied, undone, overlap,
                     stray, calls, ended>>
  BY DEF CallerWaits, Turn
<1>2. /\ ActionTypeOK /\ LogInv /\ Named(waits) /\ e \in WorkEntry /\ q \in Seq(WorkEntry)
      /\ AppliesOnce(q, w, done) /\ CallersFit(q, w) /\ w[e.id] # NoCall /\ NoCaller(q, e.id)
      /\ ~overlap => ~stray /\ Awaited(q, w, f, u)
  BY <1>1, Turns
<1>3. ~IsBody(e) /\ t = Append(q, e)
  BY <1>1 DEF IsBody
<1>4. t \in Seq(WorkEntry) /\ AppliesOnce(t, w, done)
  BY ONLY <1>1, <1>2, <1>3, Pushed
<1>5. CallersFit(t, w)
  BY ONLY <1>1, <1>2, <1>3, Pushed
<1>6. ~overlap => Awaited(t, w, f, u)
  BY ONLY <1>1, <1>2, <1>3, Pushed
<1>7. ActionTypeOK'
  BY <1>1, <1>2, <1>4 DEF ActionTypeOK
<1>8. LogInv'
  BY <1>1, <1>2, LogKept
<1> QED
  BY <1>1, <1>2, <1>4, <1>5, <1>6, <1>7, <1>8 DEF ActionInv

\* The await of a caller returns: no body is left that has been started for it, as its
\* signal is set, nor one that has not, as its caller would be behind it.
LEMMA NoneLeft ==
    ASSUME NEW q \in Seq(WorkEntry), NEW w, NEW f, NEW u, NEW c,
           Awaited(q, w, f, u), NoCaller(q, c), f[w[c].act]
    PROVE  NoBodyBy(q, c)
<1>1. ASSUME NEW i \in DOMAIN q, IsBody(q[i]), q[i].by = c PROVE FALSE
  <2>1. q[i].at = "start" \/ q[i].at = "resume"
    <3>1. q[i] \in WorkEntry
      OBVIOUS
    <3> QED
      BY <3>1 DEF WorkEntry
  <2>2. CASE q[i].at = "start"
    BY <1>1, <2>2 DEF Awaited, NoCaller
  <2>3. CASE q[i].at = "resume"
    BY <1>1, <2>3 DEF Awaited
  <2> QED
    BY <2>1, <2>2, <2>3
<1> QED
  BY <1>1 DEF NoBodyBy

LEMMA CallerResumesInv ==
    ASSUME ActionInv, CallerResumes
    PROVE  ActionInv'
<1> PICK q, c, w, done, f, u, a :
        /\ q = Tail(work) /\ c = Head(work).id /\ w = waits /\ done = ToSet(applied)
        /\ f = finished /\ u = undone /\ a = waits[c].act
  OBVIOUS
<1>1. /\ Running /\ work # <<>> /\ Head(work).kind = "caller" /\ finished[a]
      /\ UNCHANGED <<actionLog, redoLog, finished, applied, undone, overlap, stray, calls>>
  BY DEF CallerResumes, Turn
<1>2. /\ ActionTypeOK /\ LogInv /\ Named(w) /\ q \in Seq(WorkEntry) /\ Head(work) \in WorkEntry
      /\ w \in [Caller -> ActionCall]
      /\ AppliesOnce(q, w, done) /\ CallersFit(q, w) /\ w[c] # NoCall /\ NoCaller(q, c)
      /\ \A b \in Action : w[b] # NoCall => Inner[b] \in done
      /\ ~overlap => ~stray /\ Awaited(q, w, f, u)
  BY <1>1, Turns
<1>3. c \in Caller /\ a \in Action /\ f[w[c].act]
  BY <1>1, <1>2 DEF WorkEntry, Named
<1>4. ~overlap => NoBodyBy(q, c)
  BY ONLY <1>2, <1>3, NoneLeft
<1> DEFINE Kept == /\ work' \in Seq(WorkEntry) /\ waits' \in [Caller -> ActionCall]
                   /\ ended' \in {"no", "panic", "null action"}
                   /\ AppliesOnce(work', waits', done) /\ CallersFit(work', waits')
                   /\ Named(waits')
                   /\ ~overlap => Awaited(work', waits', f, u)
<1>5. ASSUME ~(waits[c].op = "apply" /\ waits[c].failed) PROVE Kept
  <2> PICK v : v = Rewaiting(w, c, NoCall)
    OBVIOUS
  <2>1. work' = q /\ waits' = v /\ (ended' = "panic" \/ ended' = ended)
    BY <1>5 DEF CallerResumes, Rewaiting
  <2>2. v = Rewaiting(w, c, NoCall) /\ NoCall \in ActionCall
    BY DEF NoCall, ActionCall
  <2>3. v \in [Caller -> ActionCall] /\ AppliesOnce(q, v, done) /\ CallersFit(q, v)
    BY ONLY <1>2, <1>3, <2>2, Rewaits
  <2>4. ~overlap => Awaited(q, v, f, u)
    BY ONLY <1>2, <1>3, <1>4, <2>2, Rewaits
  <2>5. Named(v)
    BY ONLY <1>2, <1>3, <2>2, NamesAction
  <2>6. ended \in {"no", "panic", "null action"}
    BY <1>2 DEF ActionTypeOK
  <2> QED
    BY <1>2, <2>1, <2>3, <2>4, <2>5, <2>6
<1>6. ASSUME waits[c].op = "apply" /\ waits[c].failed PROVE Kept
  <2> PICK x, v, t :
        x = Awaiting("revoke", a) /\ v = Rewaiting(w, c, x) /\ t = Dispatched(q, "revoke", a, c)
    OBVIOUS
  <2>1. work' = t /\ waits' = v /\ ended' = ended
    BY <1>6 DEF CallerResumes, Rewaiting
  <2>2. /\ x = Awaiting("revoke", a) /\ v = Rewaiting(w, c, x) /\ t = Dispatched(q, "revoke", a, c)
        /\ x \in ActionCall /\ x # NoCall
    BY <1>3 DEF Awaiting, ActionCall, NoCall
  <2>3. v \in [Caller -> ActionCall] /\ v[c] = x /\ AppliesOnce(q, v, done) /\ CallersFit(q, v)
    BY ONLY <1>2, <1>3, <2>2, Rewaits
  <2>4. ~overlap => Awaited(q, v, f, u)
    BY ONLY <1>2, <1>3, <1>4, <2>2, Rewaits
  <2>5. Named(v)
    BY ONLY <1>2, <1>3, <2>2, NamesAction
  <2>6. t \in Seq(WorkEntry) /\ AppliesOnce(t, v, done) /\ CallersFit(t, v)
    BY ONLY <1>2, <1>3, <2>2, <2>3, DispatchedFits
  <2>7. ~overlap => Awaited(t, v, f, u)
    BY ONLY <1>2, <1>3, <2>2, <2>4, DispatchedFits
  <2>8. ended \in {"no", "panic", "null action"}
    BY <1>2 DEF ActionTypeOK
  <2> QED
    BY <2>1, <2>3, <2>5, <2>6, <2>7, <2>8
<1>7. Kept
  BY <1>5, <1>6
<1>8. ActionTypeOK'
  BY <1>1, <1>2, <1>7 DEF ActionTypeOK
<1>9. LogInv'
  BY <1>1, <1>2, LogKept
<1> QED
  BY <1>1, <1>2, <1>7, <1>8, <1>9 DEF ActionInv

LEMMA BodyRevokesInv ==
    ASSUME ActionInv, BodyRevokes
    PROVE  ActionInv'
<1>1. /\ Running /\ ended' = "panic"
      /\ UNCHANGED <<actionLog, redoLog, finished, work, waits, applied, undone, overlap,
                     stray, calls>>
  BY DEF BodyRevokes, Turn
<1>2. ActionTypeOK'
  BY <1>1 DEF ActionInv, ActionTypeOK
<1>3. LogInv'
  BY <1>1, LogKept DEF ActionInv
<1> QED
  BY <1>1, <1>2, <1>3 DEF ActionInv

LEMMA BodyEndsInv ==
    ASSUME ActionInv, BodyEnds
    PROVE  ActionInv'
<1> PICK q, e, a, w, done, f, u, c :
        /\ q = Tail(work) /\ e = Head(work) /\ a = e.id /\ w = waits /\ done = ToSet(applied)
        /\ f = finished /\ u = undone /\ c = e.by
  OBVIOUS
<1>1. /\ Running /\ work # <<>> /\ IsBody(e) /\ e.kind # "caller" /\ e.at = "resume"
      /\ UNCHANGED <<actionLog, redoLog, applied, undone, overlap, calls, ended>>
  BY DEF BodyEnds, Turn, IsBody
<1>2. /\ ActionTypeOK /\ LogInv /\ Named(w) /\ q \in Seq(WorkEntry) /\ e \in WorkEntry
      /\ w \in [Caller -> ActionCall] /\ f \in [Action -> BOOLEAN]
      /\ AppliesOnce(q, w, done) /\ CallersFit(q, w) /\ a \in Action
      /\ e.kind = "apply" => NoApply(q, a) /\ a \in done
      /\ \A b \in Action : w[b] # NoCall => Inner[b] \in done
      /\ ~overlap => /\ ~stray /\ Awaited(q, w, f, u) /\ NoBody(q, a)
                     /\ w[c].op = e.kind /\ w[c].act = a /\ ~f[a]
                     /\ e.kind = "undo" => u[a] > 0
  BY <1>1, Turns
<1>3. c \in Caller
  BY <1>2 DEF WorkEntry
<1> DEFINE Kept == /\ work' \in Seq(WorkEntry) /\ waits' \in [Caller -> ActionCall]
                   /\ finished' \in [Action -> BOOLEAN] /\ stray' \in BOOLEAN
                   /\ AppliesOnce(work', waits', done) /\ CallersFit(work', waits')
                   /\ Named(waits')
                   /\ ~overlap => Awaited(work', waits', finished', u) /\ ~stray'
<1>4. ASSUME waits[a] # NoCall PROVE Kept
  <2> PICK t : t = Append(q, e)
    OBVIOUS
  <2>1. work' = t /\ UNCHANGED <<finished, waits, stray>>
    BY <1>4 DEF BodyEnds
  <2>2. t = Append(q, e)
    OBVIOUS
  <2>3. t \in Seq(WorkEntry) /\ AppliesOnce(t, w, done) /\ CallersFit(t, w)
    BY ONLY <1>1, <1>2, <2>2, a = e.id, Pushed
  <2>4. ~overlap => Awaited(t, w, f, u)
    BY ONLY <1>1, <1>2, <2>2, a = e.id, c = e.by, Pushed
  <2>5. stray \in BOOLEAN
    BY <1>2 DEF ActionTypeOK
  <2> QED
    BY <1>2, <2>1, <2>3, <2>4, <2>5
<1>5. ASSUME waits[a] = NoCall PROVE Kept
  <2> PICK g : g = Signalled(f, a, TRUE)
    OBVIOUS
  <2>1. work' = q /\ finished' = g
    BY <1>5 DEF BodyEnds, setFinished, Signalled
  <2>2. g = Signalled(f, a, TRUE)
    OBVIOUS
  <2>3. g \in [Action -> BOOLEAN] /\ (~overlap => Awaited(q, w, g, u))
    BY ONLY <1>2, <2>2, Signals
  <2>4. CASE w[c].op = e.kind /\ w[c].act = a
    <3> PICK x, v : x = [w[c] EXCEPT !.failed = (e.kind = "apply" /\ a \in Fails)] /\ v = Rewaiting(w, c, x)
      OBVIOUS
    <3>1. waits' = v /\ stray' = stray
      BY <1>5, <2>4 DEF BodyEnds, Rewaiting
    <3>2. /\ v = Rewaiting(w, c, x) /\ x \in ActionCall /\ x.op = w[c].op /\ x.act = w[c].act
      BY <1>2, <1>3 DEF ActionCall
    <3>3. w[c] # NoCall /\ x # NoCall
      BY <1>1, <2>4, <3>2 DEF IsBody, NoCall
    <3>4. v \in [Caller -> ActionCall] /\ AppliesOnce(q, v, done) /\ CallersFit(q, v)
      BY ONLY <1>2, <1>3, <3>2, <3>3, Rewaits
    <3>5. ~overlap => Awaited(q, v, g, u)
      <4>1. /\ q \in Seq(WorkEntry) /\ w \in [Caller -> ActionCall] /\ c \in Caller
            /\ x \in ActionCall /\ v = Rewaiting(w, c, x)
            /\ x.op = w[c].op /\ x.act = w[c].act
        BY ONLY <1>2, <1>3, <3>2
      <4>2. Awaited(q, w, g, u) => Awaited(q, v, g, u)
        BY ONLY <4>1, Rewaits
      <4> QED
        BY <2>3, <4>2
    <3>6. Named(v)
      BY ONLY <1>2, <1>3, <3>2, <3>3, NamesAction
    <3>7. stray \in BOOLEAN
      BY <1>2 DEF ActionTypeOK
    <3> QED
      BY <1>2, <2>1, <2>3, <3>1, <3>4, <3>5, <3>6, <3>7
  <2>5. CASE ~(w[c].op = e.kind /\ w[c].act = a)
    <3>1. waits' = waits /\ stray' = TRUE
      BY <1>5, <2>5 DEF BodyEnds
    <3> QED
      BY <1>2, <2>1, <2>3, <2>5, <3>1
  <2> QED
    BY <2>4, <2>5
<1>6. Kept
  BY <1>4, <1>5
<1>7. ActionTypeOK'
  BY <1>1, <1>2, <1>6 DEF ActionTypeOK
<1>8. LogInv'
  BY <1>1, <1>2, LogKept
<1> QED
  BY <1>1, <1>2, <1>6, <1>7, <1>8 DEF ActionInv

LEMMA BodyStartsInv ==
    ASSUME ActionInv, BodyStarts
    PROVE  ActionInv'
<1> PICK q, e, a, w, done, f, g, u, c, later, b :
        /\ q = Tail(work) /\ e = Head(work) /\ a = e.id /\ w = waits /\ done = ToSet(applied)
        /\ f = finished /\ g = Signalled(f, a, FALSE) /\ u = undone /\ c = e.by
        /\ later = [e EXCEPT !.at = "resume"] /\ b = Inner[a]
  OBVIOUS
<1>1. /\ Running /\ work # <<>> /\ IsBody(e) /\ e.kind # "caller" /\ e.at = "start"
      /\ finished' = g
      /\ UNCHANGED <<redoLog, undone, overlap, stray, calls, ended>>
  BY DEF BodyStarts, Turn, IsBody, setRunning, Signalled
<1>2. /\ ActionTypeOK /\ LogInv /\ Named(w) /\ q \in Seq(WorkEntry) /\ e \in WorkEntry
      /\ w \in [Caller -> ActionCall] /\ f \in [Action -> BOOLEAN]
      /\ AppliesOnce(q, w, done) /\ CallersFit(q, w) /\ a \in Action
      /\ e.kind = "apply" => NoApply(q, a) /\ a \in done /\ b \notin done
      /\ \A d \in Action : w[d] # NoCall => Inner[d] \in done
      /\ ~overlap => /\ ~stray /\ Awaited(q, w, f, u) /\ NoBody(q, a)
                     /\ w[c].op = e.kind /\ w[c].act = a
                     /\ e.kind = "undo" => u[a] > 0
  BY <1>1, Turns
<1>3. /\ later \in WorkEntry /\ later.kind = e.kind /\ later.id = a /\ later.by = c
      /\ later.at = "resume" /\ IsBody(later)
  BY <1>1, <1>2 DEF WorkEntry, IsBody
<1>4. g \in [Action -> BOOLEAN] /\ ~g[a] /\ (~overlap => Awaited(q, w, g, u))
  <2>1. g = Signalled(f, a, FALSE)
    OBVIOUS
  <2> QED
    BY ONLY <1>2, <2>1, Signals
<1>5. ASSUME e.kind = "apply" /\ a \notin Fails /\ Inner[a] # NoAction
      PROVE  ActionInv'
  <2> PICK t : t = Append(q, later)
    OBVIOUS
  <2>1. Apply(t, a, b)
    BY <1>5 DEF BodyStarts
  <2>2. t = Append(q, later)
    OBVIOUS
  <2>3. t \in Seq(WorkEntry) /\ AppliesOnce(t, w, done) /\ CallersFit(t, w)
    BY ONLY <1>1, <1>2, <1>3, <2>2, Pushed
  <2>4. ~overlap => Awaited(t, w, g, u)
    BY ONLY <1>1, <1>2, <1>3, <1>4, <2>2, Pushed
  <2>5. b \in Action /\ b \notin done /\ w[a] = NoCall /\ a \in Caller
    BY <1>2, <1>5, ActionAssumption DEF Caller
  <2>6. OnlyNow(t, b, done)
    <3>1. NoneAhead(t, a)
      <4>1. \A i \in DOMAIN t : t[i] = later \/ (i \in DOMAIN q /\ t[i] = q[i])
        BY <1>2, <1>3, <2>2
      <4> QED
        BY <1>2, <1>3, <1>5, <4>1 DEF NoneAhead, NoApply
    <3>2. \A d \in Action : Inner[d] = b => d = a
      BY <1>2, <1>5, ActionAssumption
    <3> QED
      BY <1>2, <1>5, <3>1, <3>2 DEF OnlyNow
  <2>7. /\ actionLog' \in Seq(Action) /\ Len(actionLog') <= LogSize
        /\ applied' \in Seq(Action) /\ work' \in Seq(WorkEntry)
        /\ waits' \in [Caller -> ActionCall] /\ LogInv'
        /\ AppliesOnce(work', waits', ToSet(applied')) /\ CallersFit(work', waits')
        /\ \A h, z : Awaited(t, waits, h, z) /\ NoBody(t, b) => Awaited(work', waits', h, z)
    <3>1. /\ UNCHANGED <<undone, ended>> /\ b \notin ToSet(applied) /\ waits[a] = NoCall
          /\ AppliesOnce(t, waits, ToSet(applied)) /\ CallersFit(t, waits)
          /\ OnlyNow(t, b, ToSet(applied)) /\ Inner[a] = b
      BY <1>1, <2>3, <2>5, <2>6
    <3> QED
      BY <1>2, <2>1, <2>3, <2>5, <3>1, ApplyInv
  <2>8. ActionTypeOK'
    BY <1>1, <1>2, <1>4, <2>7 DEF ActionTypeOK
  <2>9. Named(waits')
    <3>1. waits' = Rewaiting(w, a, Awaiting("apply", b))
      BY <2>1 DEF Apply, Rewaiting
    <3> QED
      BY <1>2, <2>5, <3>1, NamesAction
  <2>10. ASSUME ~overlap' PROVE Awaited(work', waits', finished', undone') /\ ~stray'
    <3>1. ~overlap /\ ~stray /\ Awaited(t, waits, g, undone)
      BY <1>1, <1>2, <2>4, <2>10
    <3>2. NoBody(t, b)
      BY <1>2, <2>3, <2>5, <3>1, NoneYet
    <3> QED
      BY <1>1, <2>7, <3>1, <3>2
  <2> QED
    BY <2>7, <2>8, <2>9, <2>10 DEF ActionInv
<1>6. ASSUME ~(e.kind = "apply" /\ a \notin Fails /\ Inner[a] # NoAction)
      PROVE  ActionInv'
  <2> PICK t : t = IF a \in Suspends THEN Append(q, later) ELSE <<later>> \o q
    OBVIOUS
  <2>1. work' = t /\ UNCHANGED <<actionLog, applied, waits>>
    BY <1>6 DEF BodyStarts
  <2>2. t = Append(q, later) \/ t = <<later>> \o q
    OBVIOUS
  <2>3. t \in Seq(WorkEntry) /\ AppliesOnce(t, w, done) /\ CallersFit(t, w)
    <3>1. ASSUME t = Append(q, later)
          PROVE  t \in Seq(WorkEntry) /\ AppliesOnce(t, w, done) /\ CallersFit(t, w)
      BY ONLY <1>1, <1>2, <1>3, <3>1, Pushed
    <3>2. ASSUME t = <<later>> \o q
          PROVE  t \in Seq(WorkEntry) /\ AppliesOnce(t, w, done) /\ CallersFit(t, w)
      BY ONLY <1>1, <1>2, <1>3, <3>2, Stays
    <3> QED
      BY <2>2, <3>1, <3>2
  <2>4. ~overlap => Awaited(t, w, g, u)
    <3>1. ASSUME t = Append(q, later) PROVE ~overlap => Awaited(t, w, g, u)
      BY ONLY <1>1, <1>2, <1>3, <1>4, <3>1, Pushed
    <3>2. ASSUME t = <<later>> \o q PROVE ~overlap => Awaited(t, w, g, u)
      BY ONLY <1>1, <1>2, <1>3, <1>4, <3>2, Stays
    <3> QED
      BY <2>2, <3>1, <3>2
  <2>5. ActionTypeOK'
    BY <1>1, <1>2, <1>4, <2>1, <2>3 DEF ActionTypeOK
  <2>6. LogInv'
    BY <1>1, <1>2, <2>1, LogKept
  <2> QED
    BY <1>1, <1>2, <2>1, <2>3, <2>4, <2>5, <2>6 DEF ActionInv
<1> QED
  BY <1>5, <1>6

LEMMA ActionsBegin == ActionInit => ActionInv
<1> SUFFICES ASSUME ActionInit PROVE ActionInv
  OBVIOUS
<1>1. /\ actionLog = <<>> /\ work = <<>> /\ applied = <<>> /\ ToSet(applied) = {}
      /\ DOMAIN actionLog = {} /\ DOMAIN work = {} /\ DOMAIN applied = {}
      /\ ToSet(actionLog) = {}
  BY DEF ActionInit, ToSet
<1>2. undone \in [Action -> Nat] /\ \A a \in Action : undone[a] = 0
  BY DEF ActionInit
<1>3. waits \in [Caller -> ActionCall] /\ \A c \in Caller : waits[c] = NoCall
  BY DEF ActionInit, ActionCall, NoCall
<1>4. ActionTypeOK
  <2>1. /\ actionLog \in Seq(Action) /\ Len(actionLog) <= LogSize /\ redoLog \in Seq(Action)
        /\ work \in Seq(WorkEntry) /\ applied \in Seq(Action)
    BY ActionAssumption DEF ActionInit
  <2>2. calls \in 0 .. MaxCalls /\ ended \in {"no", "panic", "null action"}
    BY ActionAssumption DEF ActionInit
  <2>3. finished \in [Action -> BOOLEAN] /\ overlap \in BOOLEAN /\ stray \in BOOLEAN
    BY DEF ActionInit
  <2> QED
    BY <1>2, <1>3, <2>1, <2>2, <2>3 DEF ActionTypeOK
<1>5. LogInv
  <2>1. Ordered(actionLog, applied, undone, Running)
    BY <1>1, <1>2 DEF Ordered, Left
  <2> QED
    BY <1>1, <1>2, <2>1, OrderedIs DEF LogInv, Distinct
<1>6. AppliesOnce(work, waits, ToSet(applied))
  BY <1>1, <1>3 DEF AppliesOnce, Caller
<1>7. CallersFit(work, waits) /\ Awaited(work, waits, finished, undone)
  BY <1>1 DEF CallersFit, Awaited
<1>8. Named(waits) /\ ~stray
  BY <1>3 DEF Named, ActionInit
<1> QED
  BY <1>4, <1>5, <1>6, <1>7, <1>8 DEF ActionInv

LEMMA ActionNextInv == ActionInv /\ [ActionNext]_actionVars => ActionInv'
<1> SUFFICES ASSUME ActionInv, [ActionNext]_actionVars PROVE ActionInv'
  OBVIOUS
<1>1. ASSUME NEW c \in Client, NEW a \in Action, CallApply(c, a) PROVE ActionInv'
  BY <1>1, CallApplyInv
<1>2. ASSUME NEW c \in Client, CallUndo(c) PROVE ActionInv'
  BY <1>2, CallUndoInv
<1>3. ASSUME NEW c \in Client, CallReapply(c) PROVE ActionInv'
  BY <1>3, CallReapplyInv
<1>4. CASE CallerWaits
  BY <1>4, CallerWaitsInv
<1>5. CASE CallerResumes
  BY <1>5, CallerResumesInv
<1>6. CASE BodyStarts
  BY <1>6, BodyStartsInv
<1>7. CASE BodyEnds
  BY <1>7, BodyEndsInv
<1>8. CASE BodyRevokes
  BY <1>8, BodyRevokesInv
<1>9. CASE UNCHANGED actionVars
  <2>1. UNCHANGED <<actionLog, redoLog, finished, work, waits, applied, undone, overlap,
                    stray, calls, ended>>
    BY <1>9 DEF actionVars
  <2>2. ActionTypeOK'
    BY <2>1 DEF ActionInv, ActionTypeOK
  <2>3. LogInv'
    <3>1. LogInOrder'
      BY <2>1 DEF ActionInv, LogInv, LogInOrder, Running
    <3> QED
      BY <2>1, <3>1 DEF ActionInv, LogInv
  <2> QED
    BY <2>1, <2>2, <2>3 DEF ActionInv
<1> QED
  BY <1>1, <1>2, <1>3, <1>4, <1>5, <1>6, <1>7, <1>8, <1>9 DEF ActionNext, ActionsRest

\* The actions, the fifo and what the callers await fit together in every state, for
\* every number of fibers, actions and entries of the log.
THEOREM ActionTheorem == ActionSpec => []ActionInv
<1>1. ActionInit => ActionInv
  BY ActionsBegin
<1>2. ActionInv /\ [ActionNext]_actionVars => ActionInv'
  BY ActionNextInv
<1> QED
  BY <1>1, <1>2, PTL DEF ActionSpec

\* ActionLog::storeLog() and popLog() keep the actions in the order in which they were
\* applied, forget the oldest when the log is full, and offer none for undo() twice.
THEOREM LogOrderTheorem == ActionSpec => []LogInOrder
<1>1. ActionInv => LogInOrder
  BY DEF ActionInv, LogInv
<1> QED
  BY <1>1, ActionTheorem, PTL

\* A body finds the frame of the call that it writes its result into, unless undo() has
\* taken an action that was still being applied: setRunning() clears the signal before
\* the caller of ActionDispatcher looks at it, as the body is ahead of it in the fifo.
THEOREM ResultTheorem == ActionSpec => []ResultReachesCaller
<1>1. ActionInv => ResultReachesCaller
  BY DEF ActionInv, ResultReachesCaller
<1> QED
  BY <1>1, ActionTheorem, PTL
==============================================================================
