----------------------------- MODULE FrameGraph -----------------------------
(***************************************************************************)
(* rix::tf::FrameGraph (src/rix/tf/frame_graph.cpp) as a state machine:    *)
(* one graph, updated with stamped transforms that arrive in any order,    *)
(* name frames nobody has heard of and contradict each other, and that may *)
(* at any time be replaced by a copy of itself.  update(TF) is a loop of   *)
(* the step below and adds no state of its own.  Searches and lookups do   *)
(* not change state; the properties quantify over every one of them.       *)
(***************************************************************************)
EXTENDS FrameTree, FiniteSets

VARIABLE graph

Init == \E d \in Durations : graph = NewGraph(Root, d)

UpdateWith(m) == graph' = Update(graph, m).graph

CopyConstruct == graph' = CopyOf(graph)

Next ==
    \/ \E m \in Messages : UpdateWith(m)
    \/ CopyConstruct

Spec == Init /\ [][Next]_graph

-----------------------------------------------------------------------------

(* TypeOK: the members of frame_graph.hpp have their types, the three      *)
(* containers describe the same frames, and every position stored in them  *)
(* is one of a frame or, for a parent, none.                               *)
TypeOK == Typed(graph)

(* NamesMatchFrames: the name map and the vector of frames are inverse to  *)
(* each other, so no frame is unreachable by name or known under two.      *)
NamesMatchFrames == NamesInverse(graph)

(* Rooted: only the first frame has no parent; every other one names a     *)
(* parent that was admitted before it, so no sequence of updates, not even *)
(* one that names the root as a child or a frame as its own parent, closes *)
(* a cycle, on which get_transform and --iterator would loop for ever.     *)
Rooted == ParentsPrecede(graph)

(* ListsAgree: the two directions of an edge are kept in different lists   *)
(* and agree: a frame is listed once under its parent and nowhere else.    *)
(* get_leaves reads the one direction, every lookup the other.             *)
ListsAgree == EdgesListedOnce(graph)

(* EdgesHaveData: every frame but the root has at least one transform, in  *)
(* a strictly sorted buffer, and the root has none: a frame is never known *)
(* by name without an answer to give, whatever was refused or expired.     *)
EdgesHaveData == EdgesCarryData(graph)

-----------------------------------------------------------------------------

Times == Instants \cup {0}

Known == DOMAIN graph.name_to_index

(* The ancestors of a frame, itself included, by their definition: what    *)
(* every set that contains the frame and the parents of its members must   *)
(* contain.                                                                *)
AncestorsOf(i) ==
    {a \in Indices(graph) :
        \A S \in SUBSET Indices(graph) :
            (i \in S /\ \A j \in S : ParentOf(graph, j) \in S \cup {None}) => a \in S}

(* NearestIsNearest: find_nearest_ancestor, with its visited marks and its *)
(* two walks, finds for any two frames in either order the one common      *)
(* ancestor that lies below all others.                                    *)
NearestIsNearest ==
    \A a, b \in Indices(graph) :
        LET common  == AncestorsOf(a) \cap AncestorsOf(b)
            nearest == NearestAncestor(graph, a, b)
        IN  nearest \in common /\ common \subseteq AncestorsOf(nearest)

(* LeavesAreChildless: get_leaves, which counts list entries, returns      *)
(* exactly the frames other than the root that are nobody's parent.        *)
LeavesAreChildless ==
    Leaves(graph) =
        {n \in Known \ {Root} :
            \A i \in Indices(graph) : ParentOf(graph, i) # graph.name_to_index[n]}

(* LookupTotal: once two frames are known, get_transform between them      *)
(* succeeds at every time, now and after any further update; it fails only *)
(* for a frame that is not known, and then only if the two names differ.   *)
LookupTotal ==
    \A target, source \in Names, t \in Times :
        GetTransform(graph, target, source, t).ok
            <=> target = source \/ {target, source} \subseteq Known

PoseIn(target, source, t) == GetTransform(graph, target, source, t).transform

IsBelow(n, a) ==
    graph.name_to_index[a] \in AncestorsOf(graph.name_to_index[n])

(* BranchesCompose: along one branch of the tree the answers of            *)
(* get_transform are those of a rigid body: going down in two stages       *)
(* equals going down in one, and going up is the inverse of going down.    *)
BranchesCompose ==
    \A low, mid, high \in Known, t \in Times :
        IsBelow(low, mid) /\ IsBelow(mid, high) =>
            /\ PoseIn(low, high, t) = Compose(PoseIn(mid, high, t), PoseIn(low, mid, t))
            /\ PoseIn(high, low, t) = Invert(PoseIn(low, high, t))

(* LookupsCompose: the same between any three frames.  The answer is       *)
(* labelled frame_id = source and child_frame_id = target, and the test of *)
(* get_transform (tests/frame_graph.cpp:236-241) reads it as the product   *)
(* of the edges that lead from the source to the target.                   *)
LookupsCompose ==
    \A a, b, c \in Known, t \in Times :
        PoseIn(c, a, t) = Compose(PoseIn(b, a, t), PoseIn(c, b, t))

(* FramesShareDuration: every frame keeps transforms for as long as the    *)
(* root frame does, the duration given to the constructor                  *)
(* (tests/frame_graph.cpp:35, 40, 45).                                     *)
FramesShareDuration ==
    \A i \in Indices(graph) : graph.frames[i].duration = graph.frames[RootIndex].duration

(* RefusalsLeaveNoTrace: an update is refused exactly when its parent is   *)
(* unknown or its child is known under another parent (the root is under   *)
(* none), and a refused update, which may already have given the parent    *)
(* its slot, changes no frame, no buffer, no name and no edge: update      *)
(* returns false and the buffers keep their sizes                          *)
(* (tests/frame_graph.cpp:105-109).                                        *)
Consistent(m) ==
    /\ m.frame_id \in Known
    /\ m.child_frame_id \in Known =>
          /\ m.child_frame_id # Root
          /\ ParentOf(graph, graph.name_to_index[m.child_frame_id])
                = graph.name_to_index[m.frame_id]

RefusalsLeaveNoTrace ==
    \A m \in Messages :
        LET update == Update(graph, m)
        IN  /\ update.ok <=> Consistent(m)
            /\ ~update.ok =>
                  /\ update.graph.frames = graph.frames
                  /\ update.graph.name_to_index = graph.name_to_index
                  /\ \A i \in Indices(graph) :
                        /\ ParentOf(update.graph, i) = ParentOf(graph, i)
                        /\ ChildrenOf(update.graph, i) = ChildrenOf(graph, i)

(* ImplementsTree: names, indices, lists and deques together behave as the *)
(* abstract tree: frames are never lost, a frame keeps its first parent    *)
(* for ever, one step changes the history of one edge and of no other, and *)
(* that history is what the edge's own retention leaves of it, whatever    *)
(* the graph's duration has become.                                        *)
ParentNames ==
    [n \in Known \ {Root} |->
        graph.frames[ParentOf(graph, graph.name_to_index[n])].name]

FrameOf(n) == graph.frames[graph.name_to_index[n]]

Histories == [n \in Known \ {Root} |-> AsMap(FrameOf(n).buffer)]

Retentions == [n \in Known \ {Root} |-> FrameOf(n).duration]

Abstract == INSTANCE TransformTree WITH
    parent    <- ParentNames,
    history   <- Histories,
    retained  <- Retentions,
    retention <- graph.duration

ImplementsTree == Abstract!Spec

=============================================================================
