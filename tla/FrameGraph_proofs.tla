-------------------------- MODULE FrameGraph_proofs -------------------------
(***************************************************************************)
(* The structural properties of FrameGraph, for any names, instants,       *)
(* transforms and durations, and so for trees of any size.  None of them   *)
(* is inductive alone (an update looks a frame up by name, compares its    *)
(* parent, trusts the list of children and inserts into a sorted buffer),  *)
(* and together, as WellFormed, they are.                                  *)
(***************************************************************************)
EXTENDS FrameGraph, FrameTree_proofs

IInv == WellFormed(graph)

LEMMA InitEstablishes == Init => IInv
BY NewGraphWellFormed DEF Init, IInv

LEMMA StepKeeps == IInv /\ [Next]_graph => IInv'
<1>1. ASSUME IInv, NEW m \in Messages, UpdateWith(m)
      PROVE  IInv'
  BY <1>1, UpdateKeeps DEF IInv, UpdateWith
<1>2. ASSUME IInv, CopyConstruct
      PROVE  IInv'
  BY <1>2, CopyKeeps DEF IInv, CopyConstruct
<1>3. ASSUME IInv, UNCHANGED graph
      PROVE  IInv'
  BY <1>3 DEF IInv
<1>4. QED
  BY <1>1, <1>2, <1>3 DEF Next

LEMMA Inductive == Spec => []IInv
<1>1. QED
  BY InitEstablishes, StepKeeps, PTL DEF Spec

(* The graph is always well typed: names, frames, lists and buffers of any *)
(* number and length stay consistent in their types and ranges.            *)
THEOREM TypeCorrect == Spec => []TypeOK
<1>1. IInv => TypeOK
  BY DEF IInv, WellFormed, TypeOK
<1>2. QED
  BY <1>1, Inductive, PTL

(* The name map is always the inverse of the vector of frames.             *)
THEOREM NamesStayUnique == Spec => []NamesMatchFrames
<1>1. IInv => NamesMatchFrames
  BY DEF IInv, WellFormed, NamesMatchFrames
<1>2. QED
  BY <1>1, Inductive, PTL

(* No sequence of updates closes a cycle or gives the root a parent.       *)
THEOREM NeverCyclic == Spec => []Rooted
<1>1. IInv => Rooted
  BY DEF IInv, WellFormed, Rooted
<1>2. QED
  BY <1>1, Inductive, PTL

(* Parent slots and lists of children never disagree.                      *)
THEOREM ListsStayConsistent == Spec => []ListsAgree
<1>1. IInv => ListsAgree
  BY DEF IInv, WellFormed, ListsAgree
<1>2. QED
  BY <1>1, Inductive, PTL

(* Every known frame but the root always has a transform to answer with.   *)
THEOREM EdgesNeverEmpty == Spec => []EdgesHaveData
<1>1. IInv => EdgesHaveData
  BY DEF IInv, WellFormed, EdgesHaveData
<1>2. QED
  BY <1>1, Inductive, PTL

-----------------------------------------------------------------------------

(* get_leaves is always right: its count of list entries finds exactly the *)
(* frames that are nobody's parent.                                        *)
LEMMA LeafLists ==
    ASSUME IInv, NEW i \in Indices(graph) \ {RootIndex}
    PROVE  Len(graph.graph[i]) <= 1 <=> \A j \in Indices(graph) : ParentOf(graph, j) # i
<1>1. /\ Len(graph.graph[i]) \in Nat
      /\ RootIndex \in Indices(graph)
      /\ i # None
      /\ ParentOf(graph, RootIndex) = None
  BY FrameAndList, GraphMembers DEF IInv, WellFormed, ParentsPrecede, None
<1>2. ASSUME NEW j \in Indices(graph), ParentOf(graph, j) = i
      PROVE  Len(graph.graph[i]) >= 2
  <2>1. j \in ChildrenOf(graph, i)
    BY <1>1, <1>2 DEF IInv, WellFormed, EdgesListedOnce
  <2>2. PICK k \in 2 .. Len(graph.graph[i]) : j = graph.graph[i][k]
    BY <2>1 DEF ChildrenOf
  <2>3. QED
    BY <1>1, <2>2
<1>3. ASSUME Len(graph.graph[i]) >= 2
      PROVE  \E j \in Indices(graph) : ParentOf(graph, j) = i
  <2>1. graph.graph[i][2] \in ChildrenOf(graph, i)
    BY <1>1, <1>3 DEF ChildrenOf
  <2>2. QED
    BY <2>1, ChildrenAreFrames DEF IInv
<1>4. QED
  BY <1>1, <1>2, <1>3

THEOREM LeavesCorrect == Spec => []LeavesAreChildless
<1>1. ASSUME IInv PROVE LeavesAreChildless
  <2> DEFINE childless == {n \in Known \ {Root} :
                             \A i \in Indices(graph) :
                                 ParentOf(graph, i) # graph.name_to_index[n]}
  <2>1. /\ \A n \in Known : /\ graph.name_to_index[n] \in Indices(graph)
                           /\ graph.frames[graph.name_to_index[n]].name = n
        /\ \A i \in Indices(graph) :
              /\ graph.frames[i].name \in Known
              /\ graph.name_to_index[graph.frames[i].name] = i
        /\ graph.frames[RootIndex].name = Root
        /\ RootIndex \in Indices(graph)
    BY <1>1, GraphMembers
       DEF IInv, WellFormed, Typed, NamesInverse, ParentsPrecede, Exists, Known
  <2>2. ASSUME NEW n \in Leaves(graph) PROVE n \in childless
    <3>1. PICK i \in {j \in Indices(graph) : Len(graph.graph[j]) <= 1} \ {RootIndex} :
             n = graph.frames[i].name
      BY DEF Leaves
    <3>2. graph.name_to_index[n] = i /\ n \in Known /\ n # Root
      BY <2>1, <3>1
    <3>3. \A j \in Indices(graph) : ParentOf(graph, j) # i
      BY <1>1, <3>1, LeafLists
    <3>4. QED
      BY <3>2, <3>3
  <2>3. ASSUME NEW n \in childless PROVE n \in Leaves(graph)
    <3> DEFINE i == graph.name_to_index[n]
    <3>1. i \in Indices(graph) \ {RootIndex} /\ graph.frames[i].name = n
      BY <2>1
    <3>2. Len(graph.graph[i]) <= 1
      BY <1>1, <3>1, LeafLists
    <3>3. QED
      BY <3>1, <3>2 DEF Leaves
  <2>4. QED
    BY <2>2, <2>3 DEF LeavesAreChildless
<1>2. QED
  BY <1>1, Inductive, PTL

(* update refuses exactly the contradictory transforms, and refusing one   *)
(* leaves frames, buffers, names and edges as they were.                   *)
THEOREM RefusalsAreHarmless == Spec => []RefusalsLeaveNoTrace
<1>1. ASSUME IInv, NEW m \in Messages
      PROVE  LET update == Update(graph, m)
             IN  /\ update.ok <=> Consistent(m)
                 /\ ~update.ok =>
                       /\ update.graph.frames = graph.frames
                       /\ update.graph.name_to_index = graph.name_to_index
                       /\ \A i \in Indices(graph) :
                             /\ ParentOf(update.graph, i) = ParentOf(graph, i)
                             /\ ChildrenOf(update.graph, i) = ChildrenOf(graph, i)
  <2> DEFINE c == graph.name_to_index[m.child_frame_id]
             p == graph.name_to_index[m.frame_id]
  <2>1. /\ Update(graph, m).ok <=>
              /\ Exists(graph, m.frame_id)
              /\ Exists(graph, m.child_frame_id) => ParentOf(graph, c) = p
        /\ ~Update(graph, m).ok =>
              /\ Update(graph, m).graph.frames = graph.frames
              /\ Update(graph, m).graph.name_to_index = graph.name_to_index
              /\ \A i \in Indices(graph) :
                    /\ ParentOf(Update(graph, m).graph, i) = ParentOf(graph, i)
                    /\ ChildrenOf(Update(graph, m).graph, i) = ChildrenOf(graph, i)
    BY <1>1, UpdateAccepts DEF IInv
  <2>2. ASSUME Exists(graph, m.frame_id), Exists(graph, Root), ParentOf(graph, c) = p
        PROVE  m.child_frame_id # Root
    <3>1. p \in Indices(graph) /\ p # None
      <4>1. Indices(graph) = 1 .. Len(graph.frames) /\ Len(graph.frames) \in Nat
        BY <1>1, GraphMembers DEF IInv, WellFormed
      <4>2. p \in Indices(graph)
        BY <1>1, <2>2 DEF IInv, WellFormed, Typed, Exists
      <4> HIDE DEF p
      <4>3. QED
        BY <4>1, <4>2 DEF None
    <3>2. /\ graph.frames[RootIndex].name = Root /\ RootIndex \in Indices(graph)
          /\ ParentOf(graph, RootIndex) = None
      BY <1>1, GraphMembers DEF IInv, WellFormed, ParentsPrecede
    <3>3. graph.name_to_index[Root] = RootIndex
      BY <1>1, <3>2 DEF IInv, WellFormed, NamesInverse
    <3>4. QED
      BY <2>2, <3>1, <3>2, <3>3
  <2>3. (/\ Exists(graph, m.frame_id)
         /\ Exists(graph, m.child_frame_id) => ParentOf(graph, c) = p) <=> Consistent(m)
    BY <2>2 DEF Consistent, Known, Exists
  <2> HIDE DEF c, p
  <2>4. QED
    BY <2>1, <2>3
<1>2. IInv => RefusalsLeaveNoTrace
  BY <1>1 DEF RefusalsLeaveNoTrace
<1>3. QED
  BY <1>2, Inductive, PTL

-----------------------------------------------------------------------------

(* The walk with visited marks finds the ancestors as they are defined.    *)
LEMMA AncestorsAreVisited ==
    ASSUME IInv, NEW i \in Indices(graph)
    PROVE  AncestorsOf(i) = Visited(graph, i)
<1> DEFINE n == Len(graph.frames)
           up == Climb(graph, i)
           V == Visited(graph, i)
<1>1. /\ V \in SUBSET Indices(graph)
      /\ i \in V
      /\ \A j \in V : ParentOf(graph, j) \in V \cup {None}
  BY VisitedProperties DEF IInv
<1>2. n \in Nat
  BY GraphMembers DEF IInv, WellFormed
<1>3. ASSUME NEW a \in V, NEW S \in SUBSET Indices(graph), i \in S,
             \A j \in S : ParentOf(graph, j) \in S \cup {None}
      PROVE  a \in S
  <2>1. PICK k \in 0 .. n : a = up[k] /\ a # None
    BY DEF Visited
  <2>2. up[0] = i
    BY <1>2, ClimbSteps
  <2>3. \A l \in 0 .. n : up[l] \in S \cup {None}
    <3>1. 0 \in 0 .. n /\ up[0] \in S \cup {None}
      BY <1>2, <1>3, <2>2
    <3>2. \A j \in S : ParentOf(graph, j) \in S \cup {None}
      BY <1>3
    <3>3. QED
      BY <1>2, <3>1, <3>2, ClimbStays
  <2> HIDE DEF up
  <2>4. QED
    BY <2>1, <2>3
<1> HIDE DEF V
<1>4. QED
  BY <1>1, <1>3 DEF AncestorsOf, V

(* find_nearest_ancestor is always right, in trees of any depth.           *)
THEOREM NearestCorrect == Spec => []NearestIsNearest
<1>1. ASSUME IInv, NEW a \in Indices(graph), NEW b \in Indices(graph)
      PROVE  LET common  == AncestorsOf(a) \cap AncestorsOf(b)
                 nearest == NearestAncestor(graph, a, b)
             IN  nearest \in common /\ common \subseteq AncestorsOf(nearest)
  <2> DEFINE nearest == NearestAncestor(graph, a, b)
             common == Visited(graph, a) \cap Visited(graph, b)
  <2>1. /\ nearest \in common
        /\ \A S : nearest \in S /\ (\A j \in S : ParentOf(graph, j) \in S \cup {None})
                 => common \subseteq S
    BY <1>1, NearestProperties DEF IInv
  <2>2. AncestorsOf(a) = Visited(graph, a) /\ AncestorsOf(b) = Visited(graph, b)
    BY <1>1, AncestorsAreVisited
  <2>3. common \subseteq Indices(graph)
    BY <1>1, VisitedProperties DEF IInv
  <2> HIDE DEF nearest, common
  <2>4. \A x \in common : x \in AncestorsOf(nearest)
    BY <2>1, <2>3 DEF AncestorsOf
  <2>5. QED
    BY <2>1, <2>2, <2>4 DEF nearest, common
<1>2. IInv => NearestIsNearest
  BY <1>1 DEF NearestIsNearest
<1>3. QED
  BY <1>2, Inductive, PTL

(* A lookup between known frames never fails, however deep the tree and    *)
(* however much of its history has expired.                                *)
THEOREM LookupsAnswered == Spec => []LookupTotal
<1>1. ASSUME IInv, NEW target \in Names, NEW source \in Names, NEW t \in Times
      PROVE  GetTransform(graph, target, source, t).ok
                <=> target = source \/ {target, source} \subseteq Known
  <2>1. GetTransform(graph, target, source, t).ok
           <=> target = source \/ (Exists(graph, target) /\ Exists(graph, source))
    BY <1>1, LookupSucceeds DEF IInv
  <2>2. QED
    BY <2>1 DEF Exists, Known
<1>2. IInv => LookupTotal
  BY <1>1 DEF LookupTotal
<1>3. QED
  BY <1>2, Inductive, PTL

(* Down one branch of the tree the answers of get_transform multiply, and  *)
(* up it they are the inverses, for any matrices in which the product is   *)
(* associative with the identity neutral.                                  *)
THEOREM BranchesComposed ==
    ASSUME NEW Poses, Composable(Poses)
    PROVE  Spec => []BranchesCompose
<1>1. ASSUME IInv, NEW low \in Known, NEW mid \in Known, NEW high \in Known,
             NEW t \in Times, IsBelow(low, mid), IsBelow(mid, high)
      PROVE  /\ PoseIn(low, high, t) = Compose(PoseIn(mid, high, t), PoseIn(low, mid, t))
             /\ PoseIn(high, low, t) = Invert(PoseIn(low, high, t))
  <2> DEFINE i == graph.name_to_index[low]
             m == graph.name_to_index[mid]
             a == graph.name_to_index[high]
  <2>1. WellFormed(graph) /\ t \in Int
    BY <1>1, InstantsAreIntegers DEF IInv, Times
  <2>2. Exists(graph, low) /\ Exists(graph, mid) /\ Exists(graph, high)
    BY DEF Known, Exists
  <2>3. i \in Indices(graph) /\ m \in Indices(graph)
    BY <2>1, <2>2 DEF WellFormed, Typed, Exists
  <2>4. m \in Visited(graph, i) /\ a \in Visited(graph, m)
    BY <1>1, <2>3, AncestorsAreVisited DEF IsBelow
  <2>5. /\ a \in Visited(graph, i)
        /\ AlongPath(graph, a, i, t) =
              Compose(AlongPath(graph, a, m, t), AlongPath(graph, m, i, t))
    BY <2>1, <2>3, <2>4, PathsCompose
  <2>6. /\ PoseIn(low, mid, t) = AlongPath(graph, m, i, t)
        /\ PoseIn(mid, high, t) = AlongPath(graph, a, m, t)
        /\ PoseIn(low, high, t) = AlongPath(graph, a, i, t)
        /\ PoseIn(high, low, t) = Invert(AlongPath(graph, a, i, t))
    BY <2>1, <2>2, <2>4, <2>5, PoseOnBranch DEF PoseIn
  <2>7. QED
    BY <2>5, <2>6
<1>2. IInv => BranchesCompose
  BY <1>1 DEF BranchesCompose
<1>3. QED
  BY <1>2, Inductive, PTL

-----------------------------------------------------------------------------

(* Where the names of the tree point.                                      *)
LEMMA KnownFrames ==
    ASSUME IInv, NEW n \in Known \ {Root}
    PROVE  /\ graph.name_to_index[n] \in Indices(graph) \ {RootIndex}
           /\ FrameOf(n).name = n
           /\ ParentOf(graph, graph.name_to_index[n]) \in Indices(graph)
<1> DEFINE i == graph.name_to_index[n]
<1>1. i \in Indices(graph) /\ graph.frames[i].name = n
  BY DEF IInv, WellFormed, Typed, NamesInverse, Known
<1>2. i # RootIndex
  BY <1>1 DEF IInv, WellFormed, ParentsPrecede
<1>3. ParentOf(graph, i) \in 1 .. i - 1
  BY <1>1, <1>2 DEF IInv, WellFormed, ParentsPrecede
<1>4. Len(graph.frames) \in Nat /\ Indices(graph) = 1 .. Len(graph.frames)
  BY GraphMembers DEF IInv, WellFormed
<1> HIDE DEF i
<1>5. ParentOf(graph, i) \in Indices(graph)
  BY <1>1, <1>3, <1>4
<1>6. QED
  BY <1>1, <1>2, <1>5 DEF i, FrameOf

(* One insertion into a buffer, in the terms of the abstract history.      *)
LEMMA InsertRefines ==
    ASSUME NEW deque \in Seq(Entries), StrictlySorted(deque),
           NEW d \in Int, NEW s \in Instants, NEW x \in Transforms
    PROVE  AsMap(InsertInto(deque, d, s, x)) =
               Abstract!Stored!Retained(Abstract!Stored!Written(AsMap(deque), s, x), d)
<1>1. deque \in Seq(StampedBy(Transforms)) /\ s \in Int
  <2>1. Entries \subseteq StampedBy(Transforms)
    BY InstantsAreIntegers DEF Entries, StampedBy
  <2>2. QED
    BY <2>1, SeqMonotonic, InstantsAreIntegers
<1>2. AsMap(InsertInto(deque, d, s, x)) = MapWithin(MapWith(AsMap(deque), s, x), d)
  BY <1>1, InsertIntoMap
<1>3. MapWith(AsMap(deque), s, x) = Abstract!Stored!Written(AsMap(deque), s, x)
  BY DEF MapWith, Abstract!Stored!Written
<1>4. ASSUME NEW map
      PROVE  MapWithin(map, d) = Abstract!Stored!Retained(map, d)
  BY DEF MapWithin, Abstract!Stored!Retained, Abstract!Stored!Kept
<1>5. QED
  BY <1>2, <1>3, <1>4

LEMMA EmptyIsNothing == AsMap(<<>>) = Abstract!Stored!Nothing
<1>1. Stamps(<<>>) = {}
  BY DEF Stamps
<1>2. QED
  BY <1>1 DEF AsMap, Abstract!Stored!Nothing

LEMMA InitRefines == Init => Abstract!Init
<1> SUFFICES ASSUME NEW d \in Durations, graph = NewGraph(Root, d) PROVE Abstract!Init
  BY DEF Init
<1>1. Known \ {Root} = {} /\ graph.duration = d
  BY DEF NewGraph, Known
<1>2. QED
  BY <1>1 DEF Abstract!Init, ParentNames, Histories, Retentions

(* What moves no frame is no step of the tree.                             *)
LEMMA UnmovedStutters ==
    ASSUME IInv, Unmoved(graph, graph'),
           \A i \in Indices(graph) : ParentOf(graph', i) = ParentOf(graph, i)
    PROVE  UNCHANGED <<ParentNames, Histories, Retentions>>
<1>1. graph'.frames = graph.frames /\ graph'.name_to_index = graph.name_to_index
  BY DEF Unmoved
<1>2. Known' = Known
  BY <1>1 DEF Known
<1>3. ASSUME NEW n \in Known \ {Root}
      PROVE  /\ ParentOf(graph', graph'.name_to_index[n])
                    = ParentOf(graph, graph.name_to_index[n])
             /\ FrameOf(n)' = FrameOf(n)
  BY <1>1, <1>3, KnownFrames DEF FrameOf
<1>4. ParentNames' = ParentNames
  BY <1>1, <1>2, <1>3 DEF ParentNames
<1>5. Histories' = Histories /\ Retentions' = Retentions
  BY <1>2, <1>3 DEF Histories, Retentions
<1>6. QED
  BY <1>4, <1>5

(* An insertion into the buffer of a known frame is the frame's Hear.      *)
LEMMA HeardRefines ==
    ASSUME IInv, NEW n \in Known \ {Root}, NEW s \in Instants, NEW x \in Transforms,
           Heard(graph, graph', graph.name_to_index[n], s, x),
           graph'.duration = graph.duration,
           \A i \in Indices(graph) : ParentOf(graph', i) = ParentOf(graph, i)
    PROVE  Abstract!Hear(n, s, x)
<1> DEFINE c == graph.name_to_index[n]
<1>1. /\ graph'.name_to_index = graph.name_to_index
      /\ \A i \in Indices(graph) :
            /\ graph'.frames[i].name = graph.frames[i].name
            /\ graph'.frames[i].duration = graph.frames[i].duration
            /\ i # c => graph'.frames[i] = graph.frames[i]
      /\ graph'.frames[c].buffer =
            InsertInto(graph.frames[c].buffer, graph.frames[c].duration, s, x)
  BY DEF Heard
<1>2. Known' = Known
  BY <1>1 DEF Known
<1>3. ASSUME NEW k \in Known \ {Root}
      PROVE  /\ graph.name_to_index[k] \in Indices(graph) \ {RootIndex}
             /\ graph.frames[graph.name_to_index[k]].name = k
             /\ ParentOf(graph, graph.name_to_index[k]) \in Indices(graph)
  BY <1>3, KnownFrames DEF FrameOf
<1>4. ParentNames' = ParentNames
  <2>1. ASSUME NEW k \in Known \ {Root}
        PROVE  graph'.frames[ParentOf(graph', graph'.name_to_index[k])].name =
                   graph.frames[ParentOf(graph, graph.name_to_index[k])].name
    BY <1>1, <1>3
  <2>2. QED
    BY <1>2, <2>1 DEF ParentNames
<1>5. ASSUME NEW k \in Known \ {Root}
      PROVE  /\ FrameOf(k)'.duration = FrameOf(k).duration
             /\ k # n => FrameOf(k)' = FrameOf(k)
  <2>1. k # n => graph.name_to_index[k] # c
    BY <1>3
  <2>2. QED
    BY <1>1, <1>3, <2>1 DEF FrameOf
<1>6. Retentions' = Retentions
  BY <1>2, <1>5 DEF Retentions
<1>7. AsMap(FrameOf(n)'.buffer) =
          Abstract!Stored!Retained(Abstract!Stored!Written(Histories[n], s, x), Retentions[n])
  <2>1. /\ graph.frames[c].buffer \in Seq(Entries)
        /\ graph.frames[c].duration \in Int
        /\ StrictlySorted(graph.frames[c].buffer)
    BY <1>3, FrameAndList DEF IInv, WellFormed, EdgesCarryData
  <2>2. FrameOf(n)'.buffer = InsertInto(graph.frames[c].buffer, graph.frames[c].duration, s, x)
    BY <1>1 DEF FrameOf
  <2>3. /\ Histories[n] = AsMap(graph.frames[c].buffer)
        /\ Retentions[n] = graph.frames[c].duration
    BY DEF Histories, Retentions, FrameOf
  <2>4. QED
    BY <2>1, <2>2, <2>3, InsertRefines
<1>8. Histories' = Abstract!Extended(Histories, n, AsMap(FrameOf(n)'.buffer))
  BY <1>2, <1>5 DEF Histories, Abstract!Extended
<1>9. n \in DOMAIN ParentNames
  BY DEF ParentNames
<1>10. QED
  BY <1>4, <1>6, <1>7, <1>8, <1>9 DEF Abstract!Hear

(* The admission of a frame is its Join.                                   *)
LEMMA GrownRefines ==
    ASSUME IInv, NEW parent \in Known, NEW n \in Names \ Known,
           NEW s \in Instants, NEW x \in Transforms,
           Grown(graph, graph', graph.name_to_index[parent], n, s, x),
           graph'.duration = graph.duration,
           \A i \in Indices(graph) : ParentOf(graph', i) = ParentOf(graph, i)
    PROVE  Abstract!Join(parent, n, s, x)
<1> DEFINE p == graph.name_to_index[parent]
           last == Len(graph.frames) + 1
<1>1. /\ graph'.name_to_index = [k \in Known \cup {n} |->
                                   IF k = n THEN last ELSE graph.name_to_index[k]]
      /\ \A i \in Indices(graph) : graph'.frames[i] = graph.frames[i]
      /\ graph'.frames[last].duration = graph.duration
      /\ graph'.frames[last].buffer = InsertInto(<<>>, graph.duration, s, x)
      /\ ParentOf(graph', last) = p
  BY DEF Grown, Known
<1> HIDE DEF last
<1>2. Root \in Known /\ n # Root
  <2>1. RootIndex \in Indices(graph) /\ graph.frames[RootIndex].name = Root
    BY GraphMembers DEF IInv, WellFormed, ParentsPrecede
  <2>2. QED
    BY <2>1 DEF IInv, WellFormed, NamesInverse, Exists, Known
<1>3. Known' = Known \cup {n} /\ Known' \ {Root} = (Known \ {Root}) \cup {n}
  BY <1>1, <1>2 DEF Known
<1>4. p \in Indices(graph) /\ graph.frames[p].name = parent
  BY DEF IInv, WellFormed, Typed, NamesInverse, Known
<1>5. ASSUME NEW k \in Known \ {Root}
      PROVE  /\ graph'.name_to_index[k] = graph.name_to_index[k]
             /\ graph.name_to_index[k] \in Indices(graph) \ {RootIndex}
             /\ ParentOf(graph, graph.name_to_index[k]) \in Indices(graph)
  <2>1. k # n /\ k \in Known
    OBVIOUS
  <2>2. QED
    BY <1>1, <2>1, KnownFrames
<1>6. graph'.name_to_index[n] = last
  BY <1>1
<1>7. ParentNames' = Abstract!Extended(ParentNames, n, parent)
  <2>1. ASSUME NEW k \in Known \ {Root}
        PROVE  graph'.frames[ParentOf(graph', graph'.name_to_index[k])].name =
                   graph.frames[ParentOf(graph, graph.name_to_index[k])].name
    BY <1>1, <1>5
  <2>2. graph'.frames[ParentOf(graph', graph'.name_to_index[n])].name = parent
    BY <1>1, <1>4, <1>6
  <2>3. ParentNames' = [k \in (Known \ {Root}) \cup {n} |->
                          graph'.frames[ParentOf(graph', graph'.name_to_index[k])].name]
    BY <1>3 DEF ParentNames
  <2>4. QED
    BY <2>1, <2>2, <2>3 DEF ParentNames, Abstract!Extended
<1>8. ASSUME NEW k \in Known \ {Root} PROVE FrameOf(k)' = FrameOf(k)
  BY <1>1, <1>5 DEF FrameOf
<1>9. /\ FrameOf(n)'.duration = graph.duration
      /\ FrameOf(n)'.buffer = InsertInto(<<>>, graph.duration, s, x)
  BY <1>1, <1>6 DEF FrameOf
<1>10. Retentions' = Abstract!Extended(Retentions, n, graph.duration)
  BY <1>3, <1>8, <1>9 DEF Retentions, Abstract!Extended
<1>11. AsMap(FrameOf(n)'.buffer) =
           Abstract!Stored!Retained(
               Abstract!Stored!Written(Abstract!Stored!Nothing, s, x), graph.duration)
  <2>1. <<>> \in Seq(Entries) /\ StrictlySorted(<<>>)
    BY DEF StrictlySorted
  <2>2. graph.duration \in Int
    BY GraphMembers DEF IInv, WellFormed
  <2>3. AsMap(InsertInto(<<>>, graph.duration, s, x)) =
            Abstract!Stored!Retained(
                Abstract!Stored!Written(AsMap(<<>>), s, x), graph.duration)
    BY <2>1, <2>2, InsertRefines
  <2>4. QED
    BY <1>9, <2>3, EmptyIsNothing
<1>12. Histories' = Abstract!Extended(Histories, n, AsMap(FrameOf(n)'.buffer))
  BY <1>3, <1>8 DEF Histories, Abstract!Extended
<1>13. Abstract!Known = Known
  BY <1>2 DEF Abstract!Known, ParentNames
<1>14. QED
  BY <1>7, <1>10, <1>11, <1>12, <1>13 DEF Abstract!Join

(* update(TransformStamped) on names, indices, lists and deques is one     *)
(* step of the abstract tree, or none; so is copying the graph.            *)
THEOREM Implementation == Spec => ImplementsTree
<1>1. ASSUME IInv, NEW m \in Messages, UpdateWith(m)
      PROVE  Abstract!Next \/ UNCHANGED Abstract!vars
  <2> DEFINE p == graph.name_to_index[m.frame_id]
             c == graph.name_to_index[m.child_frame_id]
  <2>1. /\ m.frame_id \in Names /\ m.child_frame_id \in Names
        /\ m.stamp \in Instants /\ m.transform \in Transforms
    BY DEF Messages
  <2>2. /\ graph'.duration = graph.duration
        /\ \A i \in Indices(graph) : ParentOf(graph', i) = ParentOf(graph, i)
        /\ \/ Unmoved(graph, graph')
           \/ /\ Exists(graph, m.child_frame_id)
              /\ c \in Indices(graph) \ {RootIndex}
              /\ Heard(graph, graph', c, m.stamp, m.transform)
           \/ /\ Exists(graph, m.frame_id) /\ ~Exists(graph, m.child_frame_id)
              /\ p \in Indices(graph)
              /\ Grown(graph, graph', p, m.child_frame_id, m.stamp, m.transform)
    BY <1>1, UpdateShape DEF IInv, UpdateWith
  <2>3. CASE Unmoved(graph, graph')
    BY <1>1, <2>2, <2>3, UnmovedStutters DEF Abstract!vars
  <2>4. CASE /\ Exists(graph, m.child_frame_id)
             /\ c \in Indices(graph) \ {RootIndex}
             /\ Heard(graph, graph', c, m.stamp, m.transform)
    <3>1. m.child_frame_id \in Known \ {Root}
      <4>1. RootIndex \in Indices(graph) /\ graph.frames[RootIndex].name = Root
        BY <1>1, GraphMembers DEF IInv, WellFormed, ParentsPrecede
      <4>2. graph.name_to_index[Root] = RootIndex
        BY <1>1, <4>1 DEF IInv, WellFormed, NamesInverse
      <4>3. QED
        BY <2>4, <4>2 DEF Exists, Known
    <3>2. Abstract!Hear(m.child_frame_id, m.stamp, m.transform)
      BY <1>1, <2>1, <2>2, <2>4, <3>1, HeardRefines
    <3>3. QED
      BY <2>1, <3>2 DEF Abstract!Next
  <2>5. CASE /\ Exists(graph, m.frame_id) /\ ~Exists(graph, m.child_frame_id)
             /\ p \in Indices(graph)
             /\ Grown(graph, graph', p, m.child_frame_id, m.stamp, m.transform)
    <3>1. m.frame_id \in Known /\ m.child_frame_id \in Names \ Known
      BY <2>1, <2>5 DEF Exists, Known
    <3>2. Abstract!Join(m.frame_id, m.child_frame_id, m.stamp, m.transform)
      BY <1>1, <2>1, <2>2, <2>5, <3>1, GrownRefines
    <3>3. QED
      BY <2>1, <3>2 DEF Abstract!Next
  <2>6. QED
    BY <2>2, <2>3, <2>4, <2>5
<1>2. ASSUME IInv, CopyConstruct PROVE Abstract!Next
  <2>1. graph' = [graph EXCEPT !.duration = 0]
    BY <1>2 DEF CopyConstruct, CopyOf
  <2>2. graph = [frames |-> graph.frames, graph |-> graph.graph,
                 name_to_index |-> graph.name_to_index, duration |-> graph.duration]
    BY <1>2, GraphMembers DEF IInv, WellFormed
  <2>3. /\ graph'.frames = graph.frames
        /\ graph'.graph = graph.graph
        /\ graph'.name_to_index = graph.name_to_index
        /\ graph'.duration = 0
    BY <2>1, <2>2
  <2>4. \A i \in Indices(graph) : ParentOf(graph', i) = ParentOf(graph, i)
    BY <2>3 DEF ParentOf
  <2>5. Unmoved(graph, graph')
    BY <2>3 DEF Unmoved
  <2>6. UNCHANGED <<ParentNames, Histories, Retentions>>
    BY <1>2, <2>4, <2>5, UnmovedStutters
  <2>7. Abstract!Copy
    BY <2>3, <2>6 DEF Abstract!Copy
  <2>8. QED
    BY <2>7 DEF Abstract!Next
<1>3. ASSUME UNCHANGED graph PROVE UNCHANGED Abstract!vars
  BY <1>3 DEF Abstract!vars, ParentNames, Histories, Retentions, Known, FrameOf
<1>4. IInv /\ [Next]_graph => [Abstract!Next]_(Abstract!vars)
  BY <1>1, <1>2, <1>3 DEF Next
<1>5. QED
  BY <1>4, InitRefines, Inductive, PTL DEF Spec, ImplementsTree, Abstract!Spec

=============================================================================
