------------------------- MODULE JrdfParser_proofs --------------------------
(***************************************************************************)
(* What JrdfParser guarantees for descriptions of any size, over any names *)
(* and with errors anywhere.  NeighboursAgree is not inductive: while the  *)
(* joints are read it is the parser's two local maps that must agree with  *)
(* the joints, and links only copy from the maps afterwards.  From what    *)
(* then holds of a valid model follows what its two walks return.          *)
(***************************************************************************)
EXTENDS JrdfParser, SequenceTheorems, FiniteSetTheorems, WellFoundedInduction, TLAPS

(* Types, also of the local maps; joints come before links.                *)
Typed ==
    /\ TypeOK
    /\ model = [joints |-> model.joints, links |-> model.links, root |-> model.root]
    /\ DOMAIN parent_map \subseteq LinkNames
    /\ \A l \in DOMAIN parent_map : parent_map[l] \in JointNames
    /\ DOMAIN children_map \subseteq LinkNames
    /\ \A l \in DOMAIN children_map : children_map[l] \in Seq(JointNames)
    /\ phase = "joints" => DOMAIN model.links = {}
    /\ IsFiniteSet(DOMAIN model.links)

(* Leaders are assigned between the last joint and the first link.         *)
LeadersFirst ==
    phase \in {"links", "parsed"} \/ DOMAIN model.links # {} => Mimics \subseteq led

(* The joints in the model are among those read.                           *)
JointsWereRead ==
    \A n \in DOMAIN model.joints : \E i \in DOMAIN joints_read : joints_read[i].name = n

(* What the maps say of a joint is so.                                     *)
ParentsTrue ==
    \A l \in DOMAIN parent_map :
        parent_map[l] \in DOMAIN model.joints /\ model.joints[parent_map[l]].child = l

ChildrenTrue ==
    \A l \in DOMAIN children_map : \A k \in DOMAIN children_map[l] :
        /\ children_map[l][k] \in DOMAIN model.joints
        /\ model.joints[children_map[l][k]].parent = l

(* No joint is entered below a link twice.                                 *)
ChildrenDistinct == \A l \in DOMAIN children_map : IsInjective(children_map[l])

(* The maps know every joint, except one that found its child taken.       *)
JointsEntered ==
    phase \in {"joints", "links", "parsed"} \/ DOMAIN model.links # {} =>
        \A n \in DOMAIN model.joints :
            /\ model.joints[n].child \in DOMAIN parent_map
            /\ parent_map[model.joints[n].child] = n
            /\ model.joints[n].parent \in DOMAIN children_map
            /\ \E k \in DOMAIN children_map[model.joints[n].parent] :
                   children_map[model.joints[n].parent][k] = n

LinksCopied ==
    /\ \A l \in DOMAIN model.links : model.links[l] = LinkNamed(l)
    /\ model.root # NoName => model.root \notin DOMAIN parent_map

MapsAgree ==
    /\ JointsWereRead /\ ParentsTrue /\ ChildrenTrue /\ ChildrenDistinct
    /\ JointsEntered /\ LinksCopied

IInv == Typed /\ LeadersFirst /\ (NamesAreUnique => MapsAgree)

-----------------------------------------------------------------------------
LEMMA ChildrenOfType ==
    ASSUME Typed, NEW link
    PROVE  ChildrenOf(link) \in Seq(JointNames)
BY DEF Typed, ChildrenOf

LEMMA LinkNamedType ==
    ASSUME Typed, NEW name
    PROVE  /\ LinkNamed(name).parent \in JointNames \cup {NoName}
           /\ LinkNamed(name).children \in Seq(JointNames)
           /\ IsRoot(LinkNamed(name)) => name \notin DOMAIN parent_map
BY ChildrenOfType, NamesAreNotEmpty DEF Typed, LinkNamed, IsRoot

LEMMA InitEstablishes == Init => IInv
<1> SUFFICES ASSUME Init PROVE IInv
  OBVIOUS
<1>1. DOMAIN model.joints = {} /\ DOMAIN model.links = {} /\ model.root = NoName
  BY DEF Init
<1>2. DOMAIN parent_map = {} /\ DOMAIN children_map = {}
  BY DEF Init
<1>3. Typed
  BY <1>1, <1>2, FS_EmptySet DEF Init, Typed, TypeOK
<1>4. LeadersFirst
  BY <1>1 DEF Init, LeadersFirst
<1>5. MapsAgree
  BY <1>1, <1>2 DEF MapsAgree, JointsWereRead, ParentsTrue, ChildrenTrue,
                    ChildrenDistinct, JointsEntered, LinksCopied
<1>6. QED
  BY <1>3, <1>4, <1>5 DEF IInv

-----------------------------------------------------------------------------
(* Reading a joint.                                                        *)
LEMMA ReadJointTyped ==
    ASSUME Typed, NEW j \in Joints, ReadJoint(j)
    PROVE  Typed'
<1>1. j.name \in JointNames /\ j.parent \in LinkNames /\ j.child \in LinkNames
  BY DEF Joints
<1>2. /\ model'.joints = Inserted(model.joints, j.name, j)
      /\ model'.links = model.links
      /\ model'.root = model.root
      /\ model' = [joints |-> model'.joints, links |-> model'.links, root |-> model'.root]
  BY DEF ReadJoint, Typed
<1>3. /\ DOMAIN model'.joints \subseteq JointNames
      /\ \A n \in DOMAIN model'.joints :
            model'.joints[n] \in Joints /\ model'.joints[n].name = n
      /\ DOMAIN model.joints \subseteq DOMAIN model'.joints
  BY <1>1, <1>2 DEF Typed, TypeOK, Inserted
<1>4. /\ DOMAIN parent_map' \subseteq LinkNames
      /\ \A l \in DOMAIN parent_map' : parent_map'[l] \in JointNames
  <2>1. CASE parent_map' = Inserted(parent_map, j.child, j.name)
    BY <1>1, <2>1 DEF Typed, Inserted
  <2>2. CASE UNCHANGED parent_map
    BY <2>2 DEF Typed
  <2>3. QED
    BY <2>1, <2>2 DEF ReadJoint
<1>5. /\ DOMAIN children_map' \subseteq LinkNames
      /\ \A l \in DOMAIN children_map' : children_map'[l] \in Seq(JointNames)
  <2>1. CASE children_map' = WithChild(j.parent, j.name)
    <3>1. Append(ChildrenOf(j.parent), j.name) \in Seq(JointNames)
      BY <1>1, ChildrenOfType, AppendProperties
    <3>2. QED
      BY <1>1, <2>1, <3>1 DEF Typed, WithChild
  <2>2. CASE UNCHANGED children_map
    BY <2>2 DEF Typed
  <2>3. QED
    BY <2>1, <2>2 DEF ReadJoint
<1>6. joints_read' \in Seq(Joints)
  BY AppendProperties DEF ReadJoint, Typed, TypeOK
<1>7. TypeOK'
  BY <1>2, <1>3, <1>6 DEF ReadJoint, Typed, TypeOK
<1>8. phase' = "joints" => DOMAIN model'.links = {}
  BY <1>2 DEF ReadJoint, Typed
<1>9. QED
  BY <1>2, <1>4, <1>5, <1>7, <1>8 DEF Typed

(* A joint whose name was not read before is new to the model, and those   *)
(* that were there stay as they are.                                       *)
LEMMA JointIsNew ==
    ASSUME Typed, JointsWereRead, NEW j \in Joints, ReadJoint(j), NamesAreUnique'
    PROVE  /\ j.name \notin DOMAIN model.joints
           /\ DOMAIN model'.joints = DOMAIN model.joints \cup {j.name}
           /\ model'.joints[j.name] = j
           /\ \A n \in DOMAIN model.joints : model'.joints[n] = model.joints[n]
           /\ model'.links = model.links /\ model'.root = model.root
           /\ NamesAreUnique
           /\ JointsWereRead'
<1> DEFINE m == Len(joints_read)
<1>1. /\ joints_read \in Seq(Joints) /\ m \in Nat
      /\ Len(joints_read') = m + 1
      /\ joints_read'[m + 1] = j
      /\ \A i \in 1 .. m : joints_read'[i] = joints_read[i]
      /\ DOMAIN joints_read = 1 .. m
      /\ DOMAIN joints_read' = 1 .. m + 1
  BY AppendProperties, LenProperties DEF ReadJoint, Typed, TypeOK
<1> HIDE DEF m
<1>2. j.name \notin DOMAIN model.joints
  <2> SUFFICES ASSUME j.name \in DOMAIN model.joints PROVE FALSE
    OBVIOUS
  <2>1. PICK i \in 1 .. m : joints_read[i].name = j.name
    BY <1>1 DEF JointsWereRead
  <2>2. joints_read'[i].name = joints_read'[m + 1].name
    BY <1>1, <2>1
  <2>3. i = m + 1
    BY <1>1, <2>2 DEF NamesAreUnique
  <2>4. QED
    BY <1>1, <2>3
<1>3. /\ model'.joints = Inserted(model.joints, j.name, j)
      /\ model'.links = model.links /\ model'.root = model.root
  BY DEF ReadJoint, Typed
<1>4. NamesAreUnique
  BY <1>1 DEF NamesAreUnique
<1>5. JointsWereRead'
  <2> SUFFICES ASSUME NEW n \in DOMAIN model'.joints
               PROVE  \E i \in DOMAIN joints_read' : joints_read'[i].name = n
    BY DEF JointsWereRead
  <2>1. CASE n = j.name
    BY <1>1, <2>1
  <2>2. CASE n \in DOMAIN model.joints
    <3>1. PICK i \in 1 .. m : joints_read[i].name = n
      BY <1>1, <2>2 DEF JointsWereRead
    <3>2. QED
      BY <1>1, <3>1
  <2>3. QED
    BY <1>3, <2>1, <2>2 DEF Inserted
<1>6. QED
  BY <1>2, <1>3, <1>4, <1>5 DEF Inserted

(* The joint's child is new to parent_map, and the joint itself to the     *)
(* list of children it is appended to.                                     *)
LEMMA MapsGrow ==
    ASSUME Typed, NEW j \in Joints, ReadJoint(j), j.child \notin DOMAIN parent_map
    PROVE  /\ DOMAIN parent_map' = DOMAIN parent_map \cup {j.child}
           /\ parent_map'[j.child] = j.name
           /\ \A l \in DOMAIN parent_map : parent_map'[l] = parent_map[l]
           /\ DOMAIN children_map' = DOMAIN children_map \cup {j.parent}
           /\ \A l \in DOMAIN children_map :
                 l # j.parent => children_map'[l] = children_map[l]
           /\ children_map'[j.parent] = Append(ChildrenOf(j.parent), j.name)
           /\ phase' = "joints"
<1>1. /\ parent_map' = Inserted(parent_map, j.child, j.name)
      /\ children_map' = WithChild(j.parent, j.name)
      /\ phase' = "joints"
  BY DEF ReadJoint
<1>2. QED
  BY <1>1 DEF Inserted, WithChild

LEMMA ReadJointKeepsChildren ==
    ASSUME Typed, JointsWereRead, ChildrenTrue, NEW j \in Joints, ReadJoint(j),
           NamesAreUnique'
    PROVE  ChildrenTrue'
<1>1. CASE j.child \in DOMAIN parent_map
  <2>1. UNCHANGED children_map
    BY <1>1 DEF ReadJoint
  <2>2. QED
    BY <2>1, JointIsNew DEF ChildrenTrue
<1>2. CASE j.child \notin DOMAIN parent_map
  <2> SUFFICES ASSUME NEW l \in DOMAIN children_map', NEW k \in DOMAIN children_map'[l]
               PROVE  /\ children_map'[l][k] \in DOMAIN model'.joints
                      /\ model'.joints[children_map'[l][k]].parent = l
    BY DEF ChildrenTrue
  <2>1. CASE l # j.parent
    <3>1. l \in DOMAIN children_map /\ children_map'[l] = children_map[l]
      BY <1>2, <2>1, MapsGrow
    <3>2. /\ children_map[l][k] \in DOMAIN model.joints
          /\ model.joints[children_map[l][k]].parent = l
      BY <3>1 DEF ChildrenTrue
    <3>3. QED
      BY <3>1, <3>2, JointIsNew
  <2>2. CASE l = j.parent
    <3>1. /\ ChildrenOf(l) \in Seq(JointNames)
          /\ \A i \in DOMAIN ChildrenOf(l) :
                 /\ ChildrenOf(l)[i] \in DOMAIN model.joints
                 /\ model.joints[ChildrenOf(l)[i]].parent = l
      BY ChildrenOfType DEF ChildrenTrue, ChildrenOf
    <3>2. /\ j.name \in JointNames
          /\ children_map'[l] = Append(ChildrenOf(l), j.name)
      BY <1>2, <2>2, MapsGrow DEF Joints
    <3>3. CASE k = Len(ChildrenOf(l)) + 1
      <4>1. children_map'[l][k] = j.name
        BY <3>1, <3>2, <3>3, AppendProperties
      <4>2. QED
        BY <2>2, <4>1, JointIsNew
    <3>4. CASE k # Len(ChildrenOf(l)) + 1
      <4>1. /\ k \in DOMAIN ChildrenOf(l)
            /\ children_map'[l][k] = ChildrenOf(l)[k]
        BY <3>1, <3>2, <3>4, AppendProperties, LenProperties
      <4>2. QED
        BY <3>1, <4>1, JointIsNew
    <3>5. QED
      BY <3>3, <3>4
  <2>3. QED
    BY <2>1, <2>2
<1>3. QED
  BY <1>1, <1>2

LEMMA ReadJointKeepsDistinct ==
    ASSUME Typed, JointsWereRead, ChildrenTrue, ChildrenDistinct,
           NEW j \in Joints, ReadJoint(j), NamesAreUnique'
    PROVE  ChildrenDistinct'
<1>1. CASE j.child \in DOMAIN parent_map
  <2>1. UNCHANGED children_map
    BY <1>1 DEF ReadJoint
  <2>2. QED
    BY <2>1 DEF ChildrenDistinct
<1>2. CASE j.child \notin DOMAIN parent_map
  <2> SUFFICES ASSUME NEW l \in DOMAIN children_map'
               PROVE  IsInjective(children_map'[l])
    BY DEF ChildrenDistinct
  <2>1. CASE l # j.parent
    <3>1. l \in DOMAIN children_map /\ children_map'[l] = children_map[l]
      BY <1>2, <2>1, MapsGrow
    <3>2. QED
      BY <3>1 DEF ChildrenDistinct
  <2>2. CASE l = j.parent
    <3> DEFINE s == ChildrenOf(l)
               t == children_map'[l]
    <3>1. /\ s \in Seq(JointNames) /\ j.name \in JointNames
          /\ t = Append(s, j.name)
      BY <1>2, <2>2, ChildrenOfType, MapsGrow DEF Joints
    <3>2. \A i \in DOMAIN s : s[i] # j.name
      <4>1. \A i \in DOMAIN s : s[i] \in DOMAIN model.joints
        BY DEF ChildrenTrue, ChildrenOf
      <4>2. QED
        BY <4>1, JointIsNew
    <3>3. IsInjective(s)
      BY DEF ChildrenDistinct, ChildrenOf, IsInjective
    <3> HIDE DEF s, t
    <3>4. /\ Len(s) \in Nat /\ DOMAIN s = 1 .. Len(s)
          /\ DOMAIN t = 1 .. Len(s) + 1
          /\ t[Len(s) + 1] = j.name
          /\ \A i \in 1 .. Len(s) : t[i] = s[i]
      BY <3>1, AppendProperties, LenProperties
    <3>5. \A i \in DOMAIN t : i \in DOMAIN s \/ i = Len(s) + 1
      BY <3>4
    <3>6. IsInjective(t)
      BY <3>2, <3>3, <3>4, <3>5 DEF IsInjective
    <3>7. QED
      BY <3>6 DEF t
  <2>3. QED
    BY <2>1, <2>2
<1>3. QED
  BY <1>1, <1>2

LEMMA ReadJointEnters ==
    ASSUME Typed, JointsWereRead, ParentsTrue, JointsEntered, NEW j \in Joints,
           ReadJoint(j), NamesAreUnique'
    PROVE  JointsEntered' /\ ParentsTrue'
<1>1. phase = "joints" /\ DOMAIN model.links = {} /\ DOMAIN model'.links = {}
  BY JointIsNew DEF ReadJoint, Typed
<1>2. CASE j.child \in DOMAIN parent_map
  <2>1. phase' = "abandoned" /\ UNCHANGED parent_map
    BY <1>2 DEF ReadJoint
  <2>2. QED
    BY <1>1, <2>1, JointIsNew DEF JointsEntered, ParentsTrue
<1>3. CASE j.child \notin DOMAIN parent_map
  <2>1. ParentsTrue'
    <3>1. ASSUME NEW l \in DOMAIN parent_map'
          PROVE  /\ parent_map'[l] \in DOMAIN model'.joints
                 /\ model'.joints[parent_map'[l]].child = l
      <4>1. CASE l = j.child
        <5>1. parent_map'[j.child] = j.name
          BY <1>3, MapsGrow
        <5>2. DOMAIN model'.joints = DOMAIN model.joints \cup {j.name} /\ model'.joints[j.name] = j
          BY JointIsNew
        <5>3. QED
          BY <4>1, <5>1, <5>2
      <4>2. CASE l # j.child
        <5>1. l \in DOMAIN parent_map /\ parent_map'[l] = parent_map[l]
          BY <1>3, <4>2, MapsGrow
        <5>2. /\ parent_map[l] \in DOMAIN model.joints
              /\ model.joints[parent_map[l]].child = l
          BY <5>1 DEF ParentsTrue
        <5>3. QED
          BY <5>1, <5>2, JointIsNew
      <4>3. QED
        BY <4>1, <4>2
    <3>2. QED
      BY <3>1 DEF ParentsTrue
  <2>2. ASSUME NEW n \in DOMAIN model.joints
        PROVE  /\ model'.joints[n].child \in DOMAIN parent_map'
               /\ parent_map'[model'.joints[n].child] = n
               /\ model'.joints[n].parent \in DOMAIN children_map'
               /\ \E k \in DOMAIN children_map'[model'.joints[n].parent] :
                      children_map'[model'.joints[n].parent][k] = n
    <3> DEFINE p == model.joints[n].parent
    <3>1. /\ model'.joints[n] = model.joints[n]
          /\ model.joints[n].child \in DOMAIN parent_map
          /\ parent_map[model.joints[n].child] = n
          /\ p \in DOMAIN children_map
      BY <1>1, JointIsNew DEF JointsEntered
    <3>2. PICK k \in DOMAIN children_map[p] : children_map[p][k] = n
      BY <1>1 DEF JointsEntered
    <3> HIDE DEF p
    <3>3. k \in DOMAIN children_map'[p] /\ children_map'[p][k] = n
      <4>1. CASE p # j.parent
        BY <1>3, <3>1, <3>2, <4>1, MapsGrow
      <4>2. CASE p = j.parent
        <5>1. ChildrenOf(p) = children_map[p] /\ ChildrenOf(p) \in Seq(JointNames)
          BY <3>1, ChildrenOfType DEF ChildrenOf
        <5>2. children_map'[p] = Append(ChildrenOf(p), j.name) /\ j.name \in JointNames
          BY <1>3, <4>2, MapsGrow DEF Joints
        <5>3. QED
          BY <3>2, <5>1, <5>2, AppendProperties, LenProperties
      <4>3. QED
        BY <4>1, <4>2
    <3>4. QED
      BY <1>3, <3>1, <3>3, MapsGrow DEF p
  <2>3. /\ j.child \in DOMAIN parent_map' /\ parent_map'[j.child] = j.name
        /\ j.parent \in DOMAIN children_map'
        /\ \E k \in DOMAIN children_map'[j.parent] : children_map'[j.parent][k] = j.name
    <3>1. ChildrenOf(j.parent) \in Seq(JointNames) /\ j.name \in JointNames
      BY ChildrenOfType DEF Joints
    <3>2. children_map'[j.parent] = Append(ChildrenOf(j.parent), j.name)
      BY <1>3, MapsGrow
    <3>3. /\ Len(ChildrenOf(j.parent)) + 1 \in DOMAIN children_map'[j.parent]
          /\ children_map'[j.parent][Len(ChildrenOf(j.parent)) + 1] = j.name
      BY <3>1, <3>2, AppendProperties, LenProperties
    <3>4. QED
      BY <1>3, <3>3, MapsGrow
  <2>4. QED
    BY <2>1, <2>2, <2>3, JointIsNew DEF JointsEntered
<1>4. QED
  BY <1>2, <1>3

LEMMA ReadJointKeeps ==
    ASSUME IInv, NEW j \in Joints, ReadJoint(j)
    PROVE  IInv'
<1>1. Typed'
  BY ReadJointTyped DEF IInv
<1>2. LeadersFirst'
  <2>1. model'.links = model.links /\ phase' \in {"joints", "abandoned"}
    BY DEF ReadJoint, IInv, Typed
  <2>2. DOMAIN model.links = {}
    BY DEF ReadJoint, IInv, Typed
  <2>3. QED
    BY <2>1, <2>2 DEF LeadersFirst
<1>3. ASSUME NamesAreUnique'
      PROVE  MapsAgree'
  <2>1. Typed /\ MapsAgree
    <3>1. Typed /\ (NamesAreUnique => MapsAgree)
      BY DEF IInv
    <3>2. joints_read \in Seq(Joints) /\ joints_read' = Append(joints_read, j)
      BY <3>1 DEF ReadJoint, Typed, TypeOK
    <3>3. \A i \in DOMAIN joints_read :
              i \in DOMAIN joints_read' /\ joints_read'[i] = joints_read[i]
      BY <3>2
    <3>4. NamesAreUnique
      BY <1>3, <3>3 DEF NamesAreUnique
    <3>5. QED
      BY <3>1, <3>4
  <2>2. JointsWereRead'
    BY <1>3, <2>1, JointIsNew DEF MapsAgree
  <2>3. ParentsTrue' /\ ChildrenTrue' /\ ChildrenDistinct' /\ JointsEntered'
    BY <1>3, <2>1, ReadJointKeepsChildren, ReadJointKeepsDistinct, ReadJointEnters DEF MapsAgree
  <2>4. DOMAIN model'.links = {} /\ model'.root = NoName
    BY <1>3, <2>1, JointIsNew DEF MapsAgree, ReadJoint, Typed, TypeOK
  <2>5. LinksCopied'
    BY <2>4 DEF LinksCopied
  <2>6. QED
    BY <2>2, <2>3, <2>5 DEF MapsAgree
<1>4. QED
  BY <1>1, <1>2, <1>3 DEF IInv

-----------------------------------------------------------------------------
(* Reading a link: it copies what the maps say, once.                      *)
LEMMA ReadLinkKeeps ==
    ASSUME IInv, NEW name \in LinkNames, ReadLink(name)
    PROVE  IInv'
<1> DEFINE link == LinkNamed(name)
<1>1. /\ model'.joints = model.joints
      /\ model'.links = Inserted(model.links, name, link)
      /\ model'.root = IF IsRoot(link) THEN name ELSE model.root
      /\ model' = [joints |-> model'.joints, links |-> model'.links, root |-> model'.root]
      /\ phase = "links"
      /\ UNCHANGED <<phase, parent_map, children_map, led, joints_read>>
  BY DEF ReadLink, IInv, Typed
<1>2. /\ link.parent \in JointNames \cup {NoName}
      /\ link.children \in Seq(JointNames)
      /\ IsRoot(link) => name \notin DOMAIN parent_map
  BY LinkNamedType DEF IInv
<1> HIDE DEF link
<1>3. Typed'
  <2>1. /\ DOMAIN model'.links = DOMAIN model.links \cup {name}
        /\ \A l \in DOMAIN model.links : model'.links[l] = model.links[l]
        /\ name \notin DOMAIN model.links => model'.links[name] = link
    BY <1>1 DEF Inserted
  <2>2. TypeOK'
    BY <1>1, <1>2, <2>1 DEF IInv, Typed, TypeOK
  <2>3. IsFiniteSet(DOMAIN model'.links)
    BY <2>1, FS_AddElement DEF IInv, Typed
  <2>4. QED
    BY <1>1, <2>2, <2>3 DEF IInv, Typed
<1>4. LeadersFirst'
  <2>1. Mimics' = Mimics
    BY <1>1 DEF Mimics
  <2>2. QED
    BY <1>1, <2>1 DEF IInv, LeadersFirst
<1>5. ASSUME NamesAreUnique'
      PROVE  MapsAgree'
  <2>1. MapsAgree
    BY <1>1, <1>5 DEF IInv, NamesAreUnique
  <2>2. JointsWereRead' /\ ParentsTrue' /\ ChildrenTrue' /\ ChildrenDistinct'
    BY <1>1, <2>1 DEF MapsAgree, JointsWereRead, ParentsTrue, ChildrenTrue, ChildrenDistinct
  <2>3. JointsEntered'
    BY <1>1, <2>1 DEF MapsAgree, JointsEntered
  <2>4. \A l : LinkNamed(l)' = LinkNamed(l)
    BY <1>1 DEF LinkNamed, ChildrenOf
  <2>5. \A l \in DOMAIN model'.links : model'.links[l] = LinkNamed(l)
    BY <1>1, <2>1 DEF MapsAgree, LinksCopied, Inserted, link
  <2>6. LinksCopied'
    BY <1>1, <1>2, <2>1, <2>4, <2>5 DEF MapsAgree, LinksCopied
  <2>7. QED
    BY <2>2, <2>3, <2>6 DEF MapsAgree
<1>6. QED
  BY <1>3, <1>4, <1>5 DEF IInv

(* The ends of the two phases and the returns change only phase and led.   *)
LEMMA RestKeeps ==
    ASSUME IInv,
           UNCHANGED <<model, parent_map, children_map, joints_read>>,
           \/ AssignLeaders \/ Finish \/ AbandonJoints \/ AbandonLinks
           \/ UNCHANGED <<phase, led>>
    PROVE  IInv'
<1>1. Mimics' = Mimics /\ Led' = Led /\ Led \subseteq DOMAIN model.joints
  BY DEF Mimics, Led
<1>2. Typed'
  BY <1>1 DEF IInv, Typed, TypeOK, AssignLeaders, Finish, AbandonJoints, AbandonLinks
<1>3. LeadersFirst'
  BY <1>1 DEF IInv, Typed, LeadersFirst, AssignLeaders, Finish, AbandonJoints, AbandonLinks
<1>4. ASSUME NamesAreUnique'
      PROVE  MapsAgree'
  <2>1. MapsAgree
    BY <1>4 DEF IInv, NamesAreUnique
  <2>2. JointsWereRead' /\ ParentsTrue' /\ ChildrenTrue' /\ ChildrenDistinct'
    BY <2>1 DEF MapsAgree, JointsWereRead, ParentsTrue, ChildrenTrue, ChildrenDistinct
  <2>3. \/ phase \in {"joints", "links", "parsed"}
        \/ phase' \notin {"joints", "links", "parsed"}
    BY DEF AssignLeaders, Finish, AbandonJoints, AbandonLinks
  <2>4. JointsEntered'
    BY <2>1, <2>3 DEF MapsAgree, JointsEntered
  <2>5. \A l : LinkNamed(l)' = LinkNamed(l)
    BY DEF LinkNamed, ChildrenOf
  <2>6. LinksCopied'
    BY <2>1, <2>5 DEF MapsAgree, LinksCopied
  <2>7. QED
    BY <2>2, <2>4, <2>6 DEF MapsAgree
<1>5. QED
  BY <1>2, <1>3, <1>4 DEF IInv

LEMMA StepKeeps == IInv /\ [Next]_vars => IInv'
<1>1. ASSUME IInv, NEW j \in Joints, ReadJoint(j)
      PROVE  IInv'
  BY <1>1, ReadJointKeeps
<1>2. ASSUME IInv, NEW name \in LinkNames, ReadLink(name)
      PROVE  IInv'
  BY <1>2, ReadLinkKeeps
<1>3. ASSUME IInv, AssignLeaders \/ Finish \/ AbandonJoints \/ AbandonLinks \/ UNCHANGED vars
      PROVE  IInv'
  <2>1. UNCHANGED <<model, parent_map, children_map, joints_read>>
    BY <1>3 DEF AssignLeaders, Finish, AbandonJoints, AbandonLinks, vars
  <2>2. QED
    BY <1>3, <2>1, RestKeeps DEF vars
<1>4. QED
  BY <1>1, <1>2, <1>3 DEF Next

LEMMA Inductive == Spec => []IInv
<1>1. QED
  BY InitEstablishes, StepKeeps, PTL DEF Spec

(* The maps of the model hold joints and links under their own names, and  *)
(* the root is one of the links, however the parse ended.                  *)
THEOREM TypeCorrect == Spec => []TypeOK
<1>1. IInv => TypeOK
  BY DEF IInv, Typed
<1>2. QED
  BY <1>1, Inductive, PTL

(* A model that calls itself valid has a leader for every mimic joint.     *)
THEOREM LeadersAssigned == Spec => []ValidModelsHaveLeaders
<1>1. IInv => ValidModelsHaveLeaders
  BY DEF IInv, LeadersFirst, ValidModelsHaveLeaders, IsValid
<1>2. QED
  BY <1>1, Inductive, PTL

(* Both directions of the kinematic tree agree in every model the parser   *)
(* leaves behind, from a description of any size, complete or abandoned.   *)
THEOREM NeighboursStayAgreed == Spec => []NeighboursAgree
<1>1. ASSUME IInv, NamesAreUnique, NEW l \in DOMAIN model.links
      PROVE  /\ model.links[l].parent # NoName =>
                    /\ model.links[l].parent \in DOMAIN model.joints
                    /\ model.joints[model.links[l].parent].child = l
             /\ \A k \in DOMAIN model.links[l].children :
                    /\ model.links[l].children[k] \in DOMAIN model.joints
                    /\ model.joints[model.links[l].children[k]].parent = l
  <2>1. /\ model.links[l].parent = IF l \in DOMAIN parent_map THEN parent_map[l] ELSE NoName
        /\ model.links[l].children = ChildrenOf(l)
    <3>1. model.links[l] = LinkNamed(l)
      BY <1>1 DEF IInv, MapsAgree, LinksCopied
    <3>2. QED
      BY <3>1 DEF LinkNamed
  <2>2. DOMAIN <<>> = {}
    OBVIOUS
  <2>3. QED
    BY <1>1, <2>1, <2>2 DEF IInv, MapsAgree, ParentsTrue, ChildrenTrue, ChildrenOf
<1>2. ASSUME IInv, NamesAreUnique, NEW n \in DOMAIN model.joints, DOMAIN model.links # {}
      PROVE  /\ model.root # NoName => model.joints[n].child # model.root
             /\ \A l \in DOMAIN model.links :
                    /\ model.joints[n].child = l => model.links[l].parent = n
                    /\ model.joints[n].parent = l =>
                          \E k \in DOMAIN model.links[l].children :
                              model.links[l].children[k] = n
  <2>1. /\ model.joints[n].child \in DOMAIN parent_map
        /\ parent_map[model.joints[n].child] = n
        /\ model.joints[n].parent \in DOMAIN children_map
        /\ \E k \in DOMAIN children_map[model.joints[n].parent] :
               children_map[model.joints[n].parent][k] = n
    BY <1>2 DEF IInv, MapsAgree, JointsEntered
  <2>2. \A l \in DOMAIN model.links :
           /\ model.links[l].parent = IF l \in DOMAIN parent_map THEN parent_map[l] ELSE NoName
           /\ model.links[l].children = ChildrenOf(l)
    <3> TAKE l \in DOMAIN model.links
    <3>1. model.links[l] = LinkNamed(l)
      BY <1>2 DEF IInv, MapsAgree, LinksCopied
    <3>2. QED
      BY <3>1 DEF LinkNamed
  <2>3. model.root # NoName => model.root \notin DOMAIN parent_map
    BY <1>2 DEF IInv, MapsAgree, LinksCopied
  <2>4. QED
    BY <2>1, <2>2, <2>3 DEF ChildrenOf
<1>3. IInv /\ model.root # NoName => DOMAIN model.links # {}
  BY DEF IInv, Typed, TypeOK
<1>4. IInv => NeighboursAgree
  <2> SUFFICES ASSUME IInv, NamesAreUnique PROVE NeighboursAgree
    BY DEF NeighboursAgree
  <2>1. \A l \in DOMAIN model.links :
              LET link == model.links[l]
              IN  /\ link.parent # NoName =>
                        /\ link.parent \in DOMAIN model.joints
                        /\ model.joints[link.parent].child = l
                  /\ \A k \in DOMAIN link.children :
                        /\ link.children[k] \in DOMAIN model.joints
                        /\ model.joints[link.children[k]].parent = l
    BY <1>1
  <2>2. model.root # NoName =>
              \A n \in DOMAIN model.joints : model.joints[n].child # model.root
    BY <1>2, <1>3
  <2>3. \A n \in DOMAIN model.joints, l \in DOMAIN model.links :
              /\ model.joints[n].child = l => model.links[l].parent = n
              /\ model.joints[n].parent = l =>
                    \E k \in DOMAIN model.links[l].children : model.links[l].children[k] = n
    BY <1>2
  <2>4. QED
    BY <2>1, <2>2, <2>3 DEF NeighboursAgree
<1>5. QED
  BY <1>4, Inductive, PTL

-----------------------------------------------------------------------------
(* Sequences and recursive functions over the naturals.                    *)

(* Induction, for properties that are written as a set of naturals.        *)
LEMMA SetInduction ==
    ASSUME NEW S, 0 \in S, \A n \in Nat : n \in S => n + 1 \in S
    PROVE  Nat \subseteq S
<1> DEFINE B == Nat \ S
<1>1. ASSUME B # {} PROVE FALSE
  <2>1. PICK x \in B : \A y \in B : ~(<<y, x>> \in OpToRel(<, Nat))
    BY <1>1, NatLessThanWellFounded, WFMin
  <2>2. x \in Nat /\ x \notin S /\ x # 0
    BY <2>1
  <2>3. x - 1 \in Nat /\ x - 1 < x
    BY <2>2
  <2>4. <<x - 1, x>> \in {ss \in Nat \X Nat : ss[1] < ss[2]}
    BY <2>2, <2>3
  <2>5. x - 1 \notin B
    BY <2>1, <2>4 DEF OpToRel
  <2>6. (x - 1) + 1 \in S
    BY <2>3, <2>5
  <2>7. (x - 1) + 1 = x
    BY <2>2
  <2>8. QED
    BY <2>2, <2>6, <2>7
<1>2. QED
  BY <1>1

(* The elements of a sequence put behind another.                          *)
LEMMA Joined ==
    ASSUME NEW T, NEW s \in Seq(T), NEW t \in Seq(T)
    PROVE  /\ s \o t \in Seq(T)
           /\ Len(s) \in Nat /\ Len(t) \in Nat /\ Len(s \o t) = Len(s) + Len(t)
           /\ DOMAIN s = 1 .. Len(s) /\ DOMAIN t = 1 .. Len(t)
           /\ DOMAIN (s \o t) = 1 .. Len(s) + Len(t)
           /\ \A a \in 1 .. Len(s) : (s \o t)[a] = s[a]
           /\ \A a \in 1 .. Len(t) : (s \o t)[Len(s) + a] = t[a]
           /\ \A a \in 1 .. Len(s) + Len(t) :
                 a > Len(s) => a - Len(s) \in 1 .. Len(t) /\ (s \o t)[a] = t[a - Len(s)]
OBVIOUS

(* s holds the first n names that are in D, in injective order.            *)
Holds(s, names, n, D) ==
    /\ s \in Seq(D)
    /\ \A a \in DOMAIN s : \E i \in 1 .. n : s[a] = names[i]
    /\ \A i \in 1 .. n : names[i] \in D => \E a \in DOMAIN s : s[a] = names[i]
    /\ (\A i, k \in 1 .. n : names[i] = names[k] => i = k) => IsInjective(s)

IsFinding(names, map, n, f) ==
    f = [k \in 0 .. n |-> IF k = 0 THEN <<>>
                          ELSE IF names[k] \in DOMAIN map THEN Append(f[k - 1], names[k])
                          ELSE f[k - 1]]

(* FoundIn is defined by recursion, for every number of names.             *)
LEMMA FindingExists ==
    ASSUME NEW names, NEW map
    PROVE  \A n \in Nat : \E f : IsFinding(names, map, n, f)
<1> DEFINE S == {n \in Nat : \E f : IsFinding(names, map, n, f)}
<1>1. 0 \in S
  <2> DEFINE f == [k \in 0 .. 0 |-> <<>>]
  <2>1. f = [k \in 0 .. 0 |-> IF k = 0 THEN <<>>
                          ELSE IF names[k] \in DOMAIN map THEN Append(f[k - 1], names[k])
                          ELSE f[k - 1]]
    OBVIOUS
  <2>2. QED
    BY <2>1 DEF IsFinding
<1>2. ASSUME NEW n \in Nat, n \in S PROVE n + 1 \in S
  <2>1. PICK f : IsFinding(names, map, n, f)
    BY <1>2
  <2>2. f = [k \in 0 .. n |-> IF k = 0 THEN <<>>
                          ELSE IF names[k] \in DOMAIN map THEN Append(f[k - 1], names[k])
                          ELSE f[k - 1]]
    BY <2>1 DEF IsFinding
  <2> DEFINE last == IF names[n + 1] \in DOMAIN map THEN Append(f[n], names[n + 1]) ELSE f[n]
             h == [k \in 0 .. n + 1 |-> IF k = n + 1 THEN last ELSE f[k]]
  <2>3. /\ h[n + 1] = last /\ \A k \in 0 .. n : h[k] = f[k]
        /\ h = [k \in 0 .. n + 1 |-> h[k]]
    OBVIOUS
  <2> HIDE DEF h
  <2>4. ASSUME NEW k \in 0 .. n + 1
        PROVE  h[k] = IF k = 0 THEN <<>>
                          ELSE IF names[k] \in DOMAIN map THEN Append(h[k - 1], names[k])
                          ELSE h[k - 1]
    <3>1. CASE k = n + 1
      <4>1. k # 0 /\ k - 1 = n /\ n \in 0 .. n
        BY <3>1
      <4>2. h[n] = f[n]
        BY <2>3, <4>1
      <4>3. QED
        BY <2>3, <3>1, <4>1, <4>2
    <3>2. CASE k # n + 1
      <4>1. k \in 0 .. n /\ (k # 0 => k - 1 \in 0 .. n)
        BY <3>2
      <4>2. h[k] = f[k] /\ (k # 0 => h[k - 1] = f[k - 1])
        BY <2>3, <4>1
      <4>3. QED
        BY <2>2, <4>1, <4>2
    <3>3. QED
      BY <3>1, <3>2
  <2>5. h = [k \in 0 .. n + 1 |-> IF k = 0 THEN <<>>
                          ELSE IF names[k] \in DOMAIN map THEN Append(h[k - 1], names[k])
                          ELSE h[k - 1]]
    BY <2>3, <2>4
  <2>6. IsFinding(names, map, n + 1, h)
    BY <2>5 DEF IsFinding
  <2>7. QED
    BY <2>6
<1> HIDE DEF S
<1>3. Nat \subseteq S
  BY <1>1, <1>2, SetInduction
<1>4. QED
  BY <1>3 DEF S

(* One more name.                                                          *)
LEMMA HoldsOneMore ==
    ASSUME NEW s, NEW names, NEW n \in Nat, NEW D, Holds(s, names, n, D)
    PROVE  /\ names[n + 1] \in D => Holds(Append(s, names[n + 1]), names, n + 1, D)
           /\ names[n + 1] \notin D => Holds(s, names, n + 1, D)
<1>1. s \in Seq(D) /\ Len(s) \in Nat /\ DOMAIN s = 1 .. Len(s)
  BY LenProperties DEF Holds
<1>2. /\ \A a \in DOMAIN s : \E i \in 1 .. n : s[a] = names[i]
      /\ \A i \in 1 .. n : names[i] \in D => \E a \in DOMAIN s : s[a] = names[i]
  BY DEF Holds
<1>3. (\A i, k \in 1 .. n + 1 : names[i] = names[k] => i = k) => IsInjective(s)
  BY DEF Holds
<1>4. 1 .. n + 1 = (1 .. n) \cup {n + 1}
  OBVIOUS
<1>5. CASE names[n + 1] \in D
  <2> DEFINE x == names[n + 1]
             t == Append(s, x)
  <2>1. /\ t \in Seq(D) /\ Len(t) = Len(s) + 1 /\ DOMAIN t = 1 .. Len(s) + 1
        /\ \A a \in 1 .. Len(s) : t[a] = s[a]
        /\ t[Len(s) + 1] = x
    BY <1>1, <1>5, AppendProperties
  <2>2. 1 .. Len(s) + 1 = (1 .. Len(s)) \cup {Len(s) + 1}
    BY <1>1
  <2> HIDE DEF t, x
  <2>3. \A a \in DOMAIN t : \E i \in 1 .. n + 1 : t[a] = names[i]
    BY <1>1, <1>2, <1>4, <2>1, <2>2 DEF x
  <2>4. \A i \in 1 .. n + 1 : names[i] \in D => \E a \in DOMAIN t : t[a] = names[i]
    BY <1>1, <1>2, <1>4, <2>1, <2>2 DEF x
  <2>5. ASSUME \A i, k \in 1 .. n + 1 : names[i] = names[k] => i = k
        PROVE  IsInjective(t)
    <3>1. \A a \in 1 .. Len(s) : s[a] # x
      <4> SUFFICES ASSUME NEW a \in 1 .. Len(s), s[a] = x PROVE FALSE
        OBVIOUS
      <4>1. PICK i \in 1 .. n : s[a] = names[i]
        BY <1>1, <1>2
      <4>2. i \in 1 .. n + 1 /\ n + 1 \in 1 .. n + 1 /\ i # n + 1
        OBVIOUS
      <4>3. QED
        BY <2>5, <4>1, <4>2 DEF x
    <3>2. \A a, b \in 1 .. Len(s) : s[a] = s[b] => a = b
      BY <1>1, <1>3, <2>5 DEF IsInjective
    <3>3. QED
      BY <2>1, <2>2, <3>1, <3>2 DEF IsInjective
  <2>6. Holds(t, names, n + 1, D)
    BY <2>1, <2>3, <2>4, <2>5 DEF Holds
  <2>7. QED
    BY <1>5, <2>6 DEF t, x
<1>6. CASE names[n + 1] \notin D
  <2>1. Holds(s, names, n + 1, D)
    BY <1>1, <1>2, <1>3, <1>4, <1>6 DEF Holds
  <2>2. QED
    BY <1>6, <2>1
<1>7. QED
  BY <1>5, <1>6

(* FoundIn keeps exactly the names that are in the map, and no more often  *)
(* than they were named.                                                   *)
LEMMA FoundAre ==
    ASSUME NEW names, Len(names) \in Nat, NEW map
    PROVE  Holds(FoundIn(names, map), names, Len(names), DOMAIN map)
<1> DEFINE m == Len(names)
           g == CHOOSE f : f = [k \in 0 .. m |-> IF k = 0 THEN <<>>
                          ELSE IF names[k] \in DOMAIN map THEN Append(f[k - 1], names[k])
                          ELSE f[k - 1]]
<1>1. FoundIn(names, map) = g[m]
  BY DEF FoundIn
<1>2. m \in Nat
  OBVIOUS
<1> HIDE DEF m
<1>3. g = [k \in 0 .. m |-> IF k = 0 THEN <<>>
                          ELSE IF names[k] \in DOMAIN map THEN Append(g[k - 1], names[k])
                          ELSE g[k - 1]]
  <2>1. PICK f : IsFinding(names, map, m, f)
    BY <1>2, FindingExists
  <2>2. QED
    BY <2>1 DEF IsFinding
<1> HIDE DEF g
<1> DEFINE S == {n \in Nat : n <= m => Holds(g[n], names, n, DOMAIN map)}
<1>4. 0 \in S
  <2>1. g[0] = <<>>
    BY <1>2, <1>3
  <2>2. Holds(<<>>, names, 0, DOMAIN map)
    BY DEF Holds, IsInjective
  <2>3. QED
    BY <2>1, <2>2
<1>5. ASSUME NEW n \in Nat, n \in S PROVE n + 1 \in S
  <2> SUFFICES ASSUME n + 1 <= m PROVE Holds(g[n + 1], names, n + 1, DOMAIN map)
    OBVIOUS
  <2>1. n + 1 \in 0 .. m /\ n + 1 # 0 /\ (n + 1) - 1 = n /\ n <= m
    BY <1>2
  <2>2. Holds(g[n], names, n, DOMAIN map)
    BY <1>5, <2>1
  <2>3. g[n + 1] = IF names[n + 1] \in DOMAIN map THEN Append(g[n], names[n + 1]) ELSE g[n]
    BY <1>3, <2>1
  <2> HIDE DEF S
  <2>4. QED
    BY <2>2, <2>3, HoldsOneMore
<1>6. Nat \subseteq S
  <2> HIDE DEF S
  <2>1. QED
    BY <1>4, <1>5, SetInduction
<1>7. Holds(g[m], names, m, DOMAIN map)
  BY <1>2, <1>6
<1>8. QED
  BY <1>1, <1>7 DEF m

-----------------------------------------------------------------------------
(***************************************************************************)
(* The walk of get_transforms.  WellLinked is what the parser makes of a   *)
(* description without repeated names; there may be cycles beside the tree *)
(* below the root, which no walk from the root enters.                     *)
(***************************************************************************)
JointsOf(m) == {m.joints[n] : n \in DOMAIN m.joints}

WellLinked(m) ==
    /\ IsFiniteSet(DOMAIN m.links)
    /\ m.root \in DOMAIN m.links
    /\ DOMAIN m.joints \subseteq JointNames
    /\ JointsOf(m) \subseteq Joints
    /\ \A n \in DOMAIN m.joints : m.joints[n].child # m.root
    /\ \A n, k \in DOMAIN m.joints : m.joints[n].child = m.joints[k].child => n = k
    /\ \A l \in DOMAIN m.links :
          /\ m.links[l].children \in Seq(DOMAIN m.joints)
          /\ IsInjective(m.links[l].children)
          /\ \A k \in DOMAIN m.links[l].children :
                m.joints[m.links[l].children[k]].parent = l
          /\ m.links[l].parent # NoName =>
                /\ m.links[l].parent \in DOMAIN m.joints
                /\ m.joints[m.links[l].parent].child = l
    /\ \A n \in DOMAIN m.joints, l \in DOMAIN m.links :
          /\ m.joints[n].child = l => m.links[l].parent = n
          /\ m.joints[n].parent = l =>
                \E k \in DOMAIN m.links[l].children : m.links[l].children[k] = n

(* No two joints of a list lead to the same link.                          *)
OneParentEach(joints) ==
    \A a, b \in DOMAIN joints : joints[a].child = joints[b].child => a = b

(* Two joints lead to different links, none to the root.                   *)
LEMMA JointsDiffer ==
    ASSUME NEW m, WellLinked(m), NEW j \in JointsOf(m), NEW k \in JointsOf(m)
    PROVE  /\ j.child = k.child => j = k
           /\ j.child # m.root
           /\ j \in Joints /\ j.child \in LinkNames
BY DEF WellLinked, JointsOf, Joints

(* The joints below a link, each of them once.                             *)
LEMMA ChildJointsAre ==
    ASSUME NEW m, WellLinked(m), NEW l \in DOMAIN m.links
    PROVE  LET joints == ChildJoints(m, l)
           IN  /\ joints \in Seq(JointsOf(m))
               /\ \A a \in DOMAIN joints : joints[a].parent = l
               /\ \A j \in JointsOf(m) : j.parent = l => \E a \in DOMAIN joints : joints[a] = j
               /\ OneParentEach(joints)
<1> DEFINE children == m.links[l].children
           names == FoundIn(children, m.joints)
           joints == [k \in DOMAIN names |-> m.joints[names[k]]]
<1>1. ChildJoints(m, l) = joints
  BY DEF ChildJoints
<1>2. /\ children \in Seq(DOMAIN m.joints)
      /\ IsInjective(children)
      /\ \A k \in DOMAIN children : m.joints[children[k]].parent = l
      /\ \A n \in DOMAIN m.joints :
            m.joints[n].parent = l => \E k \in DOMAIN children : children[k] = n
  BY DEF WellLinked
<1> HIDE DEF children
<1>3. /\ Len(children) \in Nat /\ DOMAIN children = 1 .. Len(children)
      /\ \A k \in DOMAIN children : children[k] \in DOMAIN m.joints
  BY <1>2, LenProperties, ElementOfSeq
<1>4. Holds(names, children, Len(children), DOMAIN m.joints)
  BY <1>3, FoundAre
<1> HIDE DEF names
<1>5. /\ names \in Seq(DOMAIN m.joints)
      /\ Len(names) \in Nat /\ DOMAIN names = 1 .. Len(names)
      /\ \A k \in DOMAIN names : names[k] \in DOMAIN m.joints
  BY <1>4, LenProperties, ElementOfSeq DEF Holds
<1>6. IsInjective(names)
  BY <1>2, <1>3, <1>4 DEF Holds, IsInjective
<1>7. joints \in Seq(JointsOf(m))
  <2>1. \A k \in 1 .. Len(names) : m.joints[names[k]] \in JointsOf(m)
    BY <1>5 DEF JointsOf
  <2>2. joints \in [1 .. Len(names) -> JointsOf(m)]
    BY <1>5, <2>1
  <2>3. QED
    BY <1>5, <2>2, SeqDef
<1>8. DOMAIN joints = DOMAIN names /\ \A k \in DOMAIN names : joints[k] = m.joints[names[k]]
  OBVIOUS
<1> HIDE DEF joints
<1>9. ASSUME NEW a \in DOMAIN joints PROVE joints[a].parent = l
  <2>1. PICK i \in 1 .. Len(children) : names[a] = children[i]
    BY <1>4, <1>8 DEF Holds
  <2>2. QED
    BY <1>2, <1>3, <1>8, <2>1
<1>10. ASSUME NEW j \in JointsOf(m), j.parent = l
       PROVE  \E a \in DOMAIN joints : joints[a] = j
  <2>1. PICK n \in DOMAIN m.joints : j = m.joints[n]
    BY DEF JointsOf
  <2>2. PICK k \in 1 .. Len(children) : children[k] = n
    BY <1>2, <1>3, <1>10, <2>1
  <2>3. PICK a \in DOMAIN names : names[a] = n
    BY <1>4, <2>2 DEF Holds
  <2>4. QED
    BY <1>8, <2>1, <2>3
<1>11. OneParentEach(joints)
  <2> SUFFICES ASSUME NEW a \in DOMAIN joints, NEW b \in DOMAIN joints,
                      joints[a].child = joints[b].child
               PROVE  a = b
    BY DEF OneParentEach
  <2>1. names[a] \in DOMAIN m.joints /\ names[b] \in DOMAIN m.joints
    BY <1>5, <1>8
  <2>2. names[a] = names[b]
    BY <1>8, <2>1 DEF WellLinked
  <2>3. QED
    BY <1>6, <1>8, <2>2 DEF IsInjective
<1>12. QED
  BY <1>1, <1>7, <1>9, <1>10, <1>11

(* The links they lead to, if they are in the model, each of them once.    *)
LEMMA ChildLinksAre ==
    ASSUME NEW m, NEW joints \in Seq(JointsOf(m)), OneParentEach(joints)
    PROVE  LET links == ChildLinks(m, joints)
           IN  /\ links \in Seq(DOMAIN m.links)
               /\ IsInjective(links)
               /\ \A x \in DOMAIN m.links :
                     (\E a \in DOMAIN links : links[a] = x)
                       <=> \E b \in DOMAIN joints : joints[b].child = x
<1> DEFINE names == [k \in DOMAIN joints |-> joints[k].child]
           links == FoundIn(names, m.links)
<1>1. ChildLinks(m, joints) = links
  BY DEF ChildLinks
<1>2. Len(joints) \in Nat /\ DOMAIN joints = 1 .. Len(joints)
  BY LenProperties
<1>3. /\ names \in Seq({joints[k].child : k \in DOMAIN joints})
      /\ Len(names) = Len(joints)
      /\ DOMAIN names = DOMAIN joints
      /\ \A k \in DOMAIN joints : names[k] = joints[k].child
  <2>1. names \in [1 .. Len(joints) -> {joints[k].child : k \in DOMAIN joints}]
    BY <1>2
  <2>2. DOMAIN names = 1 .. Len(joints)
    BY <1>2
  <2>3. names \in Seq({joints[k].child : k \in DOMAIN joints})
    BY <1>2, <2>1, SeqDef
  <2>4. Len(names) = Len(joints)
    BY <1>2, <2>2, <2>3, LenProperties
  <2>5. QED
    BY <1>2, <2>2, <2>3, <2>4
<1> HIDE DEF names
<1>4. Holds(links, names, Len(names), DOMAIN m.links)
  BY <1>2, <1>3, FoundAre
<1> HIDE DEF links
<1>5. links \in Seq(DOMAIN m.links)
  BY <1>4 DEF Holds
<1>6. IsInjective(links)
  <2>1. \A i, k \in 1 .. Len(names) : names[i] = names[k] => i = k
    BY <1>2, <1>3 DEF OneParentEach
  <2>2. QED
    BY <1>4, <2>1 DEF Holds
<1>7. ASSUME NEW x \in DOMAIN m.links
      PROVE  (\E a \in DOMAIN links : links[a] = x)
                <=> \E b \in DOMAIN joints : joints[b].child = x
  <2>1. ASSUME NEW a \in DOMAIN links, links[a] = x
        PROVE  \E b \in DOMAIN joints : joints[b].child = x
    <3>1. PICK i \in 1 .. Len(names) : links[a] = names[i]
      BY <1>4, <2>1 DEF Holds
    <3>2. QED
      BY <1>2, <1>3, <2>1, <3>1
  <2>2. ASSUME NEW b \in DOMAIN joints, joints[b].child = x
        PROVE  \E a \in DOMAIN links : links[a] = x
    <3>1. b \in 1 .. Len(names) /\ names[b] = x
      BY <1>2, <1>3, <2>2
    <3>2. QED
      BY <1>4, <3>1 DEF Holds
  <2>3. QED
    BY <2>1, <2>2
<1>8. QED
  BY <1>1, <1>5, <1>6, <1>7

Reached(m, sent) == {m.root} \cup {sent[a].child : a \in DOMAIN sent}

(* Exactly the joints below the links in P are listed, each once and after *)
(* the joint above it.                                                     *)
Listed(m, sent, P) ==
    /\ sent \in Seq(JointsOf(m))
    /\ \A j \in JointsOf(m) : j.parent \in P <=> \E a \in DOMAIN sent : sent[a] = j
    /\ OneParentEach(sent)
    /\ \A a \in DOMAIN sent :
          sent[a].parent = m.root \/ \E b \in 1 .. a - 1 : sent[b].child = sent[a].parent

(* The walk after k turns: P are the links visited, and the links reached  *)
(* and not visited wait on the stack, each once.                           *)
Walking(m, w, P, k) ==
    /\ P \subseteq DOMAIN m.links
    /\ w.stack \in Seq(DOMAIN m.links)
    /\ IsInjective(w.stack)
    /\ \A x \in DOMAIN m.links :
          (\E a \in DOMAIN w.stack : w.stack[a] = x) <=> x \in Reached(m, w.sent) \ P
    /\ P \subseteq Reached(m, w.sent)
    /\ Listed(m, w.sent, P)
    /\ w.stack # <<>> => Cardinality(P) = k

(* The last link of the stack is listed below, all at once: no joint of it *)
(* was there before, and none that was there leads where its joints lead.  *)
LEMMA ListMore ==
    ASSUME NEW m, WellLinked(m), NEW sent, NEW P, Listed(m, sent, P),
           NEW l \in DOMAIN m.links, l \notin P, l \in Reached(m, sent)
    PROVE  LET joints == ChildJoints(m, l)
           IN  /\ Listed(m, sent \o joints, P \cup {l})
               /\ Reached(m, sent \o joints)
                    = Reached(m, sent) \cup {joints[a].child : a \in DOMAIN joints}
               /\ \A a \in DOMAIN joints : joints[a].child \notin Reached(m, sent)
<1> DEFINE joints == ChildJoints(m, l)
           J == JointsOf(m)
           all == sent \o joints
<1>1. /\ joints \in Seq(J)
      /\ \A a \in DOMAIN joints : joints[a].parent = l
      /\ \A j \in J : j.parent = l => \E a \in DOMAIN joints : joints[a] = j
      /\ OneParentEach(joints)
  BY ChildJointsAre
<1>2. /\ sent \in Seq(J)
      /\ \A j \in J : j.parent \in P <=> \E a \in DOMAIN sent : sent[a] = j
      /\ OneParentEach(sent)
      /\ \A a \in DOMAIN sent :
            sent[a].parent = m.root \/ \E b \in 1 .. a - 1 : sent[b].child = sent[a].parent
  BY DEF Listed
<1>3. \A j, k \in J : (j.child = k.child => j = k) /\ j.child # m.root
  BY JointsDiffer
<1> HIDE DEF joints, J
<1>4. /\ all \in Seq(J)
      /\ Len(sent) \in Nat /\ Len(joints) \in Nat
      /\ DOMAIN sent = 1 .. Len(sent) /\ DOMAIN joints = 1 .. Len(joints)
      /\ DOMAIN all = 1 .. Len(sent) + Len(joints)
      /\ \A a \in 1 .. Len(sent) : all[a] = sent[a]
      /\ \A a \in 1 .. Len(joints) : all[Len(sent) + a] = joints[a]
      /\ \A a \in 1 .. Len(sent) + Len(joints) :
            a > Len(sent) => a - Len(sent) \in 1 .. Len(joints) /\ all[a] = joints[a - Len(sent)]
  BY <1>1, <1>2, Joined
<1>5. /\ \A a \in DOMAIN sent : sent[a] \in J /\ sent[a].parent \in P
      /\ \A a \in DOMAIN joints : joints[a] \in J
  BY <1>1, <1>2, <1>4, ElementOfSeq
<1>6. \A a \in DOMAIN joints, b \in DOMAIN sent : joints[a].child # sent[b].child
  <2> SUFFICES ASSUME NEW a \in DOMAIN joints, NEW b \in DOMAIN sent,
                      joints[a].child = sent[b].child
               PROVE  FALSE
    OBVIOUS
  <2>1. joints[a] = sent[b]
    BY <1>3, <1>5
  <2>2. QED
    BY <1>1, <1>5, <2>1
<1> HIDE DEF all
<1>7. \A a \in 1 .. Len(sent) : a \in DOMAIN all
  BY <1>4
<1>8. \A a \in 1 .. Len(joints) : Len(sent) + a \in DOMAIN all
  BY <1>4
<1>9. ASSUME NEW x \in DOMAIN all
      PROVE  \/ x \in 1 .. Len(sent) /\ all[x] = sent[x]
             \/ x > Len(sent) /\ x - Len(sent) \in 1 .. Len(joints) /\ all[x] = joints[x - Len(sent)]
  BY <1>4
<1>10. Reached(m, all) = Reached(m, sent) \cup {joints[a].child : a \in DOMAIN joints}
  <2>1. {all[x].child : x \in DOMAIN all}
          = {sent[x].child : x \in DOMAIN sent} \cup {joints[a].child : a \in DOMAIN joints}
    <3>1. ASSUME NEW x \in DOMAIN all
          PROVE  all[x].child \in {sent[y].child : y \in DOMAIN sent}
                                    \cup {joints[a].child : a \in DOMAIN joints}
      BY <1>4, <1>9
    <3>2. ASSUME NEW a \in DOMAIN sent PROVE sent[a].child \in {all[x].child : x \in DOMAIN all}
      BY <1>4, <1>7
    <3>3. ASSUME NEW a \in DOMAIN joints
          PROVE  joints[a].child \in {all[x].child : x \in DOMAIN all}
      BY <1>4, <1>8
    <3>4. QED
      BY <3>1, <3>2, <3>3
  <2>2. QED
    BY <2>1 DEF Reached
<1>11. ASSUME NEW a \in DOMAIN joints PROVE joints[a].child \notin Reached(m, sent)
  BY <1>3, <1>5, <1>6 DEF Reached
<1>12. ASSUME NEW j \in J
       PROVE  j.parent \in P \cup {l} <=> \E x \in DOMAIN all : all[x] = j
  <2>1. ASSUME j.parent \in P PROVE \E x \in DOMAIN all : all[x] = j
    <3>1. PICK a \in DOMAIN sent : sent[a] = j
      BY <1>2, <2>1
    <3>2. QED
      BY <1>4, <1>7, <3>1
  <2>2. ASSUME j.parent = l PROVE \E x \in DOMAIN all : all[x] = j
    <3>1. PICK a \in DOMAIN joints : joints[a] = j
      BY <1>1, <2>2
    <3>2. QED
      BY <1>4, <1>8, <3>1
  <2>3. ASSUME NEW x \in DOMAIN all, all[x] = j PROVE j.parent \in P \cup {l}
    BY <1>1, <1>4, <1>5, <1>9, <2>3
  <2>4. QED
    BY <2>1, <2>2, <2>3
<1>13. OneParentEach(all)
  <2> SUFFICES ASSUME NEW x \in DOMAIN all, NEW y \in DOMAIN all, all[x].child = all[y].child
               PROVE  x = y
    BY DEF OneParentEach
  <2>1. CASE x \in 1 .. Len(sent) /\ all[x] = sent[x] /\ y \in 1 .. Len(sent) /\ all[y] = sent[y]
    BY <1>2, <1>4, <2>1 DEF OneParentEach
  <2>2. CASE /\ x > Len(sent) /\ x - Len(sent) \in 1 .. Len(joints)
             /\ all[x] = joints[x - Len(sent)]
             /\ y > Len(sent) /\ y - Len(sent) \in 1 .. Len(joints)
             /\ all[y] = joints[y - Len(sent)]
    <3>1. x - Len(sent) = y - Len(sent)
      BY <1>1, <1>4, <2>2 DEF OneParentEach
    <3>2. x \in Nat /\ y \in Nat
      BY <1>4
    <3>3. QED
      BY <1>4, <3>1, <3>2
  <2>3. QED
    BY <1>4, <1>6, <1>9, <2>1, <2>2
<1>14. ASSUME NEW x \in DOMAIN all
       PROVE  all[x].parent = m.root \/ \E b \in 1 .. x - 1 : all[b].child = all[x].parent
  <2>1. CASE x \in 1 .. Len(sent) /\ all[x] = sent[x]
    <3>1. CASE sent[x].parent = m.root
      BY <2>1, <3>1
    <3>2. CASE \E b \in 1 .. x - 1 : sent[b].child = sent[x].parent
      <4>1. PICK b \in 1 .. x - 1 : sent[b].child = sent[x].parent
        BY <3>2
      <4>2. b \in 1 .. Len(sent)
        BY <1>4, <2>1
      <4>3. QED
        BY <1>4, <2>1, <4>1, <4>2
    <3>3. QED
      BY <1>2, <1>4, <2>1, <3>1, <3>2
  <2>2. CASE /\ x > Len(sent) /\ x - Len(sent) \in 1 .. Len(joints)
             /\ all[x] = joints[x - Len(sent)]
    <3>1. all[x].parent = l
      BY <1>1, <1>4, <2>2
    <3>2. CASE l = m.root
      BY <3>1, <3>2
    <3>3. CASE l # m.root
      <4>1. PICK b \in DOMAIN sent : sent[b].child = l
        BY <3>3 DEF Reached
      <4>2. b \in 1 .. x - 1 /\ all[b] = sent[b]
        BY <1>4, <2>2
      <4>3. QED
        BY <3>1, <4>1, <4>2
    <3>4. QED
      BY <3>2, <3>3
  <2>3. QED
    BY <1>9, <2>1, <2>2
<1>15. Listed(m, all, P \cup {l})
  BY <1>4, <1>12, <1>13, <1>14 DEF Listed, J
<1>16. QED
  BY <1>10, <1>11, <1>15 DEF joints, all

(* The last element of a sequence, and those before it.                    *)
LEMMA EndOf ==
    ASSUME NEW T, NEW s \in Seq(T), s # <<>>
    PROVE  /\ Len(s) \in Nat /\ Len(s) > 0 /\ DOMAIN s = 1 .. Len(s)
           /\ Last(s) = s[Len(s)] /\ Last(s) \in T
           /\ Front(s) \in Seq(T)
           /\ Len(Front(s)) = Len(s) - 1
           /\ DOMAIN Front(s) = 1 .. Len(s) - 1
           /\ \A a \in 1 .. Len(s) - 1 : Front(s)[a] = s[a]
<1>1. Len(s) \in Nat /\ Len(s) > 0 /\ DOMAIN s = 1 .. Len(s)
  BY EmptySeq, LenProperties
<1>2. Len(s) \in 1 .. Len(s)
  BY <1>1
<1>3. Last(s) = s[Len(s)] /\ Last(s) \in T
  BY <1>2, ElementOfSeq DEF Last
<1>4. Front(s) = SubSeq(s, 1, Len(s) - 1)
  BY DEF Front
<1>5. /\ Front(s) \in Seq(T)
      /\ Len(Front(s)) = Len(s) - 1
      /\ DOMAIN Front(s) = 1 .. Len(s) - 1
      /\ \A a \in 1 .. Len(s) - 1 : Front(s)[a] = s[a]
  BY <1>1, <1>4
<1>6. QED
  BY <1>1, <1>3, <1>5

(* A turn of the loop.                                                     *)
LEMMA VisitKeeps ==
    ASSUME NEW m, WellLinked(m), NEW w, NEW P, NEW k \in Nat,
           Walking(m, w, P, k), w.stack # <<>>
    PROVE  \E Q : Walking(m, Visit(m, w), Q, k + 1)
<1> DEFINE L == DOMAIN m.links
           stack == w.stack
           n == Len(stack)
           l == Last(stack)
           joints == ChildJoints(m, l)
           below == ChildLinks(m, joints)
           rest == Front(stack)
           v == Visit(m, w)
           C == {joints[a].child : a \in DOMAIN joints}
           R == Reached(m, w.sent)
<1>1. /\ P \subseteq L /\ stack \in Seq(L) /\ IsInjective(stack)
      /\ \A x \in L : (\E a \in DOMAIN stack : stack[a] = x) <=> x \in R \ P
      /\ P \subseteq R /\ Listed(m, w.sent, P) /\ Cardinality(P) = k
      /\ stack # <<>>
  BY DEF Walking
<1>2. v.stack = rest \o below /\ v.sent = w.sent \o joints
  BY DEF Visit
<1> HIDE DEF v, below
<1>3. /\ n \in Nat /\ n > 0 /\ DOMAIN stack = 1 .. n
      /\ l = stack[n] /\ l \in L
      /\ rest \in Seq(L) /\ Len(rest) = n - 1 /\ DOMAIN rest = 1 .. n - 1
      /\ \A a \in 1 .. n - 1 : rest[a] = stack[a]
  BY <1>1, EndOf
<1>4. l \in R \ P
  <2>1. n \in DOMAIN stack
    BY <1>3
  <2>2. QED
    BY <1>1, <1>3, <2>1
<1> HIDE DEF n, l, rest, stack
<1>5. /\ Listed(m, v.sent, P \cup {l})
      /\ Reached(m, v.sent) = R \cup C
      /\ C \cap R = {}
  <2>1. /\ Listed(m, w.sent \o joints, P \cup {l})
        /\ Reached(m, w.sent \o joints) = R \cup C
        /\ \A a \in DOMAIN joints : joints[a].child \notin R
    <3>1. /\ Listed(m, w.sent, P) /\ l \in DOMAIN m.links
          /\ l \notin P /\ l \in Reached(m, w.sent)
      BY <1>1, <1>3, <1>4
    <3>2. QED
      BY <3>1, ListMore, Zenon
  <2> HIDE DEF joints, R
  <2>2. QED
    BY <1>2, <2>1
<1>6. /\ below \in Seq(L) /\ IsInjective(below)
      /\ \A x \in L : (\E a \in DOMAIN below : below[a] = x) <=> x \in C
  <2>1. joints \in Seq(JointsOf(m)) /\ OneParentEach(joints)
    BY <1>3, ChildJointsAre
  <2> HIDE DEF joints
  <2>2. QED
    BY <2>1, ChildLinksAre DEF below
<1> HIDE DEF joints, C, R
<1>7. /\ v.stack \in Seq(L)
      /\ DOMAIN below = 1 .. Len(below) /\ Len(below) \in Nat
      /\ DOMAIN v.stack = 1 .. (n - 1) + Len(below)
      /\ \A a \in 1 .. n - 1 : v.stack[a] = stack[a]
      /\ \A a \in 1 .. Len(below) : v.stack[(n - 1) + a] = below[a]
      /\ \A a \in DOMAIN v.stack :
            \/ a \in 1 .. n - 1 /\ v.stack[a] = stack[a]
            \/ a > n - 1 /\ a - (n - 1) \in 1 .. Len(below)
                 /\ v.stack[a] = below[a - (n - 1)]
  <2>1. /\ v.stack \in Seq(L)
        /\ Len(rest) = n - 1 /\ n - 1 \in Nat /\ Len(below) \in Nat
        /\ DOMAIN below = 1 .. Len(below)
        /\ DOMAIN v.stack = 1 .. Len(rest) + Len(below)
        /\ \A a \in 1 .. Len(rest) : v.stack[a] = rest[a]
        /\ \A a \in 1 .. Len(below) : v.stack[Len(rest) + a] = below[a]
        /\ \A a \in 1 .. Len(rest) + Len(below) :
              a > Len(rest) => a - Len(rest) \in 1 .. Len(below)
                                 /\ v.stack[a] = below[a - Len(rest)]
    <3>1. rest \in Seq(L) /\ below \in Seq(L) /\ Len(rest) = n - 1 /\ n \in Nat /\ n > 0
      BY <1>3, <1>6
    <3>2. v.stack = rest \o below
      BY <1>2
    <3> HIDE DEF L
    <3>3. LET u == rest \o below
          IN  /\ u \in Seq(L)
              /\ Len(below) \in Nat /\ DOMAIN below = 1 .. Len(below)
              /\ DOMAIN u = 1 .. Len(rest) + Len(below)
              /\ \A a \in 1 .. Len(rest) : u[a] = rest[a]
              /\ \A a \in 1 .. Len(below) : u[Len(rest) + a] = below[a]
              /\ \A a \in 1 .. Len(rest) + Len(below) :
                    a > Len(rest) => a - Len(rest) \in 1 .. Len(below)
                                       /\ u[a] = below[a - Len(rest)]
      BY <3>1, Joined
    <3>4. n - 1 \in Nat
      BY <3>1
    <3>5. QED
      BY <3>1, <3>2, <3>3, <3>4
  <2>2. \A a \in 1 .. n - 1 : v.stack[a] = stack[a]
    BY <1>3, <2>1
  <2>3. ASSUME NEW a \in DOMAIN v.stack
        PROVE  \/ a \in 1 .. n - 1 /\ v.stack[a] = stack[a]
               \/ a > n - 1 /\ a - (n - 1) \in 1 .. Len(below)
                    /\ v.stack[a] = below[a - (n - 1)]
    <3>1. CASE a > n - 1
      BY <2>1, <3>1
    <3>2. CASE ~(a > n - 1)
      <4>1. a \in 1 .. n - 1
        BY <2>1, <3>2
      <4>2. QED
        BY <2>2, <4>1
    <3>3. QED
      BY <3>1, <3>2
  <2>4. QED
    BY <2>1, <2>2, <2>3
<1>8. \A a \in DOMAIN stack, b \in DOMAIN below : stack[a] # below[b]
  <2> SUFFICES ASSUME NEW a \in DOMAIN stack, NEW b \in DOMAIN below, stack[a] = below[b]
               PROVE  FALSE
    OBVIOUS
  <2>1. stack[a] \in L
    BY <1>1, <1>3, ElementOfSeq DEF n
  <2>2. stack[a] \in R
    BY <1>1, <2>1
  <2>3. stack[a] \in C
    BY <1>6, <2>1
  <2>4. QED
    BY <1>5, <2>2, <2>3
<1>9. IsInjective(v.stack)
  <2> SUFFICES ASSUME NEW a \in DOMAIN v.stack, NEW b \in DOMAIN v.stack,
                      v.stack[a] = v.stack[b]
               PROVE  a = b
    BY DEF IsInjective
  <2>1. CASE a \in 1 .. n - 1 /\ b \in 1 .. n - 1
    <3>1. a \in DOMAIN stack /\ b \in DOMAIN stack /\ stack[a] = stack[b]
      BY <1>3, <1>7, <2>1
    <3>2. QED
      BY <1>1, <3>1 DEF IsInjective
  <2>2. CASE /\ a > n - 1 /\ a - (n - 1) \in 1 .. Len(below)
             /\ v.stack[a] = below[a - (n - 1)]
             /\ b > n - 1 /\ b - (n - 1) \in 1 .. Len(below)
             /\ v.stack[b] = below[b - (n - 1)]
    <3>1. a - (n - 1) = b - (n - 1)
      <4>1. a - (n - 1) \in DOMAIN below /\ b - (n - 1) \in DOMAIN below
        BY <1>7, <2>2
      <4>2. below[a - (n - 1)] = below[b - (n - 1)]
        BY <2>2
      <4>3. QED
        BY <1>6, <4>1, <4>2, Zenon DEF IsInjective
    <3>2. a \in Nat /\ b \in Nat
      BY <1>3, <1>7
    <3>3. QED
      BY <1>3, <3>1, <3>2
  <2>3. ASSUME NEW x \in 1 .. n - 1 PROVE x \in DOMAIN stack
    BY <1>3
  <2>4. QED
    BY <1>7, <1>8, <2>1, <2>2, <2>3
<1>10. ASSUME NEW x \in L
       PROVE  (\E a \in DOMAIN v.stack : v.stack[a] = x)
                 <=> x \in Reached(m, v.sent) \ (P \cup {l})
  <2>1. ASSUME NEW a \in DOMAIN v.stack, v.stack[a] = x
        PROVE  x \in Reached(m, v.sent) \ (P \cup {l})
    <3>1. CASE a \in 1 .. n - 1 /\ v.stack[a] = stack[a]
      <4>1. a \in DOMAIN stack /\ n \in DOMAIN stack /\ a # n
        BY <1>3, <3>1
      <4>2. x # l
        BY <1>1, <1>3, <2>1, <3>1, <4>1 DEF IsInjective
      <4>3. x \in R \ P
        BY <1>1, <2>1, <3>1, <4>1
      <4>4. QED
        BY <1>5, <4>2, <4>3
    <3>2. CASE a - (n - 1) \in 1 .. Len(below) /\ v.stack[a] = below[a - (n - 1)]
      <4>1. x \in C
        BY <1>6, <1>7, <2>1, <3>2
      <4>2. x \notin R
        BY <1>5, <4>1
      <4>3. QED
        BY <1>1, <1>4, <1>5, <4>1, <4>2
    <3>3. QED
      BY <1>7, <3>1, <3>2
  <2>2. ASSUME x \in Reached(m, v.sent) \ (P \cup {l})
        PROVE  \E a \in DOMAIN v.stack : v.stack[a] = x
    <3>1. CASE x \in R
      <4>1. PICK a \in DOMAIN stack : stack[a] = x
        BY <1>1, <2>2, <3>1
      <4>2. a # n
        BY <1>3, <2>2, <4>1
      <4>3. a \in 1 .. n - 1
        BY <1>3, <4>2
      <4>4. a \in DOMAIN v.stack /\ v.stack[a] = x
        BY <1>3, <1>7, <4>1, <4>3
      <4>5. QED
        BY <4>4
    <3>2. CASE x \in C
      <4>1. PICK a \in DOMAIN below : below[a] = x
        BY <1>6, <3>2
      <4>2. (n - 1) + a \in DOMAIN v.stack /\ v.stack[(n - 1) + a] = x
        BY <1>3, <1>7, <4>1
      <4>3. QED
        BY <4>2
    <3>3. QED
      BY <1>5, <2>2, <3>1, <3>2
  <2>3. QED
    BY <2>1, <2>2
<1>11. Cardinality(P \cup {l}) = k + 1
  <2>1. IsFiniteSet(L)
    BY DEF WellLinked
  <2>2. IsFiniteSet(P)
    BY <1>1, <2>1, FS_Subset
  <2>3. QED
    BY <1>1, <1>4, <2>2, FS_AddElement
<1>12. Walking(m, v, P \cup {l}, k + 1)
  BY <1>1, <1>3, <1>4, <1>5, <1>7, <1>9, <1>10, <1>11 DEF Walking
<1>13. QED
  BY <1>12 DEF v

WalkStep(m, w) == IF w.stack = <<>> THEN w ELSE Visit(m, w)

WalkStart(m) == [stack |-> <<m.root>>, sent |-> <<>>]

IsWalk(m, n, f) == f = [k \in 0 .. n |-> IF k = 0 THEN WalkStart(m) ELSE WalkStep(m, f[k - 1])]

(* Walk is defined by recursion, for every number of turns.                *)
LEMMA WalkExists ==
    ASSUME NEW m
    PROVE  \A n \in Nat : \E f : IsWalk(m, n, f)
<1> DEFINE S == {n \in Nat : \E f : IsWalk(m, n, f)}
<1>1. 0 \in S
  <2> DEFINE f == [k \in 0 .. 0 |-> WalkStart(m)]
  <2>1. f = [k \in 0 .. 0 |-> IF k = 0 THEN WalkStart(m) ELSE WalkStep(m, f[k - 1])]
    OBVIOUS
  <2>2. QED
    BY <2>1 DEF IsWalk
<1>2. ASSUME NEW n \in Nat, n \in S PROVE n + 1 \in S
  <2>1. PICK f : IsWalk(m, n, f)
    BY <1>2
  <2>2. f = [k \in 0 .. n |-> IF k = 0 THEN WalkStart(m) ELSE WalkStep(m, f[k - 1])]
    BY <2>1 DEF IsWalk
  <2> DEFINE last == WalkStep(m, f[n])
             h == [k \in 0 .. n + 1 |-> IF k = n + 1 THEN last ELSE f[k]]
  <2>3. /\ h[n + 1] = last /\ \A k \in 0 .. n : h[k] = f[k]
        /\ h = [k \in 0 .. n + 1 |-> h[k]]
    OBVIOUS
  <2> HIDE DEF h
  <2>4. ASSUME NEW k \in 0 .. n + 1
        PROVE  h[k] = IF k = 0 THEN WalkStart(m) ELSE WalkStep(m, h[k - 1])
    <3>1. CASE k = n + 1
      <4>1. k # 0 /\ k - 1 = n /\ n \in 0 .. n
        BY <3>1
      <4>2. h[n] = f[n]
        BY <2>3, <4>1
      <4>3. QED
        BY <2>3, <3>1, <4>1, <4>2
    <3>2. CASE k # n + 1
      <4>1. k \in 0 .. n /\ (k # 0 => k - 1 \in 0 .. n)
        BY <3>2
      <4>2. h[k] = f[k] /\ (k # 0 => h[k - 1] = f[k - 1])
        BY <2>3, <4>1
      <4>3. QED
        BY <2>2, <4>1, <4>2
    <3>3. QED
      BY <3>1, <3>2
  <2>5. h = [k \in 0 .. n + 1 |-> IF k = 0 THEN WalkStart(m) ELSE WalkStep(m, h[k - 1])]
    BY <2>3, <2>4
  <2>6. IsWalk(m, n + 1, h)
    BY <2>5 DEF IsWalk
  <2>7. QED
    BY <2>6
<1> HIDE DEF S
<1>3. Nat \subseteq S
  BY <1>1, <1>2, SetInduction
<1>4. QED
  BY <1>3 DEF S

(* A sequence of one element.                                              *)
LEMMA SingleOf ==
    ASSUME NEW T, NEW x \in T
    PROVE  <<x>> \in Seq(T) /\ Len(<<x>>) = 1 /\ DOMAIN <<x>> = 1 .. 1 /\ <<x>>[1] = x
OBVIOUS

(* Before the loop only the root is reached, and waits.                    *)
LEMMA StartWalks ==
    ASSUME NEW m, WellLinked(m)
    PROVE  Walking(m, WalkStart(m), {}, 0)
<1> DEFINE s == <<m.root>>
<1>1. WalkStart(m).stack = s /\ WalkStart(m).sent = <<>>
  BY DEF WalkStart
<1>2. m.root \in DOMAIN m.links
  BY DEF WellLinked
<1>3. s \in Seq(DOMAIN m.links) /\ DOMAIN s = 1 .. 1 /\ s[1] = m.root
  BY <1>2, SingleOf
<1>4. DOMAIN <<>> = {} /\ <<>> \in Seq(JointsOf(m))
  OBVIOUS
<1> HIDE DEF s
<1>5. Reached(m, <<>>) = {m.root}
  BY <1>4 DEF Reached
<1>6. Listed(m, <<>>, {})
  BY <1>4 DEF Listed, OneParentEach
<1>7. IsInjective(s)
  BY <1>3 DEF IsInjective
<1>8. \A x : (\E a \in DOMAIN s : s[a] = x) <=> x = m.root
  BY <1>3
<1>9. Cardinality({}) = 0
  BY FS_EmptySet
<1>10. QED
  BY <1>1, <1>3, <1>5, <1>6, <1>7, <1>8, <1>9 DEF Walking

(* The walk is over after as many turns as there are links; it has reached *)
(* and visited the same links, and has listed the joints below them.       *)
LEMMA WalkCompletes ==
    ASSUME NEW m, WellLinked(m)
    PROVE  /\ WalkEnds(m)
           /\ LET sent == Walk(m, Visits(m)).sent
              IN  Listed(m, sent, Reached(m, sent) \cap DOMAIN m.links)
<1> DEFINE n == Visits(m)
           g == CHOOSE f : f = [k \in 0 .. n |->
                                  IF k = 0 THEN [stack |-> <<m.root>>, sent |-> <<>>]
                                  ELSE IF f[k - 1].stack = <<>> THEN f[k - 1]
                                  ELSE Visit(m, f[k - 1])]
           L == DOMAIN m.links
<1>1. Walk(m, n) = g[n]
  BY DEF Walk
<1>2. IsFiniteSet(L) /\ n = Cardinality(L) /\ n \in Nat
  BY FS_CardinalityType DEF WellLinked, Visits
<1> HIDE DEF n
<1>3. IsWalk(m, n, g)
  <2>1. PICK f : IsWalk(m, n, f)
    BY <1>2, WalkExists
  <2>2. QED
    BY <2>1 DEF IsWalk, WalkStart, WalkStep
<1> HIDE DEF g
<1>4. g[0] = WalkStart(m) /\ \A k \in 1 .. n : g[k] = WalkStep(m, g[k - 1])
  <2>1. \A k \in 0 .. n : g[k] = IF k = 0 THEN WalkStart(m) ELSE WalkStep(m, g[k - 1])
    BY <1>3 DEF IsWalk
  <2>2. 0 \in 0 .. n /\ \A k \in 1 .. n : k \in 0 .. n /\ k # 0
    BY <1>2
  <2>3. QED
    BY <2>1, <2>2
<1> DEFINE S == {k \in Nat : k <= n => \E P : Walking(m, g[k], P, k)}
<1>5. 0 \in S
  BY <1>4, StartWalks
<1>6. ASSUME NEW k \in Nat, k \in S PROVE k + 1 \in S
  <2> SUFFICES ASSUME k + 1 <= n PROVE \E Q : Walking(m, g[k + 1], Q, k + 1)
    OBVIOUS
  <2>1. k <= n /\ k + 1 \in 1 .. n /\ (k + 1) - 1 = k
    BY <1>2
  <2>2. PICK P : Walking(m, g[k], P, k)
    BY <1>6, <2>1
  <2>3. g[k + 1] = WalkStep(m, g[k])
    BY <1>4, <2>1
  <2>4. CASE g[k].stack = <<>>
    <3>1. g[k + 1] = g[k]
      BY <2>3, <2>4 DEF WalkStep
    <3>2. Walking(m, g[k], P, k + 1)
      BY <2>2, <2>4 DEF Walking
    <3>3. QED
      BY <3>1, <3>2
  <2>5. CASE g[k].stack # <<>>
    BY <2>2, <2>3, <2>5, VisitKeeps DEF WalkStep
  <2>6. QED
    BY <2>4, <2>5
<1>7. Nat \subseteq S
  <2> HIDE DEF S
  <2>1. QED
    BY <1>5, <1>6, SetInduction
<1> DEFINE w == g[n]
<1>8. PICK P : Walking(m, w, P, n)
  BY <1>2, <1>7
<1> HIDE DEF w
<1>9. w.stack = <<>>
  <2> SUFFICES ASSUME w.stack # <<>> PROVE FALSE
    OBVIOUS
  <2>1. P \subseteq L /\ Cardinality(P) = n
    BY <1>8 DEF Walking
  <2>2. P = L
    BY <1>2, <2>1, FS_Subset
  <2>3. w.stack \in Seq(L)
    BY <1>8 DEF Walking
  <2>4. Last(w.stack) \in L /\ Len(w.stack) \in DOMAIN w.stack /\ Last(w.stack) = w.stack[Len(w.stack)]
    <3>1. /\ Len(w.stack) \in Nat /\ Len(w.stack) > 0 /\ DOMAIN w.stack = 1 .. Len(w.stack)
          /\ Last(w.stack) = w.stack[Len(w.stack)] /\ Last(w.stack) \in L
      BY <2>3, EndOf
    <3>2. QED
      BY <3>1
  <2>5. Last(w.stack) \notin P
    BY <1>8, <2>4 DEF Walking
  <2>6. QED
    BY <2>2, <2>4, <2>5
<1>10. P = Reached(m, w.sent) \cap L /\ Listed(m, w.sent, P)
  <2>1. \A x \in L : x \notin Reached(m, w.sent) \ P
    BY <1>8, <1>9 DEF Walking
  <2>2. QED
    BY <1>8, <2>1 DEF Walking
<1>11. QED
  BY <1>1, <1>9, <1>10 DEF WalkEnds, n, w

-----------------------------------------------------------------------------
(***************************************************************************)
(* The chain of get_joints_in_chain.                                       *)
(***************************************************************************)
Chains(m) == [link : DOMAIN m.links, joints : Seq(JointsOf(m)), ended : BOOLEAN]

(* A path of the model from where the chain has come to down to a link.    *)
IsPathTo(m, joints, l) ==
    /\ \A a \in 1 .. Len(joints) - 1 :
          joints[a].child = joints[a + 1].parent /\ joints[a].child \in DOMAIN m.links
    /\ joints # <<>> => joints[Len(joints)].child = l

Chaining(m, l, c) ==
    /\ c \in Chains(m)
    /\ IsPathTo(m, c.joints, l)
    /\ c.joints = <<>> => c.link = l
    /\ c.joints # <<>> => \/ c.joints[1].parent = c.link
                          \/ c.ended /\ c.joints[1].parent \notin DOMAIN m.links

(* A joint put before a path.                                              *)
LEMMA LongerPath ==
    ASSUME NEW m, NEW l, NEW joints \in Seq(JointsOf(m)), IsPathTo(m, joints, l),
           NEW j \in JointsOf(m), j.child \in DOMAIN m.links,
           joints = <<>> => j.child = l,
           joints # <<>> => j.child = joints[1].parent
    PROVE  LET longer == <<j>> \o joints
           IN  /\ longer \in Seq(JointsOf(m)) /\ longer # <<>> /\ longer[1] = j
               /\ IsPathTo(m, longer, l)
<1> DEFINE J == JointsOf(m)
           s == <<j>>
           t == s \o joints
<1>1. s \in Seq(J) /\ Len(s) = 1 /\ s[1] = j
  BY SingleOf
<1> HIDE DEF J, s
<1>2. /\ t \in Seq(J) /\ Len(joints) \in Nat /\ DOMAIN joints = 1 .. Len(joints)
      /\ Len(t) = 1 + Len(joints) /\ DOMAIN t = 1 .. 1 + Len(joints)
      /\ t[1] = j
      /\ \A a \in 1 .. Len(joints) : t[1 + a] = joints[a]
  <2>1. joints \in Seq(J)
    BY DEF J
  <2>2. /\ t \in Seq(J) /\ Len(joints) \in Nat /\ DOMAIN joints = 1 .. Len(joints)
        /\ Len(t) = Len(s) + Len(joints) /\ DOMAIN t = 1 .. Len(s) + Len(joints)
        /\ \A a \in 1 .. Len(s) : t[a] = s[a]
        /\ \A a \in 1 .. Len(joints) : t[Len(s) + a] = joints[a]
    <3>1. s \in Seq(J)
      BY <1>1
    <3>2. QED
      BY <2>1, <3>1, Joined
  <2> HIDE DEF t
  <2>3. QED
    BY <1>1, <2>2
<1>3. joints # <<>> => Len(joints) > 0
  BY EmptySeq
<1> HIDE DEF t
<1>4. t # <<>>
  BY <1>2
<1>5. ASSUME NEW a \in 1 .. Len(t) - 1
      PROVE  t[a].child = t[a + 1].parent /\ t[a].child \in DOMAIN m.links
  <2>1. CASE a = 1
    <3>1. joints # <<>> /\ 1 \in 1 .. Len(joints)
      BY <1>2, <2>1
    <3>2. t[1 + 1] = joints[1]
      BY <1>2, <3>1
    <3>3. QED
      BY <1>2, <2>1, <3>1, <3>2
  <2>2. CASE a # 1
    <3>1. a - 1 \in 1 .. Len(joints) - 1 /\ a - 1 \in 1 .. Len(joints) /\ a \in 1 .. Len(joints)
      BY <1>2, <2>2
    <3>2. (a - 1) + 1 = a /\ 1 + (a - 1) = a /\ 1 + a = a + 1
      BY <1>2
    <3>3. t[a] = joints[a - 1] /\ t[a + 1] = joints[a]
      BY <1>2, <3>1, <3>2
    <3>4. joints[a - 1].child = joints[a].parent /\ joints[a - 1].child \in DOMAIN m.links
      BY <3>1, <3>2 DEF IsPathTo
    <3>5. QED
      BY <3>3, <3>4
  <2>3. QED
    BY <2>1, <2>2
<1>6. t[Len(t)].child = l
  <2>1. CASE joints = <<>>
    BY <1>2, <2>1
  <2>2. CASE joints # <<>>
    <3>1. Len(joints) \in 1 .. Len(joints)
      BY <1>2, <1>3, <2>2
    <3>2. t[Len(t)] = joints[Len(joints)]
      BY <1>2, <3>1
    <3>3. QED
      BY <2>2, <3>2 DEF IsPathTo
  <2>3. QED
    BY <2>1, <2>2
<1>7. IsPathTo(m, t, l)
  BY <1>5, <1>6 DEF IsPathTo
<1>8. QED
  BY <1>2, <1>4, <1>7 DEF J, s, t

(* A link and the joint above it.                                          *)
LEMMA AboveIt ==
    ASSUME NEW m, WellLinked(m), NEW l \in DOMAIN m.links, m.links[l].parent # NoName
    PROVE  /\ m.links[l].parent \in DOMAIN m.joints
           /\ m.joints[m.links[l].parent] \in JointsOf(m)
           /\ m.joints[m.links[l].parent].child = l
           /\ l # m.root
BY DEF WellLinked, JointsOf

(* One turn of the climb lengthens the path by the joint above.            *)
LEMMA ChainStepKeeps ==
    ASSUME NEW m, WellLinked(m), NEW l, NEW c, Chaining(m, l, c)
    PROVE  Chaining(m, l, ChainStep(m, c))
<1> DEFINE link == m.links[c.link]
           joint == m.joints[link.parent]
           d == ChainStep(m, c)
           longer == <<joint>> \o c.joints
           J == JointsOf(m)
           L == DOMAIN m.links
<1>1. c \in Chains(m) /\ c.link \in L /\ c.joints \in Seq(J) /\ c.ended \in BOOLEAN
  BY DEF Chaining, Chains
<1>2. CASE c.ended \/ IsRoot(link) \/ link.parent \notin DOMAIN m.joints
  <2>1. d = [c EXCEPT !.ended = TRUE]
    BY <1>2 DEF ChainStep
  <2>2. d \in Chains(m) /\ d.joints = c.joints /\ d.link = c.link /\ d.ended
    BY <1>1, <2>1 DEF Chains
  <2> HIDE DEF d
  <2>3. QED
    BY <2>2 DEF Chaining, d
<1>3. CASE ~(c.ended \/ IsRoot(link) \/ link.parent \notin DOMAIN m.joints)
  <2>1. joint \in J /\ joint.child = c.link
    BY <1>1, <1>3, AboveIt DEF IsRoot
  <2>2. c.joints # <<>> => c.joints[1].parent = c.link
    BY <1>3 DEF Chaining
  <2>3. /\ longer \in Seq(J) /\ longer # <<>> /\ longer[1] = joint
        /\ IsPathTo(m, longer, l)
    <3>1. /\ IsPathTo(m, c.joints, l)
          /\ c.joints = <<>> => joint.child = l
          /\ c.joints # <<>> => joint.child = c.joints[1].parent
          /\ joint.child \in DOMAIN m.links
      BY <1>1, <2>1, <2>2 DEF Chaining
    <3>2. joint \in JointsOf(m) /\ c.joints \in Seq(JointsOf(m))
      BY <1>1, <2>1
    <3> HIDE DEF joint
    <3>3. QED
      BY <3>1, <3>2, LongerPath DEF joint
  <2>4. CASE joint.parent \notin L
    <3>1. d = [c EXCEPT !.ended = TRUE, !.joints = longer]
      BY <1>3, <2>4 DEF ChainStep
    <3> HIDE DEF longer, d
    <3>2. d \in Chains(m) /\ d.joints = longer /\ d.link = c.link /\ d.ended
      BY <1>1, <2>3, <3>1 DEF Chains
    <3>3. QED
      BY <2>3, <2>4, <3>2 DEF Chaining, d
  <2>5. CASE joint.parent \in L
    <3>1. d = [c EXCEPT !.link = joint.parent, !.joints = longer]
      BY <1>3, <2>5 DEF ChainStep
    <3> HIDE DEF longer, d
    <3>2. d \in Chains(m) /\ d.joints = longer /\ d.link = joint.parent
      BY <1>1, <2>3, <2>5, <3>1 DEF Chains
    <3>3. QED
      BY <2>3, <2>5, <3>2 DEF Chaining, d
  <2>6. QED
    BY <2>4, <2>5
<1>4. QED
  BY <1>2, <1>3

ChainStart(l) == [link |-> l, joints |-> <<>>, ended |-> FALSE]

IsChain(m, l, n, f) ==
    f = [k \in 0 .. n |-> IF k = 0 THEN ChainStart(l) ELSE ChainStep(m, f[k - 1])]

(* ChainFrom is defined by recursion, for every number of turns.           *)
LEMMA ChainExists ==
    ASSUME NEW m, NEW l
    PROVE  \A n \in Nat : \E f : IsChain(m, l, n, f)
<1> DEFINE S == {n \in Nat : \E f : IsChain(m, l, n, f)}
<1>1. 0 \in S
  <2> DEFINE f == [k \in 0 .. 0 |-> ChainStart(l)]
  <2>1. f = [k \in 0 .. 0 |-> IF k = 0 THEN ChainStart(l) ELSE ChainStep(m, f[k - 1])]
    OBVIOUS
  <2>2. QED
    BY <2>1 DEF IsChain
<1>2. ASSUME NEW n \in Nat, n \in S PROVE n + 1 \in S
  <2>1. PICK f : IsChain(m, l, n, f)
    BY <1>2
  <2>2. f = [k \in 0 .. n |-> IF k = 0 THEN ChainStart(l) ELSE ChainStep(m, f[k - 1])]
    BY <2>1 DEF IsChain
  <2> DEFINE last == ChainStep(m, f[n])
             h == [k \in 0 .. n + 1 |-> IF k = n + 1 THEN last ELSE f[k]]
  <2>3. /\ h[n + 1] = last /\ \A k \in 0 .. n : h[k] = f[k]
        /\ h = [k \in 0 .. n + 1 |-> h[k]]
    OBVIOUS
  <2> HIDE DEF h
  <2>4. ASSUME NEW k \in 0 .. n + 1
        PROVE  h[k] = IF k = 0 THEN ChainStart(l) ELSE ChainStep(m, h[k - 1])
    <3>1. CASE k = n + 1
      <4>1. k # 0 /\ k - 1 = n /\ n \in 0 .. n
        BY <3>1
      <4>2. h[n] = f[n]
        BY <2>3, <4>1
      <4>3. QED
        BY <2>3, <3>1, <4>1, <4>2
    <3>2. CASE k # n + 1
      <4>1. k \in 0 .. n /\ (k # 0 => k - 1 \in 0 .. n)
        BY <3>2
      <4>2. h[k] = f[k] /\ (k # 0 => h[k - 1] = f[k - 1])
        BY <2>3, <4>1
      <4>3. QED
        BY <2>2, <4>1, <4>2
    <3>3. QED
      BY <3>1, <3>2
  <2>5. h = [k \in 0 .. n + 1 |-> IF k = 0 THEN ChainStart(l) ELSE ChainStep(m, h[k - 1])]
    BY <2>3, <2>4
  <2>6. IsChain(m, l, n + 1, h)
    BY <2>5 DEF IsChain
  <2>7. QED
    BY <2>6
<1> HIDE DEF S
<1>3. Nat \subseteq S
  BY <1>1, <1>2, SetInduction
<1>4. QED
  BY <1>3 DEF S

(* The first state of a chain, and the others.                             *)
LEMMA ChainRuns ==
    ASSUME NEW m, NEW l, NEW n \in Nat
    PROVE  \E f : /\ ChainFrom(m, l, n) = f[n]
                  /\ f[0] = ChainStart(l)
                  /\ \A k \in 1 .. n : f[k] = ChainStep(m, f[k - 1])
<1> DEFINE g == CHOOSE f : f = [k \in 0 .. n |->
                                  IF k = 0 THEN [link |-> l, joints |-> <<>>, ended |-> FALSE]
                                  ELSE ChainStep(m, f[k - 1])]
<1>1. ChainFrom(m, l, n) = g[n]
  BY DEF ChainFrom
<1>2. IsChain(m, l, n, g)
  <2>1. PICK f : IsChain(m, l, n, f)
    BY ChainExists
  <2>2. QED
    BY <2>1 DEF IsChain, ChainStart
<1> HIDE DEF g
<1>3. \A k \in 0 .. n : g[k] = IF k = 0 THEN ChainStart(l) ELSE ChainStep(m, g[k - 1])
  BY <1>2 DEF IsChain
<1>4. 0 \in 0 .. n /\ \A k \in 1 .. n : k \in 0 .. n /\ k # 0
  OBVIOUS
<1>5. g[0] = ChainStart(l) /\ \A k \in 1 .. n : g[k] = ChainStep(m, g[k - 1])
  BY <1>3, <1>4
<1>6. QED
  BY <1>1, <1>5

(* Before the climb the path is empty.                                     *)
LEMMA StartChains ==
    ASSUME NEW m, NEW l \in DOMAIN m.links
    PROVE  Chaining(m, l, ChainStart(l))
<1>1. <<>> \in Seq(JointsOf(m)) /\ Len(<<>>) = 0
  OBVIOUS
<1>2. ChainStart(l) \in Chains(m)
  BY <1>1 DEF Chains, ChainStart
<1>3. QED
  BY <1>1, <1>2 DEF Chaining, IsPathTo, ChainStart

(* Wherever a chain ends, it is a path down to the link it started from.   *)
LEMMA ChainIsPath ==
    ASSUME NEW m, WellLinked(m), NEW l \in DOMAIN m.links, NEW n \in Nat
    PROVE  Chaining(m, l, ChainFrom(m, l, n))
<1>1. PICK f : /\ ChainFrom(m, l, n) = f[n]
               /\ f[0] = ChainStart(l)
               /\ \A k \in 1 .. n : f[k] = ChainStep(m, f[k - 1])
  BY ChainRuns
<1> DEFINE S == {k \in Nat : k <= n => Chaining(m, l, f[k])}
<1>2. 0 \in S
  BY <1>1, StartChains
<1>3. ASSUME NEW k \in Nat, k \in S PROVE k + 1 \in S
  <2> SUFFICES ASSUME k + 1 <= n PROVE Chaining(m, l, f[k + 1])
    OBVIOUS
  <2>1. k <= n /\ k + 1 \in 1 .. n /\ (k + 1) - 1 = k
    OBVIOUS
  <2>2. f[k + 1] = ChainStep(m, f[k]) /\ Chaining(m, l, f[k])
    BY <1>1, <1>3, <2>1
  <2>3. QED
    BY <2>2, ChainStepKeeps
<1>4. Nat \subseteq S
  <2> HIDE DEF S
  <2>1. QED
    BY <1>2, <1>3, SetInduction
<1>5. QED
  BY <1>1, <1>4

-----------------------------------------------------------------------------
(***************************************************************************)
(* The two walks agree.  In what follows sent is the list of a completed   *)
(* walk: the joints below every link it has reached.                       *)
(***************************************************************************)
Complete(m, sent) == Listed(m, sent, Reached(m, sent) \cap DOMAIN m.links)

(* A joint is listed if the link above it was reached, and only then.      *)
LEMMA CompleteLists ==
    ASSUME NEW m, NEW sent, Complete(m, sent)
    PROVE  /\ sent \in Seq(JointsOf(m))
           /\ Len(sent) \in Nat /\ DOMAIN sent = 1 .. Len(sent)
           /\ \A a \in DOMAIN sent : /\ sent[a] \in JointsOf(m)
                                     /\ sent[a].parent \in Reached(m, sent)
                                     /\ sent[a].parent \in DOMAIN m.links
           /\ \A j \in JointsOf(m) :
                 j.parent \in Reached(m, sent) /\ j.parent \in DOMAIN m.links
                    => \E a \in DOMAIN sent : sent[a] = j
<1> DEFINE P == Reached(m, sent) \cap DOMAIN m.links
<1>1. /\ sent \in Seq(JointsOf(m))
      /\ \A j \in JointsOf(m) : j.parent \in P <=> \E a \in DOMAIN sent : sent[a] = j
  BY DEF Complete, Listed
<1>2. /\ Len(sent) \in Nat /\ DOMAIN sent = 1 .. Len(sent)
      /\ \A a \in DOMAIN sent : sent[a] \in JointsOf(m)
  BY <1>1, LenProperties, ElementOfSeq
<1>3. \A a \in DOMAIN sent : sent[a].parent \in P
  BY <1>1, <1>2
<1>4. QED
  BY <1>1, <1>2, <1>3

(* A path from the root is listed from its first joint to its last.        *)
LEMMA PathsAreListed ==
    ASSUME NEW m, WellLinked(m), NEW sent, Complete(m, sent), NEW l,
           NEW joints \in Seq(JointsOf(m)), joints # <<>>, IsPathTo(m, joints, l),
           joints[1].parent = m.root
    PROVE  /\ \A k \in DOMAIN joints : \E a \in DOMAIN sent : sent[a] = joints[k]
           /\ \E a \in DOMAIN sent : sent[a].child = l
<1> DEFINE n == Len(joints)
           S == {k \in Nat : k + 1 <= n => \E a \in DOMAIN sent : sent[a] = joints[k + 1]}
<1>1. /\ n \in Nat /\ n > 0 /\ DOMAIN joints = 1 .. n
      /\ \A k \in 1 .. n : joints[k] \in JointsOf(m)
  BY EmptySeq, LenProperties, ElementOfSeq
<1>2. m.root \in DOMAIN m.links /\ m.root \in Reached(m, sent)
  BY DEF WellLinked, Reached
<1>3. \A k \in 1 .. n - 1 : joints[k].child = joints[k + 1].parent /\ joints[k].child \in DOMAIN m.links
  BY DEF IsPathTo
<1>4. joints[n].child = l
  BY DEF IsPathTo
<1> HIDE DEF n
<1>5. 0 \in S
  <2>1. 1 \in 1 .. n /\ 0 + 1 = 1
    BY <1>1
  <2>2. \E a \in DOMAIN sent : sent[a] = joints[1]
    BY <1>1, <1>2, <2>1, CompleteLists
  <2>3. QED
    BY <2>1, <2>2
<1>6. ASSUME NEW k \in Nat, k \in S PROVE k + 1 \in S
  <2> SUFFICES ASSUME (k + 1) + 1 <= n PROVE \E a \in DOMAIN sent : sent[a] = joints[(k + 1) + 1]
    OBVIOUS
  <2>1. /\ k + 1 <= n /\ k + 1 \in 1 .. n - 1 /\ (k + 1) + 1 \in 1 .. n
    BY <1>1
  <2>2. PICK a \in DOMAIN sent : sent[a] = joints[k + 1]
    BY <1>6, <2>1
  <2>3. joints[k + 1].child = joints[(k + 1) + 1].parent /\ joints[k + 1].child \in DOMAIN m.links
    BY <1>3, <2>1
  <2>4. joints[k + 1].child \in Reached(m, sent)
    BY <2>2 DEF Reached
  <2>5. QED
    BY <1>1, <2>1, <2>3, <2>4, CompleteLists
<1>7. Nat \subseteq S
  <2> HIDE DEF S
  <2>1. QED
    BY <1>5, <1>6, SetInduction
<1>8. \A k \in 1 .. n : k - 1 \in Nat /\ (k - 1) + 1 = k /\ k <= n
  BY <1>1
<1>9. \A k \in 1 .. n : \E a \in DOMAIN sent : sent[a] = joints[k]
  BY <1>7, <1>8
<1>10. n \in 1 .. n
  BY <1>1
<1>11. QED
  BY <1>1, <1>4, <1>9, <1>10

(* Where a link stands in the list; the root stands before it.             *)
Place(m, sent, i, x) ==
    \/ i = 0 /\ x = m.root
    \/ i \in DOMAIN sent /\ sent[i].child = x

(* A link stands in one place only.                                        *)
LEMMA OnePlaceEach ==
    ASSUME NEW m, WellLinked(m), NEW sent, Complete(m, sent), NEW i, NEW j, NEW x,
           Place(m, sent, i, x), Place(m, sent, j, x)
    PROVE  i = j
<1>1. OneParentEach(sent)
  BY DEF Complete, Listed
<1>2. \A a \in DOMAIN sent : sent[a].child # m.root
  BY CompleteLists, JointsDiffer
<1>3. QED
  BY <1>1, <1>2 DEF Place, OneParentEach

(* The climb from a link that was reached, after k turns: V are the links  *)
(* it has been at, none of which stands before the one it is at.           *)
Climbing(m, sent, l, c, V, k) ==
    /\ Chaining(m, l, c)
    /\ c.link \in Reached(m, sent)
    /\ c.ended => c.link = m.root
    /\ c.joints # <<>> => c.joints[1].parent = c.link
    /\ V \subseteq DOMAIN m.links
    /\ ~c.ended => Cardinality(V) = k + 1
    /\ \E i \in Nat : /\ Place(m, sent, i, c.link)
                      /\ \A v \in V : \E j \in Nat : j >= i /\ Place(m, sent, j, v)

(* Before the climb only the link itself was met.                          *)
LEMMA StartClimbs ==
    ASSUME NEW m, NEW sent, Complete(m, sent), NEW l \in DOMAIN m.links, l \in Reached(m, sent)
    PROVE  Climbing(m, sent, l, ChainStart(l), {l}, 0)
<1>1. Chaining(m, l, ChainStart(l))
  BY StartChains
<1>2. Cardinality({l}) = 0 + 1
  BY FS_Singleton
<1>3. PICK i \in Nat : Place(m, sent, i, l)
  <2>1. CASE l = m.root
    BY <2>1 DEF Place
  <2>2. CASE l # m.root
    <3>1. PICK a \in DOMAIN sent : sent[a].child = l
      BY <2>2 DEF Reached
    <3>2. a \in Nat
      BY CompleteLists
    <3>3. QED
      BY <3>1, <3>2 DEF Place
  <2>3. QED
    BY <2>1, <2>2
<1>4. \E i_1 \in Nat : /\ Place(m, sent, i_1, l)
                       /\ \A v \in {l} : \E j \in Nat : j >= i_1 /\ Place(m, sent, j, v)
  BY <1>3
<1>5. QED
  BY <1>1, <1>2, <1>4 DEF Climbing, ChainStart

(* One turn of the climb: at the root it ends, elsewhere it moves up.      *)
LEMMA ClimbingKeeps ==
    ASSUME NEW m, WellLinked(m), NEW sent, Complete(m, sent), NEW l, NEW c, NEW V,
           NEW k \in Nat, Climbing(m, sent, l, c, V, k)
    PROVE  \E W : Climbing(m, sent, l, ChainStep(m, c), W, k + 1)
<1> DEFINE L == DOMAIN m.links
           R == Reached(m, sent)
           link == m.links[c.link]
           joint == m.joints[link.parent]
           d == ChainStep(m, c)
<1>1. /\ Chaining(m, l, c) /\ Chaining(m, l, d)
      /\ c \in Chains(m) /\ c.link \in L /\ c.joints \in Seq(JointsOf(m)) /\ c.ended \in BOOLEAN
  BY ChainStepKeeps DEF Climbing, Chaining, Chains
<1>2. PICK i \in Nat : /\ Place(m, sent, i, c.link)
                       /\ \A v \in V : \E j \in Nat : j >= i /\ Place(m, sent, j, v)
  BY DEF Climbing
<1>3. /\ c.link \in R
      /\ c.ended => c.link = m.root
      /\ c.joints # <<>> => c.joints[1].parent = c.link
      /\ V \subseteq L
      /\ ~c.ended => Cardinality(V) = k + 1
  BY DEF Climbing
<1>4. CASE c.link = m.root
  <2>1. c.ended \/ IsRoot(link) \/ link.parent \notin DOMAIN m.joints
    BY <1>1, <1>4, AboveIt DEF IsRoot
  <2>2. d = [c EXCEPT !.ended = TRUE]
    BY <2>1 DEF ChainStep
  <2>3. d.link = c.link /\ d.joints = c.joints /\ d.ended
    BY <1>1, <2>2 DEF Chains
  <2> HIDE DEF d
  <2>4. Climbing(m, sent, l, d, V, k + 1)
    BY <1>1, <1>2, <1>3, <1>4, <2>3 DEF Climbing
  <2>5. QED
    BY <2>4 DEF d
<1>5. CASE c.link # m.root
  <2>1. i \in DOMAIN sent /\ sent[i].child = c.link
    BY <1>2, <1>5 DEF Place
  <2>2. sent[i] \in JointsOf(m) /\ sent[i].parent \in R /\ sent[i].parent \in L
    BY <2>1, CompleteLists
  <2>3. link.parent \in DOMAIN m.joints /\ joint = sent[i] /\ link.parent # NoName
    <3>1. PICK n \in DOMAIN m.joints : m.joints[n] = sent[i]
      BY <2>2 DEF JointsOf
    <3>2. link.parent = n
      BY <1>1, <2>1, <3>1 DEF WellLinked
    <3>3. n # NoName
      BY NamesAreNotEmpty DEF WellLinked
    <3>4. QED
      BY <3>1, <3>2, <3>3
  <2> DEFINE up == sent[i].parent
             W == V \cup {up}
  <2>4. ~c.ended /\ ~IsRoot(link) /\ link.parent \in DOMAIN m.joints
    BY <1>3, <1>5, <2>3 DEF IsRoot
  <2>5. d = [c EXCEPT !.link = joint.parent, !.joints = <<joint>> \o @]
    BY <2>2, <2>3, <2>4 DEF ChainStep
  <2>6. d.link = up /\ d.joints = <<sent[i]>> \o c.joints /\ d.ended = FALSE
    BY <1>1, <2>3, <2>4, <2>5 DEF Chains
  <2> HIDE DEF d
  <2>7. d.joints[1].parent = up
    <3>1. <<sent[i]>> \in Seq(JointsOf(m)) /\ Len(<<sent[i]>>) = 1 /\ <<sent[i]>>[1] = sent[i]
      BY <2>2, SingleOf
    <3>2. (<<sent[i]>> \o c.joints)[1] = sent[i]
      BY <1>1, <3>1
    <3>3. QED
      BY <2>6, <3>2
  <2>8. PICK b \in Nat : b < i /\ Place(m, sent, b, up)
    <3>1. up = m.root \/ \E b \in 1 .. i - 1 : sent[b].child = up
      BY <2>1 DEF Complete, Listed
    <3>2. i \in 1 .. Len(sent) /\ Len(sent) \in Nat /\ DOMAIN sent = 1 .. Len(sent)
      BY <2>1, CompleteLists
    <3>3. CASE up = m.root
      BY <3>2, <3>3 DEF Place
    <3>4. CASE \E b \in 1 .. i - 1 : sent[b].child = up
      <4>1. PICK b \in 1 .. i - 1 : sent[b].child = up
        BY <3>4
      <4>2. b \in DOMAIN sent /\ b \in Nat /\ b < i
        BY <3>2
      <4>3. QED
        BY <4>1, <4>2 DEF Place
    <3>5. QED
      BY <3>1, <3>3, <3>4
  <2> HIDE DEF up
  <2>9. up \notin V
    <3> SUFFICES ASSUME up \in V PROVE FALSE
      OBVIOUS
    <3>1. PICK j \in Nat : j >= i /\ Place(m, sent, j, up)
      BY <1>2
    <3>2. j = b
      BY <2>8, <3>1, OnePlaceEach
    <3>3. QED
      BY <2>8, <3>1, <3>2
  <2>10. Cardinality(W) = (k + 1) + 1
    <3>1. IsFiniteSet(V)
      BY <1>3, FS_Subset DEF WellLinked
    <3>2. QED
      BY <1>3, <2>4, <2>9, <3>1, FS_AddElement
  <2>11. \A v \in W : \E j \in Nat : j >= b /\ Place(m, sent, j, v)
    <3>1. ASSUME NEW v \in V PROVE \E j \in Nat : j >= b /\ Place(m, sent, j, v)
      <4>1. PICK j \in Nat : j >= i /\ Place(m, sent, j, v)
        BY <1>2
      <4>2. j >= b
        BY <2>8, <4>1
      <4>3. QED
        BY <4>1, <4>2
    <3>2. QED
      BY <2>8, <3>1
  <2>12. W \subseteq L /\ up \in R
    BY <1>3, <2>2 DEF up
  <2> HIDE DEF W
  <2>13. Climbing(m, sent, l, d, W, k + 1)
    BY <1>1, <2>6, <2>7, <2>8, <2>10, <2>11, <2>12 DEF Climbing
  <2>14. QED
    BY <2>13 DEF d
<1>6. QED
  BY <1>4, <1>5

(* The chain from a reached link ends at the root, in as many turns as     *)
(* there are links.                                                        *)
LEMMA ReachedChainsEnd ==
    ASSUME NEW m, WellLinked(m), NEW sent, Complete(m, sent),
           NEW l \in DOMAIN m.links, l \in Reached(m, sent), l # m.root
    PROVE  LET c == ChainFrom(m, l, Cardinality(DOMAIN m.links))
           IN  c.ended /\ c.joints # <<>> /\ c.joints[1].parent = m.root
<1> DEFINE L == DOMAIN m.links
           n == Cardinality(L)
           c == ChainFrom(m, l, n)
<1>1. IsFiniteSet(L) /\ n \in Nat
  BY FS_CardinalityType DEF WellLinked
<1>2. PICK f : /\ ChainFrom(m, l, n) = f[n]
               /\ f[0] = ChainStart(l)
               /\ \A k \in 1 .. n : f[k] = ChainStep(m, f[k - 1])
  BY <1>1, ChainRuns
<1> HIDE DEF n
<1> DEFINE S == {k \in Nat : k <= n => \E V : Climbing(m, sent, l, f[k], V, k)}
<1>3. 0 \in S
  BY <1>2, StartClimbs
<1>4. ASSUME NEW k \in Nat, k \in S PROVE k + 1 \in S
  <2> SUFFICES ASSUME k + 1 <= n PROVE \E W : Climbing(m, sent, l, f[k + 1], W, k + 1)
    OBVIOUS
  <2>1. k <= n /\ k + 1 \in 1 .. n /\ (k + 1) - 1 = k
    BY <1>1
  <2>2. PICK V : Climbing(m, sent, l, f[k], V, k)
    BY <1>4, <2>1
  <2>3. f[k + 1] = ChainStep(m, f[k])
    BY <1>2, <2>1
  <2>4. QED
    BY <2>2, <2>3, ClimbingKeeps
<1>5. Nat \subseteq S
  <2> HIDE DEF S
  <2>1. QED
    BY <1>3, <1>4, SetInduction
<1>6. PICK V : Climbing(m, sent, l, c, V, n)
  BY <1>1, <1>2, <1>5
<1> HIDE DEF c
<1>7. c.ended
  <2> SUFFICES ASSUME ~c.ended PROVE FALSE
    OBVIOUS
  <2>1. V \subseteq L /\ Cardinality(V) = n + 1
    BY <1>6 DEF Climbing
  <2>2. Cardinality(V) <= n
    BY <1>1, <2>1, FS_Subset DEF n
  <2>3. QED
    BY <1>1, <2>1, <2>2
<1>8. c.link = m.root /\ (c.joints # <<>> => c.joints[1].parent = m.root)
  BY <1>6, <1>7 DEF Climbing
<1>9. c.joints # <<>>
  BY <1>6, <1>8 DEF Climbing, Chaining
<1>10. QED
  BY <1>7, <1>8, <1>9 DEF c, n

-----------------------------------------------------------------------------
(***************************************************************************)
(* What the walks say of the models the parser leaves behind.              *)
(***************************************************************************)
(* What the invariant says of a valid model.                               *)
LEMMA ModelsAreWellLinked ==
    ASSUME IInv, NamesAreUnique, IsValid(model)
    PROVE  WellLinked(model)
<1>1. Typed /\ MapsAgree /\ DOMAIN model.links # {} /\ model.root # NoName
  BY DEF IInv, IsValid
<1>2. IsFiniteSet(DOMAIN model.links) /\ model.root \in DOMAIN model.links
  BY <1>1 DEF Typed, TypeOK
<1>3. DOMAIN model.joints \subseteq JointNames /\ JointsOf(model) \subseteq Joints
  BY <1>1 DEF Typed, TypeOK, JointsOf
<1>4. \A n \in DOMAIN model.joints :
         /\ model.joints[n].child \in DOMAIN parent_map
         /\ parent_map[model.joints[n].child] = n
         /\ model.joints[n].parent \in DOMAIN children_map
         /\ \E k \in DOMAIN children_map[model.joints[n].parent] :
                children_map[model.joints[n].parent][k] = n
  BY <1>1 DEF MapsAgree, JointsEntered
<1>5. model.root \notin DOMAIN parent_map
  BY <1>1 DEF MapsAgree, LinksCopied
<1>6. \A n, k \in DOMAIN model.joints :
         model.joints[n].child = model.joints[k].child => n = k
  BY <1>4
<1>7. ASSUME NEW l \in DOMAIN model.links
      PROVE  /\ model.links[l].parent = IF l \in DOMAIN parent_map THEN parent_map[l] ELSE NoName
             /\ model.links[l].children = ChildrenOf(l)
  <2>1. model.links[l] = LinkNamed(l)
    BY <1>1 DEF MapsAgree, LinksCopied
  <2>2. QED
    BY <2>1 DEF LinkNamed
<1>8. ASSUME NEW l \in DOMAIN model.links
      PROVE  /\ ChildrenOf(l) \in Seq(DOMAIN model.joints)
             /\ IsInjective(ChildrenOf(l))
             /\ \A k \in DOMAIN ChildrenOf(l) : model.joints[ChildrenOf(l)[k]].parent = l
  <2>1. CASE l \in DOMAIN children_map
    <3> DEFINE s == children_map[l]
    <3>1. ChildrenOf(l) = s
      BY <2>1 DEF ChildrenOf
    <3>2. /\ s \in Seq(JointNames) /\ IsInjective(s)
          /\ \A k \in DOMAIN s : s[k] \in DOMAIN model.joints /\ model.joints[s[k]].parent = l
      BY <1>1, <2>1 DEF Typed, MapsAgree, ChildrenTrue, ChildrenDistinct
    <3> HIDE DEF s
    <3>3. Len(s) \in Nat /\ DOMAIN s = 1 .. Len(s) /\ s = [k \in 1 .. Len(s) |-> s[k]]
      BY <3>2, LenProperties
    <3>4. s \in [1 .. Len(s) -> DOMAIN model.joints]
      BY <3>2, <3>3
    <3>5. s \in Seq(DOMAIN model.joints)
      BY <3>3, <3>4, SeqDef
    <3>6. QED
      BY <3>1, <3>2, <3>5
  <2>2. CASE l \notin DOMAIN children_map
    <3>1. ChildrenOf(l) = <<>>
      BY <2>2 DEF ChildrenOf
    <3>2. DOMAIN <<>> = {} /\ <<>> \in Seq(DOMAIN model.joints)
      OBVIOUS
    <3>3. QED
      BY <3>1, <3>2 DEF IsInjective
  <2>3. QED
    BY <2>1, <2>2
<1>9. ASSUME NEW l \in DOMAIN model.links, model.links[l].parent # NoName
      PROVE  /\ model.links[l].parent \in DOMAIN model.joints
             /\ model.joints[model.links[l].parent].child = l
  BY <1>1, <1>7, <1>9 DEF MapsAgree, ParentsTrue
<1>10. ASSUME NEW n \in DOMAIN model.joints, NEW l \in DOMAIN model.links
       PROVE  /\ model.joints[n].child = l => model.links[l].parent = n
              /\ model.joints[n].parent = l =>
                    \E k \in DOMAIN model.links[l].children : model.links[l].children[k] = n
  BY <1>4, <1>7 DEF ChildrenOf
<1>11. \A n \in DOMAIN model.joints : model.joints[n].child # model.root
  BY <1>4, <1>5
<1>12. \A l \in DOMAIN model.links :
          /\ model.links[l].children \in Seq(DOMAIN model.joints)
          /\ IsInjective(model.links[l].children)
          /\ \A k \in DOMAIN model.links[l].children :
                model.joints[model.links[l].children[k]].parent = l
  BY <1>7, <1>8
<1>13. QED
  BY <1>2, <1>3, <1>6, <1>9, <1>10, <1>11, <1>12 DEF WellLinked

(* So its walk is completed.                                               *)
LEMMA SentIsComplete ==
    ASSUME IInv, NamesAreUnique, IsValid(model)
    PROVE  WellLinked(model) /\ WalkEnds(model) /\ Complete(model, Sent(model))
<1>1. WellLinked(model)
  BY ModelsAreWellLinked
<1>2. Sent(model) = Walk(model, Visits(model)).sent
  BY DEF Sent
<1>3. QED
  BY <1>1, <1>2, WalkCompletes DEF Complete

(* get_transforms of a valid model, however large and wherever its parse   *)
(* was abandoned, comes to an end and lists each frame once, never the     *)
(* root and never before its parent: what FrameGraph::update accepts.      *)
THEOREM TransformsPublishable == Spec => []TransformsArePublishable
<1>1. ASSUME IInv, NamesAreUnique, IsValid(model), NEW k \in DOMAIN Sent(model)
      PROVE  /\ Sent(model)[k].child # model.root
             /\ \A i \in DOMAIN Sent(model) :
                   Sent(model)[i].child = Sent(model)[k].child => i = k
             /\ Sent(model)[k].parent = model.root
                  \/ \E i \in 1 .. k - 1 : Sent(model)[i].child = Sent(model)[k].parent
  <2>1. WellLinked(model) /\ Complete(model, Sent(model))
    BY <1>1, SentIsComplete
  <2>2. Sent(model)[k].child # model.root
    BY <1>1, <2>1, CompleteLists, JointsDiffer
  <2>3. QED
    BY <1>1, <2>1, <2>2 DEF Complete, Listed, OneParentEach
<1>2. IInv => TransformsArePublishable
  <2> SUFFICES ASSUME IInv, NamesAreUnique, IsValid(model) PROVE TransformsArePublishable
    BY DEF TransformsArePublishable
  <2>1. WalkEnds(model)
    BY SentIsComplete
  <2>2. QED
    BY <1>1, <2>1 DEF TransformsArePublishable, Publishable
<1>3. QED
  BY <1>2, Inductive, PTL

(* In every valid model get_transforms, which walks down, and              *)
(* get_joints_in_chain, which walks up, agree on which links are below the *)
(* root, and the chain of such a link is a path from the root to it.       *)
THEOREM WalksAgree == Spec => []PublishedIffInChain
<1>1. ASSUME IInv, NamesAreUnique, IsValid(model), NEW l \in DOMAIN model.links \ {model.root}
      PROVE  LET chain     == JointsInChain(model, l)
                 published == \E k \in DOMAIN Sent(model) : Sent(model)[k].child = l
             IN  /\ chain \in Seq(Joints)
                 /\ published <=> ( /\ ChainEnds(model, l)
                                    /\ chain # <<>>
                                    /\ chain[1].parent = model.root )
                 /\ published => /\ \A k \in DOMAIN chain :
                                       \E i \in DOMAIN Sent(model) : Sent(model)[i] = chain[k]
                                 /\ \A k \in 1 .. Len(chain) - 1 :
                                       chain[k].child = chain[k + 1].parent
                                 /\ Last(chain).child = l
  <2> DEFINE n == Cardinality(DOMAIN model.links)
             c == ChainFrom(model, l, n)
             chain == JointsInChain(model, l)
             sent == Sent(model)
             published == \E k \in DOMAIN sent : sent[k].child = l
  <2>1. WellLinked(model) /\ Complete(model, sent) /\ n \in Nat
    BY <1>1, SentIsComplete, FS_CardinalityType DEF WellLinked
  <2>2. chain = c.joints /\ (ChainEnds(model, l) <=> c.ended)
    BY <1>1 DEF JointsInChain, ChainEnds
  <2>3. Chaining(model, l, c)
    <3> HIDE DEF n
    <3>1. QED
      BY <2>1, ChainIsPath
  <2>4. c \in Chains(model) /\ IsPathTo(model, c.joints, l)
    BY <2>3 DEF Chaining
  <2> HIDE DEF sent
  <2>5. published => l \in Reached(model, sent)
    BY DEF Reached
  <2>6. published => c.ended /\ chain # <<>> /\ chain[1].parent = model.root
    <3> SUFFICES ASSUME published PROVE c.ended /\ chain # <<>> /\ chain[1].parent = model.root
      OBVIOUS
    <3>1. l \in Reached(model, sent)
      BY <2>5
    <3>2. c.ended /\ c.joints # <<>> /\ c.joints[1].parent = model.root
      BY <2>1, <3>1, ReachedChainsEnd
    <3>3. QED
      BY <2>2, <3>2
  <2> HIDE DEF c, chain
  <2>7. chain \in Seq(JointsOf(model)) /\ IsPathTo(model, chain, l)
    BY <2>2, <2>4 DEF Chains
  <2>8. chain # <<>> /\ chain[1].parent = model.root =>
           /\ \A k \in DOMAIN chain : \E i \in DOMAIN sent : sent[i] = chain[k]
           /\ published
    BY <2>1, <2>7, PathsAreListed
  <2>9. chain # <<>> => Last(chain).child = l
    BY <2>7 DEF IsPathTo, Last
  <2>10. \A k \in 1 .. Len(chain) - 1 : chain[k].child = chain[k + 1].parent
    BY <2>7 DEF IsPathTo
  <2> HIDE DEF published
  <2>11. /\ published <=> (ChainEnds(model, l) /\ chain # <<>> /\ chain[1].parent = model.root)
         /\ published => /\ \A k \in DOMAIN chain : \E i \in DOMAIN sent : sent[i] = chain[k]
                         /\ \A k \in 1 .. Len(chain) - 1 : chain[k].child = chain[k + 1].parent
                         /\ Last(chain).child = l
    BY <2>2, <2>6, <2>8, <2>9, <2>10
  <2>12. chain \in Seq(Joints)
    BY <2>1, <2>7, SeqMonotonic DEF WellLinked
  <2>13. QED
    BY <2>11, <2>12 DEF published, chain, sent
<1>2. ASSUME IInv, NamesAreUnique, IsValid(model)
      PROVE  JointsInChain(model, model.root) = <<>>
  <2> DEFINE l == model.root
             n == Cardinality(DOMAIN model.links)
             c == ChainFrom(model, l, n)
  <2>1. WellLinked(model) /\ l \in DOMAIN model.links /\ n \in Nat
    BY <1>2, SentIsComplete, FS_CardinalityType DEF WellLinked
  <2>2. JointsInChain(model, l) = c.joints
    BY <2>1 DEF JointsInChain
  <2>3. Chaining(model, l, c)
    <3> HIDE DEF n
    <3>1. QED
      BY <2>1, ChainIsPath
  <2> HIDE DEF c, l
  <2>4. c.joints \in Seq(JointsOf(model)) /\ IsPathTo(model, c.joints, l)
    BY <2>3 DEF Chaining, Chains
  <2>5. ASSUME c.joints # <<>> PROVE FALSE
    <3> DEFINE last == c.joints[Len(c.joints)]
    <3>1. last \in JointsOf(model) /\ last.child = l
      BY <2>4, <2>5 DEF IsPathTo
    <3> HIDE DEF last
    <3>2. \A n1 \in DOMAIN model.joints : model.joints[n1].child # l
      BY <2>1 DEF WellLinked, l
    <3>3. QED
      BY <3>1, <3>2 DEF JointsOf
  <2>6. QED
    BY <2>2, <2>5 DEF l
<1>3. IInv => PublishedIffInChain
  <2> SUFFICES ASSUME IInv, NamesAreUnique, IsValid(model) PROVE PublishedIffInChain
    BY DEF PublishedIffInChain
  <2>1. QED
    BY <1>1, <1>2 DEF PublishedIffInChain, ChainsArePublished
<1>4. QED
  BY <1>3, Inductive, PTL

=============================================================================
