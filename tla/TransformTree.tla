--------------------------- MODULE TransformTree ----------------------------
(***************************************************************************)
(* What a rix::tf::FrameGraph promises its user: a tree of named frames    *)
(* that grows from a fixed root and never changes shape, and for every     *)
(* edge the transforms heard for it, within the edge's retention.  An      *)
(* update is heard only if it names a known parent and does not contradict *)
(* the tree.  Nothing here says index, adjacency list or deque; module     *)
(* FrameGraph implements this.                                             *)
(***************************************************************************)
EXTENDS Integers

CONSTANTS
    Names,       (* the frame names *)
    Root,        (* the name the graph was constructed with *)
    Instants,    (* the stamps a transform may carry *)
    Transforms,  (* the transforms of one edge *)
    Durations    (* the retentions a graph may be constructed with *)

VARIABLES
    parent,      (* known frame other than the root |-> its parent *)
    history,     (* the same frame |-> stamp |-> transform *)
    retained,    (* the same frame |-> the retention of its history *)
    retention    (* what the next new frame will retain *)

vars == <<parent, history, retained, retention>>

Stored == INSTANCE TransformStore WITH store <- history, retention <- retention

Known == {Root} \cup DOMAIN parent

Extended(map, c, value) ==
    [n \in DOMAIN map \cup {c} |-> IF n = c THEN value ELSE map[n]]

Init ==
    /\ parent   = [n \in {} |-> Root]
    /\ history  = [n \in {} |-> Stored!Nothing]
    /\ retained = [n \in {} |-> 0]
    /\ retention \in Durations

(* A first transform below a known parent makes its child known.           *)
Join(p, c, stamp, transform) ==
    /\ p \in Known
    /\ c \in Names \ Known
    /\ parent'   = Extended(parent, c, p)
    /\ retained' = Extended(retained, c, retention)
    /\ history'  = Extended(history, c,
                     Stored!Retained(Stored!Written(Stored!Nothing, stamp, transform),
                                     retention))
    /\ UNCHANGED retention

(* A further transform of an edge of the tree.                             *)
Hear(c, stamp, transform) ==
    /\ c \in DOMAIN parent
    /\ history' = Extended(history, c,
                    Stored!Retained(Stored!Written(history[c], stamp, transform),
                                    retained[c]))
    /\ UNCHANGED <<parent, retained, retention>>

(* A copy has the same tree and the same histories; what it retains for    *)
(* frames that are still to come is not promised.                          *)
Copy ==
    /\ retention' \in Durations \cup {0}
    /\ UNCHANGED <<parent, history, retained>>

Next ==
    \/ \E p, c \in Names, stamp \in Instants, transform \in Transforms :
          Join(p, c, stamp, transform)
    \/ \E c \in Names, stamp \in Instants, transform \in Transforms :
          Hear(c, stamp, transform)
    \/ Copy

Spec == Init /\ [][Next]_vars

=============================================================================
