--------------------------- MODULE TransformStore ---------------------------
(***************************************************************************)
(* What a rix::tf::TransformBuffer promises its user: a finite map from    *)
(* stamps to transforms.  Inserting writes one stamp and then forgets      *)
(* every stamp that lies further behind the newest one than the retention  *)
(* (which, unless it is positive, means never).  Nothing here says deque,  *)
(* position or search; module TransformBuffer implements this.             *)
(***************************************************************************)
EXTENDS Integers

CONSTANTS
    Instants,    (* the stamps a transform may carry *)
    Transforms,  (* the transforms *)
    Durations    (* the retentions the owner may set *)

VARIABLES store, retention

vars == <<store, retention>>

Nothing == [s \in {} |-> CHOOSE x \in Transforms : TRUE]

Written(map, s, x) ==
    [u \in DOMAIN map \cup {s} |-> IF u = s THEN x ELSE map[u]]

Kept(map, d) ==
    {s \in DOMAIN map : d <= 0 \/ \A u \in DOMAIN map : s >= u - d}

Retained(map, d) == [s \in Kept(map, d) |-> map[s]]

Init ==
    /\ store = Nothing
    /\ retention \in Durations

Insert(s, x) ==
    /\ store' = Retained(Written(store, s, x), retention)
    /\ UNCHANGED retention

Clear ==
    /\ store' = Nothing
    /\ UNCHANGED retention

SetRetention(d) ==
    /\ retention' = d
    /\ UNCHANGED store

Next ==
    \/ \E s \in Instants, x \in Transforms : Insert(s, x)
    \/ Clear
    \/ \E d \in Durations : SetRetention(d)

Spec == Init /\ [][Next]_vars

=============================================================================
