---------------------------- MODULE MCFrameGraph ----------------------------
(***************************************************************************)
(* FrameGraph for TLC.  The group is the symmetric group on three points,  *)
(* the smallest in which products do not commute, as rigid transforms do   *)
(* not; the published transforms are a rotation and a reflection, which    *)
(* generate it.  An interpolation answers with the nearer of its ends.     *)
(***************************************************************************)
EXTENDS FrameGraph, TLC

Perm(x, y, z) == <<x, y, z>>

Product(a, b)  == Perm(a[b[1]], a[b[2]], a[b[3]])
Inverted(a)    == Perm(CHOOSE i \in 1 .. 3 : a[i] = 1,
                       CHOOSE i \in 1 .. 3 : a[i] = 2,
                       CHOOSE i \in 1 .. 3 : a[i] = 3)
Unit           == Perm(1, 2, 3)
Nearer(a, b, num, den) == IF 2 * num <= den THEN a ELSE b

MCTransforms == {Perm(2, 3, 1), Perm(2, 1, 3)}

CONSTANTS world, base, arm, camera
MCNames  == {world, base, arm, camera}
Others   == Permutations({base, arm, camera})

=============================================================================
