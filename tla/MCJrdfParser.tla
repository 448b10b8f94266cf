---------------------------- MODULE MCJrdfParser ----------------------------
(***************************************************************************)
(* JrdfParser for TLC.                                                     *)
(***************************************************************************)
EXTENDS JrdfParser, TLC

CONSTANTS base, arm, hand, waist, elbow, wrist

MCLinkNames  == {base, arm, hand}
MCJointNames == {waist, elbow, wrist}
Renamings    == Permutations(MCLinkNames) \cup Permutations(MCJointNames)

=============================================================================
