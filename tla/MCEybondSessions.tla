-------------------------- MODULE MCEybondSessions --------------------------
(* Instances of EybondSessions for TLC.                                     *)
EXTENDS EybondSessions, TLC

CONSTANTS pn1, pn2, s1, s2, r1, r2

\* Two requests for one dongle.
SameTarget == r1 :> pn1 @@ r2 :> pn1
\* A request with a PN and one of a legacy entry, without.
MixedTarget == r1 :> pn1 @@ r2 :> NoPN
NoTarget == <<>>

AnySessionAndRequest == Permutations(Sessions) \cup Permutations(Reqs)
AnySessionAndDongle == Permutations(Sessions) \cup Permutations(PNs)
=============================================================================
