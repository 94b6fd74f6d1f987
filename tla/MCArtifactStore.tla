-------------------------- MODULE MCArtifactStore --------------------------
(* Instances of ArtifactStore for TLC. *)
EXTENDS ArtifactStore, TLC

CONSTANTS a, b, c1, c2

\* An upload that reserves capacity beside a STORE assignment of other bytes
\* under the same logical name.
MixedKind       == a :> "reserved" @@ b :> "network"
MixedDigest     == a :> "d1" @@ b :> "d2"

\* Both bring the same bytes and generation, under two names.
SameDigest      == a :> "d1" @@ b :> "d1"

\* The generation of a STORE assignment is always 1.
OneGeneration   == a :> 1 @@ b :> 1

OneName         == a :> "n1" @@ b :> "n1"
TwoNames        == a :> "n1" @@ b :> "n2"
=============================================================================
