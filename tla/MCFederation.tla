---------------------------- MODULE MCFederation ----------------------------
(* Feeds and bounds for model checking Federation.                         *)
EXTENDS Federation

CONSTANTS A, B, C, x, y, e

OneHop == {<<A, B>>}
TwoHops == {<<A, B>>, <<B, C>>}

TwoAtA == (A :> {x, y}) @@ (B :> {x})
OneAtA == (A :> {x}) @@ (B :> {}) @@ (C :> {})

NoneEndorsed == (x :> {})
YEndorsed == (x :> {}) @@ (y :> {e})
=============================================================================
