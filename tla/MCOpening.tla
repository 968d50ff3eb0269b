----------------------------- MODULE MCOpening -----------------------------
(* The files Opening starts from: none, and one of each earlier release.   *)
EXTENDS Opening

AllFiles == {NoFile, Legacy("unscoped", TRUE), Legacy("scoped", TRUE)}
              \cup {Version(v) : v \in 2..4} \cup Spoilt
=============================================================================
