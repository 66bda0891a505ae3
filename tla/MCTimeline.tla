----------------------------- MODULE MCTimeline -----------------------------
(* A small instance of Timeline for TLC. *)
EXTENDS Timeline

\* 0 stands for the default; one post per page is left out (see PagesEnd).
SomeSizes == {0, 2, 3, 5, 10}
=============================================================================
