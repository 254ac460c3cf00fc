------------------------------- MODULE MCVTlb -------------------------------
(***************************************************************************)
(* Three entries, two pages in two address spaces, two frames: more tags    *)
(* than entries, so that pages lose their place, and entries enough for a   *)
(* tag to be written twice over another.                                    *)
(***************************************************************************)
EXTENDS VTlb

Page(pfn, n, d, v, g) == [pfn |-> pfn, n |-> n, d |-> d, v |-> v, g |-> g]

MCLos == { Page(0, FALSE, FALSE, TRUE, FALSE),    \* clean, cached
           Page(1, TRUE, TRUE, TRUE, TRUE) }      \* dirty, uncached, global
=============================================================================
