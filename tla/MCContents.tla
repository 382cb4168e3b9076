----------------------------- MODULE MCContents -----------------------------
(***************************************************************************)
(* Contents on small blogs.                                                *)
(***************************************************************************)
EXTENDS Contents

\* Two files share a base name, as post.md and post.txt do.
SharedBase == [f \in Files |-> IF f = 3 THEN 2 ELSE f]

OwnBase == [f \in Files |-> f]

=============================================================================
