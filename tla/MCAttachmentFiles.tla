-------------------------- MODULE MCAttachmentFiles --------------------------
(* An instance of AttachmentFiles for TLC: the gc command alone. *)
EXTENDS AttachmentFiles

CONSTANTS e1, e2, e3, n1, c1, c2

E3 == {e1, e2, e3}
N1 == {n1}
C2 == {c1, c2}
Third == {e3}

Command == {"gc"}
===============================================================================
