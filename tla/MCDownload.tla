----------------------------- MODULE MCDownload -----------------------------
EXTENDS BlobDownload

(* Every size from nothing to one above the limit, and no size at all. *)
AnySize == 0 .. Maximum + 1 \cup {None}
=============================================================================
