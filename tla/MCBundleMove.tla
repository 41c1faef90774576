---------------------------- MODULE MCBundleMove ---------------------------
(* A bundle with two entries. *)
EXTENDS BundleMove

MCEntries == {"entry-0001", "entry-0002"}

=============================================================================
