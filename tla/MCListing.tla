----------------------------- MODULE MCListing -----------------------------
(* Small instances of Listing. *)
EXTENDS Listing

\* Limits below, at and above the operator's, and one of each kind that a
\* request of 4 bits cannot hold: negative, zero and small after the cast.
MCAsked == {None, 0, 1, 3, 9, 16, 17}
=============================================================================
