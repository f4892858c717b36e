------------------------- MODULE MCLinkedInSession -------------------------
(* LinkedInSession with its commands as model values. *)
EXTENDS LinkedInSession
=============================================================================
