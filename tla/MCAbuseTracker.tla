--------------------------- MODULE MCAbuseTracker ---------------------------
(* AbuseTracker for one address; entries of different addresses share      *)
(* nothing but the walk of prune, which treats each alike.                 *)
EXTENDS AbuseTracker

MCIps == {"ip"}
=============================================================================
