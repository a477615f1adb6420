---------------------------- MODULE MCActivityFeed ----------------------------
(* Model-checking instance of ActivityFeed.                                *)
EXTENDS ActivityFeed
=============================================================================
