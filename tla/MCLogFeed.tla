------------------------------ MODULE MCLogFeed ------------------------------
(* A model-checking instance of LogFeed: see README, "Runs". *)
EXTENDS LogFeed

MCEvent == {"a", "b", "c", "d"}
MCUnreadable == {"c"}
=============================================================================
