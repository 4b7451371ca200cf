--------------------------- MODULE MCConversations ---------------------------
(***************************************************************************)
(* Conversations for TLC.  Nothing tells clients apart, so the set of      *)
(* them is symmetric; no property run with the symmetry is a liveness      *)
(* property.  Five messages in a request are the fewest with which two     *)
(* clients share a conversation whose lock has been evicted: both hold a   *)
(* transcript of two, and one of them comes back with a third turn.        *)
(***************************************************************************)
EXTENDS Conversations, TLC

Symmetry == Permutations(Clients)
=============================================================================
