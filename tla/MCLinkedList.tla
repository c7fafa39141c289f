---------------------------- MODULE MCLinkedList ----------------------------
(***************************************************************************)
(* Three lists, as in calypso_network_t, and five nodes: enough for two    *)
(* nodes with neighbours on both sides, adjacent or not, in every list.    *)
(***************************************************************************)
EXTENDS LinkedList
=============================================================================
