--------------------------- MODULE MCOfflineQueue ---------------------------
(* Two senders over one operation: the operations of the queue do not        *)
(* interact except by being claimed together.                                *)
EXTENDS OfflineQueue
=============================================================================
