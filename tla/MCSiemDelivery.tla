--------------------------- MODULE MCSiemDelivery ---------------------------
(* Small instances of SiemDelivery for TLC. *)
EXTENDS SiemDelivery
=============================================================================
