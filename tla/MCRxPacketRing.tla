--------------------------- MODULE MCRxPacketRing ----------------------------
(* TLC instance of RxPacketRing; the cfg file gives the sizes.             *)
EXTENDS RxPacketRing
=============================================================================
