--------------------------- MODULE MCEthernetPoll ----------------------------
(* TLC instance of EthernetPoll; the cfg files give the sizes.             *)
EXTENDS EthernetPoll
=============================================================================
