------------------------- MODULE MCPrinterInventory -------------------------
(***************************************************************************)
(* The instances of PrinterInventory: the devices on the LAN are functions *)
(* of the model values d1 and d2.                                          *)
(***************************************************************************)
EXTENDS PrinterInventory, TLC

CONSTANTS d1, d2, k1

\* Two Moonraker hosts: the answers of one carry a stable identity.
TwoMoonrakers ==
    d1 :> {[port |-> 7125, type |-> "moonraker", key |-> k1]} @@
    d2 :> {[port |-> 7125, type |-> "moonraker", key |-> NoKey]}

\* A Bambu printer: its MQTT port carries no identity, its mDNS announcement
\* does, and claims the web port.
AnnouncedBambu ==
    d1 :> {[port |-> 8883, type |-> "bambu_mqtt", key |-> NoKey],
           [port |-> 80, type |-> "mdns_bambu", key |-> k1]}

Symmetry == Permutations(Printers) \cup Permutations(Requests) \cup Permutations(Hosts)
=============================================================================
