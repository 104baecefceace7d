--------------------------- MODULE MCPairingFlow ---------------------------
(* Instances of PairingFlow: one connection, a few pairing activations.    *)
EXTENDS PairingFlow

CONSTANT c1
=============================================================================
