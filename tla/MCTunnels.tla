----------------------------- MODULE MCTunnels -----------------------------
\* The instance of Tunnels for TLC.
EXTENDS Tunnels
=============================================================================
