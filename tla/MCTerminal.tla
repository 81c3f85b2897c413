----------------------------- MODULE MCTerminal -----------------------------
\* A small instance of TerminalEnds: three clients for two slots at the gateway,
\* a native client with two addresses and two keys.
EXTENDS TerminalEnds
=============================================================================
