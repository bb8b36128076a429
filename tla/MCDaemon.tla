------------------------------ MODULE MCDaemon ------------------------------
\* Daemon with a few clients.
EXTENDS Daemon
CONSTANTS c1, c2
=============================================================================
