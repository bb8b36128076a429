---------------------------- MODULE MCEventStream ----------------------------
\* EventStream with its default budget of three reconnects.
EXTENDS EventStream
=============================================================================
