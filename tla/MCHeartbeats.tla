---------------------------- MODULE MCHeartbeats ----------------------------
EXTENDS Heartbeats
=============================================================================
