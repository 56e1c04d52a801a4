----------------------------- MODULE MCElection -----------------------------
EXTENDS Election
=============================================================================
