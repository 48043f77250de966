------------------------------ MODULE MCBridge ------------------------------
EXTENDS Bridge
=============================================================================
