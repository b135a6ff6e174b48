-------------------------- MODULE MCSharedEngine --------------------------
EXTENDS SharedEngine
=============================================================================
