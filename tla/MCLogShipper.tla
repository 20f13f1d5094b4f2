---------------------------- MODULE MCLogShipper ----------------------------
EXTENDS LogShipper
=============================================================================
