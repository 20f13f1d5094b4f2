-------------------------- MODULE MCJournaldSource --------------------------
EXTENDS JournaldSource
=============================================================================
