---------------------------- MODULE MCAudioFifo ----------------------------
\* Instances of AudioFifo small enough to be checked: see the .cfg files.
EXTENDS AudioFifo
=============================================================================
