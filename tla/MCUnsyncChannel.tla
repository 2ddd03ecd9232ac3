-------------------------- MODULE MCUnsyncChannel --------------------------
EXTENDS UnsyncChannel
CONSTANTS r1, r2
=============================================================================
