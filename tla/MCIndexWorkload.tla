--------------------------- MODULE MCIndexWorkload ---------------------------
EXTENDS IndexWorkload
MCKeys == {1, 7, 8, 9, 10}
MCProbes == 0..11
=============================================================================
