--------------------------- MODULE MCSegmentSizes ---------------------------
EXTENDS SegmentSizes
=============================================================================
