---------------------------- MODULE MCVisibility ----------------------------
EXTENDS Visibility
=============================================================================
