------------------------------ MODULE MCUplink ------------------------------
EXTENDS UplinkBuffers
ItemBounds == [sensor |-> 4, relay |-> 2]
=============================================================================
