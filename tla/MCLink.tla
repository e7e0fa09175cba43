------------------------------- MODULE MCLink -------------------------------
EXTENDS LoRaLink
ShortPayloads == {<<>>, <<5, 2>>}
TrickyPayload == {<<5, 2>>}
=============================================================================
