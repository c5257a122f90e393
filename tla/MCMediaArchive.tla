--------------------------- MODULE MCMediaArchive ---------------------------
EXTENDS MediaArchive

CONSTANTS gone, picture, talk

\* A picture before a dead link, the picture with a forwarded conversation, and alone.
ThreeMessages == <<<<picture, gone>>, <<picture, talk>>, <<picture>>>>
=============================================================================
