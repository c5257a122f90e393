--------------------------- MODULE MCCollectorSync ---------------------------
EXTENDS CollectorSync

CONSTANTS m1, m2, e1, gui, cli

\* A picture that is, or is not yet, on the local disk.
PictureViews == [e \in Elements |-> {"metadata", "full"}]

\* A picture first seen as a thumbnail, later in full.
UpgradeViews == [e \in Elements |-> {"thumbnail", "full"}]

FullView == [e \in Elements |-> {"full"}]

\* Anything the parser yields for one element, thumbnails excepted.
NoThumbnailViews == [e \in Elements |-> Views \ {"thumbnail"}]

=============================================================================
