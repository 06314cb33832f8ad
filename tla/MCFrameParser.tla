--------------------------- MODULE MCFrameParser ---------------------------
\* Bounded instances of FrameParser.
EXTENDS FrameParser

SmallPreamble == <<2, 1>>
=============================================================================
