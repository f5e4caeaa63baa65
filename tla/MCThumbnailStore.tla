--------------------------- MODULE MCThumbnailStore ---------------------------
\* A small instance of ThumbnailStore: pictures of one to three parts.
EXTENDS ThumbnailStore

MCPartsOf == <<3, 1, 2>>

==============================================================================
