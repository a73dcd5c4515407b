--------------------------- MODULE MCFileTransfer ---------------------------
EXTENDS FileTransfer, TLC

\* Uploads, tool writes and downloads are each interchangeable.
TransferSymmetry == Permutations(Uploads) \cup Permutations(Tools) \cup Permutations(Downloads)
=============================================================================
