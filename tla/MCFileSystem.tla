---------------------------- MODULE MCFileSystem ----------------------------
EXTENDS FileSystem
MCKeys == {-1, 1, 2}
MCFds == 3 .. 4
=============================================================================
