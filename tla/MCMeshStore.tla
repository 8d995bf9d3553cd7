---------------------------- MODULE MCMeshStore ----------------------------
\* Small instances of MeshStore for TLC; the configurations give the constants.
EXTENDS MeshStore
=============================================================================
