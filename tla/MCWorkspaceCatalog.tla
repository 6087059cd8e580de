------------------------- MODULE MCWorkspaceCatalog -------------------------
\* Model-checking instance of WorkspaceCatalog.
EXTENDS WorkspaceCatalog
=============================================================================
