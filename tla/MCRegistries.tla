--------------------------- MODULE MCRegistries ---------------------------
EXTENDS Registries
=============================================================================
