--------------------------- MODULE MCServerClient ---------------------------
EXTENDS ServerClient
=============================================================================
