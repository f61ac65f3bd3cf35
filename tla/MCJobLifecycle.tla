--------------------------- MODULE MCJobLifecycle ---------------------------
EXTENDS JobLifecycle

CONSTANTS c0, e1, e2
=============================================================================
