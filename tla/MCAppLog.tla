------------------------------ MODULE MCAppLog ------------------------------
\* Small instances of AppLog.
EXTENDS AppLog
=============================================================================
