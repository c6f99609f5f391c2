----------------------------- MODULE MCMessages -----------------------------
\* TLC instance of Messages.
EXTENDS Messages
=============================================================================
