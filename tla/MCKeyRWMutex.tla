---------------------------- MODULE MCKeyRWMutex ----------------------------
\* TLC instance of KeyRWMutex: one key, which is new.
EXTENDS KeyRWMutex
=============================================================================
