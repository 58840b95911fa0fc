----------------------------- MODULE MCVerifier ------------------------------
EXTENDS RuntimeVerifier
=============================================================================
