----------------------------- MODULE MCStartup -----------------------------
EXTENDS Startup

CONSTANTS u1, u2

TwoUsers == <<u1, u2>>
NoUsers == << >>
=============================================================================
