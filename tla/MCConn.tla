------------------------------- MODULE MCConn -------------------------------
EXTENDS Conn
CONSTANTS a, b
=============================================================================
