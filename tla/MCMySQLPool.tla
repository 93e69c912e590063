---------------------------- MODULE MCMySQLPool ----------------------------
(* Three threads, two connections, and handles for two replacements. *)
EXTENDS MySQLPool

CONSTANTS t1, t2, t3, h1, h2, h3, h4

MCThreads == {t1, t2, t3}
MCHandles == {h1, h2, h3, h4}
=============================================================================
