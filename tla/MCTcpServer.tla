---------------------------- MODULE MCTcpServer ----------------------------
(* Two connections on two descriptors: the request of one is longer than one *)
(* recv returns, and may come in halves; the other sends two, whole, the     *)
(* first for a file and the second to be the last on its connection.         *)
EXTENDS TcpServer

CONSTANTS a, b, w1

TwoConns == {a, b}
OneAndTwo == [c \in TwoConns |-> IF c = a THEN 1 ELSE 2]
JustA == {a}
FirstOfB == {<<b, 1>>}
SecondOfB == {<<b, 2>>}
OnlyOfA == {<<a, 1>>}
OneWorker == {w1}
TwoFds == {5, 6}
MCListener == 3
=============================================================================
