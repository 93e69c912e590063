--------------------------- MODULE MCEpollServer ---------------------------
(* Two connections competing for one descriptor or two.                     *)
EXTENDS EpollServer

CONSTANTS a, b, w1, w2

TwoConns == {a, b}
OneEach == [c \in TwoConns |-> 1]
TwoAndOne == [c \in TwoConns |-> IF c = a THEN 2 ELSE 1]
ThreeAndOne == [c \in TwoConns |-> IF c = a THEN 3 ELSE 1]
SecondOfA == {<<a, 3>>}
ThirdOfA == {<<a, 5>>}
FirstOfB == {<<b, 1>>}
OneWorker == {w1}
TwoWorkers == {w1, w2}
OneFd == {5}
TwoFds == {5, 6}
MCListener == 3

\* To keep an instance small: a sends more than one request only while b has not
\* connected, and b connects only if a has not.  Clients are free to do no more.
Few == sent[a] <= 2 \/ peer[b] = "new"

FewSpec == Init /\ [][Next /\ Few']_vars /\ Fairness
=============================================================================
