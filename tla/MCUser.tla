------------------------------- MODULE MCUser -------------------------------
(* Three workers, two names and two passwords, a cache of one entry. *)
EXTENDS User

CONSTANTS t1, t2, t3, ann, bob, x, y

MCThreads == {t1, t2, t3}
MCNames == {ann, bob}
MCPasswords == {x, y}
=============================================================================
