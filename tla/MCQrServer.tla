----------------------------- MODULE MCQrServer -----------------------------
(* Finite instances of QrServer for TLC.                                   *)
EXTENDS QrServer

CONSTANTS c1, c2

\* Bytes of texts: digits, an address with a port, small letters.
Digits(n) == [i \in 1 .. n |-> 48 + (i % 10)]
Address == <<49, 48, 46, 48, 46, 48, 46, 49, 58, 56, 48>>
Name(n, first) == [i \in 1 .. n |-> 97 + ((first + i) % 26)]

\* One after another: every mode, versions of one block and of several, with and without version
\* information, with a count of eight bits and of sixteen, and a host that is too long.
Alone == [k \in 1 .. 8 |-> c1 :> << Digits(10), Address, Name(9, 1), Name(17, 2), Name(22, 3),
                                    Name(80, 4), Name(140, 5), Name(2000, 6) >>[k]]

\* After a code of version 1 and one of version 3, two at once that need longer generators; what they
\* left is then used for a longer one.
Together == << c1 :> Name(9, 1), c2 :> Name(22, 2), (c1 :> Name(17, 3)) @@ (c2 :> Name(18, 4)),
               c1 :> Name(40, 5) >>

PlansInUse == {Alone, Together}
=============================================================================
