------------------------------ MODULE MCChannel ------------------------------
(***************************************************************************)
(* Channel on names around the limits of 58 and 63.                        *)
(***************************************************************************)
EXTENDS Channel

CONSTANTS c1, c2

Ascii(id, n) == [id |-> id, chars |-> n, bytes |-> n]

\* The longest plain name, the shortest hashed one, and two long names alike.
AsciiNames == {Ascii(1, 58), Ascii(2, 59), Ascii(3, 64), Ascii(4, 64)}

\* The same and a Cyrillic name of 40 letters, two bytes each.
MultibyteNames == AsciiNames \cup {[id |-> 5, chars |-> 40, bytes |-> 80]}

=============================================================================
