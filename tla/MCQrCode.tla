------------------------------ MODULE MCQrCode ------------------------------
(***************************************************************************)
(* Texts at the edges of the versions and levels, in each charset; the     *)
(* characters run through the charset, so that each place has its own.     *)
(***************************************************************************)
EXTENDS QrCode

Running(charset, size, n) ==
  [charset |-> charset, chars |-> [i \in 1..n |-> (7 * i + n) % size]]

SomeTexts ==
  {Running("numeric", 10, n) : n \in {0, 1, 8, 17, 34, 35}}
    \cup {Running("alphanumeric", 45, n) : n \in {1, 20, 21}}
    \cup {Running("byte", 256, n) : n \in {7, 8, 11, 14, 15, 26, 43, 107, 123, 181, 2332}}

=============================================================================
