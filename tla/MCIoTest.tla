------------------------------ MODULE MCIoTest ------------------------------
(* IoTest on a small instance: iotest.cfg gives the bounds.                 *)
EXTENDS IoTest

\* "1B", whose pattern is all zeros, and two rows that end inside their second
\* sector; the last byte of the third row's pattern is zero.
MCSizes == <<1, 3, 3>>
=============================================================================
