-------------------------- MODULE MCHalfDuplexUart --------------------------
(* Instances of HalfDuplexUart for TLC.                                    *)
EXTENDS HalfDuplexUart

\* A Ping; the UART's two buffers; the first frame that is longer than the
\* rounding allows without its margin; the longest frame.
Lengths == {8, 96, 107, 270}
=============================================================================
