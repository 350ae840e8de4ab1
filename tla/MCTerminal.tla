---------------------------- MODULE MCTerminal ----------------------------
(* Small instances of Terminal for TLC.                                    *)
EXTENDS Terminal, TLC

\* Browsers, and connections the Agent has not made yet, are interchangeable.
Symmetry == Permutations(Browser) \cup Permutations(Conn)
=============================================================================
