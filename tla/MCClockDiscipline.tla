--------------------------- MODULE MCClockDiscipline ---------------------------
(* Small instances of ClockDiscipline.                                        *)
EXTENDS ClockDiscipline, TLC
CONSTANTS portA, portB

\* The ports are interchangeable.
Symmetry == Permutations({portA, portB})
=============================================================================
