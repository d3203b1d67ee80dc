------------------------------ MODULE Database ------------------------------
(* What every part that keeps rows in PostgreSQL knows.                    *)
EXTENDS Naturals, FiniteSets

CONSTANT None    \* SQL NULL, Python None, no row

=============================================================================
