---------------------------- MODULE MCAutoinvest ----------------------------
\* Two shares of a domestic instrument, a dollar amount of a US one.
EXTENDS Autoinvest

CONSTANTS kr, us

Asked == [i \in Items |-> IF i \in Domestic THEN 2 ELSE 1]
=============================================================================
