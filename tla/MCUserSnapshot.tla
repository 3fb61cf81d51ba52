---------------------------- MODULE MCUserSnapshot ----------------------------
EXTENDS UserSnapshot

\* One section of each kind: those that ask for as many rows as they keep, and
\* those of the backpack, which ask for one more.
MCSections == <<"vip", "commodities">>
=============================================================================
