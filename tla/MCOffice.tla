------------------------------- MODULE MCOffice -------------------------------
(***************************************************************************)
(* OfficeParts on small instances: one machine, store, clock or person where  *)
(* nothing needs two of them (the values are in Office.cfg).                  *)
(***************************************************************************)
EXTENDS OfficeParts

\* The AI's answer for a score: below the range, in it, above it.
MCAnswers == {-5, 60, 300}

\* Two stores whose names differ only in what safeName strips.
MCFileOf == [s \in {"loja", "loja."} |-> "loja"]

\* The clock of a PC: right, five minutes behind, ten behind, five ahead.
MCSkew == {-2, -1, 0, 1}
=============================================================================
