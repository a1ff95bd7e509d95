---------------------------- MODULE MCMailRelay ----------------------------
(* A small instance of MailRelay: limits of one and two, a day of two      *)
(* instants.                                                               *)
EXTENDS MailRelay, TLC

MCDayOf == [t \in 0 .. MaxClock |-> t \div 2]
Runs == {1}

Symmetry == Permutations(Worker)
=============================================================================
