------------------------------ MODULE MCServer ------------------------------
(* Symmetry of the instances that check safety: the members of each set    *)
(* are interchangeable, no definition chooses among them.                  *)
EXTENDS Stats, TLC

Symmetry ==
    Permutations(Conn) \cup Permutations(Id) \cup Permutations(Worker)
      \cup Permutations(Fd)
=============================================================================
