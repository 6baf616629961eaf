------------------------------ MODULE MCVersion ------------------------------
(***************************************************************************)
(* Constraints for TLC: every type violated, one fulfilled, one of a       *)
(* version that does not parse, and one of each that begins at time two.   *)
(***************************************************************************)
EXTENDS VersionGate

Constraint(version, type, start) == [version |-> version, type |-> type, start |-> start]

MCConstraints ==
  {Constraint(2, type, None) : type \in {"blocking", "warning", "notice"}} \cup
  {Constraint(1, "blocking", None), Constraint(None, "notice", None),
   Constraint(2, "blocking", 2), Constraint(None, "warning", 2)}
=============================================================================
