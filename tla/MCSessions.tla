------------------------------ MODULE MCSessions ------------------------------
(***************************************************************************)
(* Sessions for TLC.  Neither the devices nor the session objects differ   *)
(* in anything but their names.                                            *)
(***************************************************************************)
EXTENDS Sessions

Symmetry == {f \in Permutations(Device \cup Slot) : \A p \in Device : f[p] \in Device}
=============================================================================
