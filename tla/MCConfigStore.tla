----------------------------- MODULE MCConfigStore -----------------------------
(* Instances of ConfigStore for TLC. *)
EXTENDS ConfigStore

TwoValues == {"a", "b"}
AllOps == {"write", "replace", "delete", "move"}
Deleting == {"delete"}
=============================================================================
