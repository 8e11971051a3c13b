---------------------------- MODULE MCAdmission ----------------------------
(***************************************************************************)
(* Small instances of Admission for TLC: one address in two spellings and  *)
(* a country rule that covers it.                                          *)
(***************************************************************************)
EXTENDS Admission

CONSTANTS ip1, ip1host, country

MCBare == {ip1}
MCNorm == [x \in Text |-> "A"]
MCPrefixed == [x \in Text |-> ip1host]
MCCovers == [w \in Wide |-> {"A"}]
=============================================================================
