----------------------------- MODULE MCProfiles -----------------------------
(***************************************************************************)
(* Values for Profiles: a device CEC and USB both know and one that only   *)
(* CEC knows, and a profile that asks for the first.                       *)
(***************************************************************************)
EXTENDS Profiles

MCDevices  == {[cec |-> "x", os |-> "o"], [cec |-> "y", os |-> ""]}
MCRules    == {[cec |-> "x", os |-> ""]}
MCEarlier  == {<<[used |-> TRUE, set |-> 1, rule |-> r]>> : r \in MCRules}
=============================================================================
