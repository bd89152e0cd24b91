----------------------------- MODULE MCLdapSync -----------------------------
(* Finite instances of LdapSync for TLC. *)
EXTENDS LdapSync, TLC

CONSTANTS g1, n1

MCNameOf == [g \in Guid |-> n1]

Local == [guid |-> None, data |-> None, source |-> "local", active |-> TRUE, imported |-> FALSE]
Inactive == [NewUser(g1, [mail |-> CHOOSE m \in Mail : TRUE, attrs |-> {}], FALSE) EXCEPT !.active = FALSE]

MCAccounts == {[n \in {} |-> Local], [n \in {n1} |-> Local]}
MCInactive == {[n \in {n1} |-> Inactive]}

MCSettings == [enabled : {TRUE}, autoSync : {TRUE}, mode : Mode, removes : {TRUE}]
MCDirect == {setting \in MCSettings : setting.mode = "disabled"}
MCOptions == {[dry |-> FALSE, full |-> FALSE]}

Interchangeable == Permutations(Sync)
=============================================================================
