---------------------------- MODULE MCKeyVault ------------------------------
(* Two people who share a group, a device each, or one with two devices.   *)
EXTENDS KeyVault

CONSTANTS ada, bob, friends, r

OneEach == {1, 2}
FirstIsAdas == [d \in Devices |-> IF d = 1 THEN ada ELSE bob]
BothAdas == [d \in Devices |-> ada]
AdaThrice == [p \in People |-> IF p = ada THEN 3 ELSE 1]
AdasGroup == [g \in Groups |-> ada]
=============================================================================
