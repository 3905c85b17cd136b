---------------------------- MODULE MCSyncSystem ----------------------------
(* Instances of SyncSystem: who has which device, and what is shared.      *)
EXTENDS SyncProperties

CONSTANTS alice, bob, carol, r1, r2, g

TwoDevices == {1, 2}

\* Two accounts, a device each; alice's records are in a group shared with bob.
OneEach == [d \in Devices |-> IF d = 1 THEN alice ELSE bob]
SecondRunsFast == [d \in Devices |-> IF d = 2 THEN 2 ELSE 0]

InGroup == [group_id |-> g, key_ref |-> g]
NotRekeyed == [group_id |-> g, key_ref |-> None]

\* alice files both records in the group; r1 at times only in her account; r1 in
\* the group at times under her own key, while bob takes it to his account; r1
\* in the group, and bob r2 in his account.
AllInGroup == [d \in Devices |-> [i \in Ids |-> IF d = 1 THEN {InGroup} ELSE {}]]
R1InAndOut == [d \in Devices |-> [i \in Ids |->
    IF d = 2 THEN {} ELSE IF i = r1 THEN {InGroup, Personal} ELSE {InGroup}]]
BobTakesR1 == [d \in Devices |-> [i \in Ids |->
    IF d = 1 THEN (IF i = r1 THEN {InGroup, NotRekeyed} ELSE {InGroup})
    ELSE (IF i = r1 THEN {Personal} ELSE {})]]
R1InGroup == [d \in Devices |-> [i \in Ids |->
    IF i = r1 THEN (IF d = 1 THEN {InGroup} ELSE {})
    ELSE (IF d = 2 THEN {Personal} ELSE {})]]
FirstMakesAll == [i \in Ids |-> 1]
FirstMakesR1 == [i \in Ids |-> IF i = r1 THEN 1 ELSE 2]
AliceToBob == {<<alice, g, bob>>}
AliceToCarol == {<<alice, g, carol>>}
AliceToBoth == AliceToBob \cup AliceToCarol
TwoSharers == {<<alice, g, bob>>, <<carol, g, bob>>}
InStep == [d \in Devices |-> 0]
=============================================================================
